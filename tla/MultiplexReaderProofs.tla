------------------------ MODULE MultiplexReaderProofs ------------------------
(***************************************************************************)
(* Proofs about MultiplexReader, for any number of connections, buffers    *)
(* and blocks and for every interleaving of the reader threads: its types  *)
(* and the order of the buffers, and, for the streams a writer produces,   *)
(* that dequeue finds what is_empty saw, that a buffer is finished only    *)
(* when it is whole and that it is passed at most once.                    *)
(***************************************************************************)
EXTENDS MultiplexReaderInvariants, TLAPS, SequenceTheorems, FiniteSetTheorems

(* Lemmas about the types *)

(* A pointer stays a pointer when more has been allocated. *)
LEMMA InfoMono ==
  ASSUME NEW q \in Nat, NEW k \in Nat, q <= k
  PROVE  InfoType(q) \subseteq InfoType(k)
BY DEF InfoType

LEMMA LocalsMono ==
  ASSUME NEW p \in Nat, NEW m \in Nat, p <= m, NEW q \in Nat, NEW k \in Nat, q <= k
  PROVE  LocalsType(p, q) \subseteq LocalsType(m, k)
<1>1. 0 .. p \subseteq 0 .. m /\ 0 .. q \subseteq 0 .. k OBVIOUS
<1>2. Seq(0 .. p) \subseteq Seq(0 .. m) BY <1>1
<1>3. ASSUME NEW f \in [{"outer", "nested"} -> 0 .. p]
      PROVE  f \in [{"outer", "nested"} -> 0 .. m]
  BY <1>1
<1>4. QED BY <1>1, <1>2, <1>3 DEF LocalsType

(* Assigning one field of a buffer_info a value of its type. *)
LEMMA InfoField ==
  ASSUME NEW q \in Nat, NEW o \in InfoType(q)
  PROVE  /\ \A v \in SUBSET (0 .. MaxSize - 1) : [o EXCEPT !.written = v] \in InfoType(q)
         /\ \A v \in Nat : [o EXCEPT !.n_written = v] \in InfoType(q)
         /\ \A v \in Keys : [o EXCEPT !.tag = v] \in InfoType(q)
         /\ \A v \in Keys : [o EXCEPT !.next_tag = v] \in InfoType(q)
         /\ \A v \in 0 .. q : [o EXCEPT !.waiting_queue = v] \in InfoType(q)
         /\ \A v \in {"null", "live", "freed"} : [o EXCEPT !.buffer = v] \in InfoType(q)
         /\ \A v \in BOOLEAN : [o EXCEPT !.freed = v] \in InfoType(q)
         /\ \A v \in BOOLEAN : [o EXCEPT !.sent = v] \in InfoType(q)
         /\ \A v \in BOOLEAN : [o EXCEPT !.completed = v] \in InfoType(q)
BY DEF InfoType

LEMMA ShapeField ==
  ASSUME NEW B, NEW P, NEW Q, NEW F, NEW C, NEW K, NEW O,
         NEW l \in Shape(B, P, Q, F, C, K, O)
  PROVE  /\ \A v \in B : [l EXCEPT !.block = v] \in Shape(B, P, Q, F, C, K, O)
         /\ \A v \in P : [l EXCEPT !.buffer = v] \in Shape(B, P, Q, F, C, K, O)
         /\ \A v \in Q : [l EXCEPT !.waiting_queue = v] \in Shape(B, P, Q, F, C, K, O)
         /\ \A v \in P : [l EXCEPT !.dummy = v] \in Shape(B, P, Q, F, C, K, O)
         /\ \A v \in F : [l EXCEPT !.found = v] \in Shape(B, P, Q, F, C, K, O)
         /\ \A v \in P : [l EXCEPT !.prev = v] \in Shape(B, P, Q, F, C, K, O)
         /\ \A v \in P : [l EXCEPT !.done = v] \in Shape(B, P, Q, F, C, K, O)
         /\ \A v \in P : [l EXCEPT !.next = v] \in Shape(B, P, Q, F, C, K, O)
         /\ \A v \in C : [l EXCEPT !.calls = v] \in Shape(B, P, Q, F, C, K, O)
         /\ \A v \in P : [l EXCEPT !.new_buf = v] \in Shape(B, P, Q, F, C, K, O)
         /\ \A v \in P : [l EXCEPT !.repeat = v] \in Shape(B, P, Q, F, C, K, O)
         /\ \A v \in K : [l EXCEPT !.kv = v] \in Shape(B, P, Q, F, C, K, O)
         /\ \A v \in O : [l EXCEPT !.old_block = v] \in Shape(B, P, Q, F, C, K, O)
         /\ \A v \in F : [l EXCEPT !.set = v] \in Shape(B, P, Q, F, C, K, O)
BY DEF Shape

(* The assignments the code makes to several locals at once. *)
LEMMA ShapeAssign ==
  ASSUME NEW B, NEW P, NEW Q, NEW F, NEW C, NEW K, NEW O,
         NEW l \in Shape(B, P, Q, F, C, K, O)
  PROVE  /\ \A v, w \in P :
              /\ [l EXCEPT !.new_buf = v, !.repeat = w] \in Shape(B, P, Q, F, C, K, O)
              /\ [l EXCEPT !.prev = v, !.dummy = w] \in Shape(B, P, Q, F, C, K, O)
              /\ \A u \in Q : [l EXCEPT !.waiting_queue = u, !.dummy = v, !.buffer = w]
                                \in Shape(B, P, Q, F, C, K, O)
              /\ \A c \in C : [l EXCEPT !.calls = c, !.done = v, !.next = w]
                                \in Shape(B, P, Q, F, C, K, O)
         /\ \A k \in K, v \in P, f \in F :
              [l EXCEPT !.kv = k, !.buffer = v, !.found = f]
                \in Shape(B, P, Q, F, C, K, O)
         /\ \A b \in B, o \in O, f \in F :
              [l EXCEPT !.block = b, !.old_block = o, !.set = f]
                \in Shape(B, P, Q, F, C, K, O)
BY ShapeField

LEMMA ShapeFresh ==
  ASSUME NEW B, NEW P, NEW Q, NEW F, NEW C, NEW K, NEW O,
         NEW l \in Shape(B, P, Q, F, C, K, O),
         NoBlock \in B, Null \in P, Null \in Q, FALSE \in F
  PROVE  /\ Fresh(l) \in Shape(B, P, Q, F, C, K, O)
         /\ [Fresh(l) EXCEPT !.new_buf = Null] \in Shape(B, P, Q, F, C, K, O)
         /\ [Fresh(l) EXCEPT !.new_buf = Null, !.repeat = Null]
              \in Shape(B, P, Q, F, C, K, O)
<1>1. Fresh(l) \in Shape(B, P, Q, F, C, K, O) BY ShapeField DEF Fresh
<1>2. QED BY <1>1, ShapeField

LEMMA LocalsField ==
  ASSUME NEW p \in Nat, NEW q \in Nat, NEW l \in LocalsType(p, q)
  PROVE  /\ \A v \in Blocks \cup {NoBlock} : [l EXCEPT !.block = v] \in LocalsType(p, q)
         /\ \A v \in 0 .. q : [l EXCEPT !.waiting_queue = v] \in LocalsType(p, q)
         /\ \A v \in 0 .. p : /\ [l EXCEPT !.new_buf = v] \in LocalsType(p, q)
                              /\ [l EXCEPT !.dummy = v] \in LocalsType(p, q)
                              /\ [l EXCEPT !.prev = v] \in LocalsType(p, q)
                              /\ [l EXCEPT !.next = v] \in LocalsType(p, q)
                              /\ [l EXCEPT !.done = v] \in LocalsType(p, q)
         /\ \A v \in Seq(0 .. p) : [l EXCEPT !.calls = v] \in LocalsType(p, q)
         /\ \A v \in BOOLEAN : [l EXCEPT !.set = v] \in LocalsType(p, q)
         /\ Fresh(l) \in LocalsType(p, q)
         /\ [Fresh(l) EXCEPT !.new_buf = Null] \in LocalsType(p, q)
         /\ [Fresh(l) EXCEPT !.new_buf = Null, !.repeat = Null] \in LocalsType(p, q)
<1> DEFINE B == Blocks \cup {NoBlock}
           P == 0 .. p
           Q == 0 .. q
           F == BOOLEAN
           C == Seq(0 .. p)
           K == [{"outer", "nested"} -> 0 .. p]
           O == DataBlocks \cup {NoBlock}
<1>1. LocalsType(p, q) = Shape(B, P, Q, F, C, K, O) BY DEF LocalsType, Shape
<1>2. NoBlock \in B /\ Null \in P /\ Null \in Q /\ FALSE \in F BY DEF Null
<1> HIDE DEF B, P, Q, F, C, K, O
<1>3. l \in Shape(B, P, Q, F, C, K, O) BY <1>1
<1>4. /\ \A v \in B : [l EXCEPT !.block = v] \in LocalsType(p, q)
      /\ \A v \in Q : [l EXCEPT !.waiting_queue = v] \in LocalsType(p, q)
      /\ \A v \in P : /\ [l EXCEPT !.new_buf = v] \in LocalsType(p, q)
                      /\ [l EXCEPT !.dummy = v] \in LocalsType(p, q)
                      /\ [l EXCEPT !.prev = v] \in LocalsType(p, q)
                      /\ [l EXCEPT !.next = v] \in LocalsType(p, q)
                      /\ [l EXCEPT !.done = v] \in LocalsType(p, q)
      /\ \A v \in C : [l EXCEPT !.calls = v] \in LocalsType(p, q)
      /\ \A v \in F : [l EXCEPT !.set = v] \in LocalsType(p, q)
  BY <1>1, <1>3, ShapeField
<1>5. /\ Fresh(l) \in LocalsType(p, q)
      /\ [Fresh(l) EXCEPT !.new_buf = Null] \in LocalsType(p, q)
      /\ [Fresh(l) EXCEPT !.new_buf = Null, !.repeat = Null] \in LocalsType(p, q)
  BY <1>1, <1>2, <1>3, ShapeFresh
<1>6. QED BY <1>4, <1>5 DEF B, P, Q, C, F

LEMMA LocalsAssign ==
  ASSUME NEW p \in Nat, NEW q \in Nat, NEW l \in LocalsType(p, q)
  PROVE  /\ \A v, w \in 0 .. p :
              /\ [l EXCEPT !.new_buf = v, !.repeat = w] \in LocalsType(p, q)
              /\ [l EXCEPT !.prev = v, !.dummy = w] \in LocalsType(p, q)
              /\ \A u \in 0 .. q : [l EXCEPT !.waiting_queue = u, !.dummy = v, !.buffer = w]
                                     \in LocalsType(p, q)
              /\ \A c \in Seq(0 .. p) : [l EXCEPT !.calls = c, !.done = v, !.next = w]
                                          \in LocalsType(p, q)
         /\ \A f \in {"outer", "nested"}, v \in 0 .. p :
              [l EXCEPT !.kv[f] = v, !.buffer = v, !.found = TRUE] \in LocalsType(p, q)
         /\ \A b \in DataBlocks :
              [l EXCEPT !.block = b, !.old_block = b, !.set = TRUE] \in LocalsType(p, q)
<1> DEFINE B == Blocks \cup {NoBlock}
           P == 0 .. p
           Q == 0 .. q
           F == BOOLEAN
           C == Seq(0 .. p)
           K == [{"outer", "nested"} -> 0 .. p]
           O == DataBlocks \cup {NoBlock}
<1>1. LocalsType(p, q) = Shape(B, P, Q, F, C, K, O) BY DEF LocalsType, Shape
<1>2. TRUE \in F OBVIOUS
<1>3. \A f \in {"outer", "nested"}, v \in 0 .. p : [l.kv EXCEPT ![f] = v] \in K BY DEF LocalsType
<1> HIDE DEF B, P, Q, F, C, K, O
<1>4. l \in Shape(B, P, Q, F, C, K, O) BY <1>1
<1>5. \A v, w \in P :
        /\ [l EXCEPT !.new_buf = v, !.repeat = w] \in Shape(B, P, Q, F, C, K, O)
        /\ [l EXCEPT !.prev = v, !.dummy = w] \in Shape(B, P, Q, F, C, K, O)
        /\ \A u \in Q : [l EXCEPT !.waiting_queue = u, !.dummy = v, !.buffer = w]
                          \in Shape(B, P, Q, F, C, K, O)
        /\ \A c \in C : [l EXCEPT !.calls = c, !.done = v, !.next = w]
                          \in Shape(B, P, Q, F, C, K, O)
  BY <1>4, ShapeAssign, Zenon
<1>6. \A k \in K, v \in P : [l EXCEPT !.kv = k, !.buffer = v, !.found = TRUE]
                              \in LocalsType(p, q)
 <2>1. \A k \in K, v \in P, f \in F : [l EXCEPT !.kv = k, !.buffer = v, !.found = f]
                             \in Shape(B, P, Q, F, C, K, O)
   BY <1>4, ShapeAssign, Zenon
 <2>2. QED BY <1>1, <1>2, <2>1
<1>7. ASSUME NEW f \in {"outer", "nested"}, NEW v \in 0 .. p
      PROVE  [l EXCEPT !.kv[f] = v, !.buffer = v, !.found = TRUE] \in LocalsType(p, q)
 <2> DEFINE k == [l.kv EXCEPT ![f] = v]
 <2>1. k \in K BY <1>3
 <2>2. v \in P BY DEF P
 <2> HIDE DEF k
 <2>3. [l EXCEPT !.kv = k, !.buffer = v, !.found = TRUE] \in LocalsType(p, q) BY <1>6, <2>1, <2>2
 <2>4. QED BY <2>3 DEF k
<1> USE DEF P, Q, C
<1>8. \A v, w \in 0 .. p : /\ [l EXCEPT !.new_buf = v, !.repeat = w] \in LocalsType(p, q)
                           /\ [l EXCEPT !.prev = v, !.dummy = w] \in LocalsType(p, q)
  BY <1>1, <1>5
<1>9. \A v, w \in 0 .. p, u \in 0 .. q :
        [l EXCEPT !.waiting_queue = u, !.dummy = v, !.buffer = w] \in LocalsType(p, q)
  BY <1>1, <1>5
<1>10. \A v, w \in 0 .. p, c \in Seq(0 .. p) :
         [l EXCEPT !.calls = c, !.done = v, !.next = w] \in LocalsType(p, q)
  BY <1>1, <1>5
<1>11. ASSUME NEW b \in DataBlocks
       PROVE  [l EXCEPT !.block = b, !.old_block = b, !.set = TRUE] \in LocalsType(p, q)
 <2>1. b \in B /\ b \in O BY DEF B, O, Blocks
 <2>2. \A c \in B, o \in O, f \in F :
         [l EXCEPT !.block = c, !.old_block = o, !.set = f] \in Shape(B, P, Q, F, C, K, O)
   BY <1>4, ShapeAssign, Zenon
 <2>3. QED BY <1>1, <1>2, <2>1, <2>2
<1>12. QED BY <1>7, <1>8, <1>9, <1>10, <1>11

(* What TypeOK says of the state a step starts from *)

LEMMA Sizes ==
  ASSUME TypeOK
  PROVE  /\ Len(info) \in Nat /\ Len(queue) \in Nat
         /\ HeapType /\ EnvType
         /\ \A o \in 1 .. Len(info) : info[o] \in InfoType(Len(queue))
         /\ \A q \in 1 .. Len(queue) : queue[q] \in QueueType
BY DEF TypeOK, HeapType, EnvType

LEMMA ThreadType ==
  ASSUME TypeOK, NEW r \in Readers
  PROVE  /\ th[r] \in LocalsType(Len(info), Len(queue))
         /\ th[r].block \in Blocks \cup {NoBlock}
         /\ th[r].buffer \in 0 .. Len(info)
         /\ th[r].waiting_queue \in 0 .. Len(queue)
         /\ th[r].dummy \in 0 .. Len(info)
         /\ th[r].found \in BOOLEAN
         /\ th[r].prev \in 0 .. Len(info)
         /\ th[r].done \in 0 .. Len(info)
         /\ th[r].next \in 0 .. Len(info)
         /\ th[r].calls \in Seq(0 .. Len(info))
         /\ th[r].new_buf \in 0 .. Len(info)
         /\ th[r].repeat \in 0 .. Len(info)
         /\ th[r].kv \in [{"outer", "nested"} -> 0 .. Len(info)]
         /\ th[r].old_block \in DataBlocks \cup {NoBlock}
<1>1. th[r] \in LocalsType(Len(info), Len(queue)) BY DEF TypeOK
<1>2. QED BY <1>1 DEF LocalsType

LEMMA BlockType ==
  ASSUME TypeOK, NEW r \in Readers
  PROVE  /\ pc[r] \in InitSteps => /\ th[r].block.tag \in Tags
                                   /\ th[r].block.prev_tag \in Keys
                                   /\ th[r].block.buffer_size \in 0 .. MaxSize
                                   /\ th[r].block.last_block \in BOOLEAN
         /\ pc[r] \in DataSteps => /\ th[r].block.tag \in Tags
                                   /\ th[r].block.seq_number \in 0 .. MaxSize - 1
BY DEF TypeOK, InitBlocks, DataBlocks

(* The parts of a step put together: thread r alone changes its step and    *)
(* its locals.                                                              *)
LEMMA TypeStep ==
  ASSUME TypeOK, HeapType', EnvType', Grows,
         NEW r \in Readers, NEW s \in Steps,
         NEW l \in LocalsType(Len(info'), Len(queue')),
         pc' = [pc EXCEPT ![r] = s], th' = [th EXCEPT ![r] = l],
         s \in InitSteps => l.block \in InitBlocks,
         s \in DataSteps => l.block \in DataBlocks
  PROVE  TypeOK'
<1>1. /\ Len(info) \in Nat /\ Len(info') \in Nat
      /\ Len(queue) \in Nat /\ Len(queue') \in Nat
  BY DEF TypeOK, HeapType
<1>2. LocalsType(Len(info), Len(queue)) \subseteq LocalsType(Len(info'), Len(queue'))
  BY <1>1, LocalsMono DEF Grows
<1>3. th' \in [Readers -> LocalsType(Len(info'), Len(queue'))] BY <1>2 DEF TypeOK
<1>4. pc' \in [Readers -> Steps] BY DEF TypeOK
<1>5. \A q \in Readers : /\ pc'[q] \in InitSteps => th'[q].block \in InitBlocks
                         /\ pc'[q] \in DataSteps => th'[q].block \in DataBlocks
  BY DEF TypeOK
<1>6. QED BY <1>3, <1>4, <1>5 DEF TypeOK, HeapType, EnvType
LEMMA LocalStep ==
  ASSUME TypeOK, HeapType', EnvType', Grows,
         NEW r \in Readers, NEW s \in Steps,
         NEW l \in LocalsType(Len(info), Len(queue)),
         Goto(r, s), Locals(r, l),
         s \in InitSteps => l.block \in InitBlocks,
         s \in DataSteps => l.block \in DataBlocks
  PROVE  TypeOK'
<1>1. /\ Len(info) \in Nat /\ Len(info') \in Nat
      /\ Len(queue) \in Nat /\ Len(queue') \in Nat
  BY DEF TypeOK, HeapType
<1>2. l \in LocalsType(Len(info'), Len(queue')) BY <1>1, LocalsMono DEF Grows
<1>3. pc' = [pc EXCEPT ![r] = s] /\ th' = [th EXCEPT ![r] = l] BY DEF Goto, Locals
<1>4. QED BY <1>2, <1>3, TypeStep

LEMMA GotoStep ==
  ASSUME TypeOK, HeapType', EnvType', Grows,
         NEW r \in Readers, NEW s \in Steps, Goto(r, s), th' = th,
         s \in InitSteps => th[r].block \in InitBlocks,
         s \in DataSteps => th[r].block \in DataBlocks
  PROVE  TypeOK'
<1>1. Locals(r, th[r]) BY DEF Locals, TypeOK
<1>2. th[r] \in LocalsType(Len(info), Len(queue)) BY ThreadType
<1>3. QED BY <1>1, <1>2, LocalStep

LEMMA ReturnStep ==
  ASSUME TypeOK, HeapType', EnvType', Grows, NEW r \in Readers, Return(r)
  PROVE  TypeOK'
<1> DEFINE s == IF InInit(r) THEN "drain_test" ELSE "read"
<1>1. s \in Steps \ (InitSteps \cup DataSteps) BY DEF Steps, Draining, InitSteps, DataSteps
<1>2. Fresh(th[r]) \in LocalsType(Len(info), Len(queue)) BY ThreadType, Sizes, LocalsField
<1>3. Goto(r, s) /\ Locals(r, Fresh(th[r])) BY DEF Return
<1> HIDE DEF s
<1>4. QED BY <1>1, <1>2, <1>3, LocalStep

(* The heap after a step *)
LEMMA HeapSame ==
  ASSUME TypeOK, UNCHANGED heap
  PROVE  HeapType' /\ Grows
BY DEF TypeOK, HeapType, Grows, heap

LEMMA HeapWrite ==
  ASSUME TypeOK, NEW o \in 1 .. Len(info), NEW rec \in InfoType(Len(queue)),
         info' = [info EXCEPT ![o] = rec], queue' = queue,
         table' \in [Keys -> 0 .. Len(info)]
  PROVE  HeapType' /\ Grows
<1>1. info' \in Seq(InfoType(Len(queue))) /\ Len(info') = Len(info) BY Sizes DEF TypeOK
<1>2. QED BY <1>1 DEF TypeOK, HeapType, Grows

LEMMA HeapQueue ==
  ASSUME TypeOK, NEW q \in 1 .. Len(queue), NEW rec \in QueueType,
         queue' = [queue EXCEPT ![q] = rec], UNCHANGED <<table, info>>
  PROVE  HeapType' /\ Grows
<1>1. queue' \in Seq(QueueType) /\ Len(queue') = Len(queue) BY DEF TypeOK
<1>2. QED BY <1>1 DEF TypeOK, HeapType, Grows

LEMMA HeapAlloc ==
  ASSUME TypeOK, queue' \in Seq(QueueType), Len(queue) <= Len(queue'),
         NEW rec \in InfoType(Len(queue')), NEW t \in Keys,
         info' = Append(info, rec),
         table' = [table EXCEPT ![t] = Len(info) + 1]
  PROVE  /\ HeapType' /\ Grows
         /\ Len(info') = Len(info) + 1
<1>1. Len(info) \in Nat /\ Len(queue) \in Nat /\ Len(queue') \in Nat BY DEF TypeOK
<1>2. InfoType(Len(queue)) \subseteq InfoType(Len(queue')) BY <1>1, InfoMono
<1>3. info \in Seq(InfoType(Len(queue'))) BY <1>2 DEF TypeOK
<1>4. info' \in Seq(InfoType(Len(queue'))) /\ Len(info') = Len(info) + 1 BY <1>3
<1>5. table' \in [Keys -> 0 .. Len(info')] BY <1>1, <1>4 DEF TypeOK
<1>6. QED BY <1>1, <1>4, <1>5 DEF HeapType, Grows

LEMMA EnvSame ==
  ASSUME TypeOK, UNCHANGED env
  PROVE  EnvType'
BY DEF TypeOK, EnvType, env

(* Type correctness, one lemma per group of actions *)

LEMMA SocketTypes ==
  ASSUME TypeOK, NEW r \in Readers, Read(r) \/ Close(r) \/ BadAccess(r)
  PROVE  TypeOK'
<1>1. CASE Read(r)
 <2> DEFINE b == Head(conn[r])
            s == IF b.kind = "init" THEN "init_lookup" ELSE "data_lookup"
 <2>1. b \in Blocks /\ conn' \in [Readers -> Seq(Blocks)] BY <1>1 DEF Read, TypeOK
 <2>2. HeapType' /\ Grows /\ EnvType' BY <1>1, <2>1, HeapSame DEF Read, TypeOK, EnvType
 <2>3. [th[r] EXCEPT !.block = b] \in LocalsType(Len(info), Len(queue))
   BY <2>1, ThreadType, Sizes, LocalsField
 <2>4. [th[r] EXCEPT !.block = b].block = b BY ThreadType DEF LocalsType
 <2>5. /\ b.kind = "init" => b \in InitBlocks
       /\ b.kind # "init" => b \in DataBlocks
   BY <2>1 DEF Blocks, InitBlocks, DataBlocks
 <2>6. /\ s \in Steps
       /\ s \in InitSteps => b.kind = "init"
       /\ s \in DataSteps => b.kind # "init"
   BY DEF Steps, InitSteps, DataSteps
 <2>7. Goto(r, s) /\ Locals(r, [th[r] EXCEPT !.block = b]) BY <1>1 DEF Read
 <2> HIDE DEF b, s
 <2>8. QED BY <2>2, <2>3, <2>4, <2>5, <2>6, <2>7, LocalStep
<1>2. CASE Close(r)
 <2>1. HeapType' /\ Grows /\ EnvType' BY <1>2, HeapSame DEF Close, TypeOK, EnvType
 <2>2. "closed" \in Steps \ (InitSteps \cup DataSteps) BY DEF Steps, InitSteps, DataSteps
 <2>3. QED BY <1>2, <2>1, <2>2, GotoStep DEF Close
<1>3. CASE BadAccess(r)
 <2>1. HeapType' /\ Grows /\ EnvType' BY <1>3, HeapSame DEF BadAccess, TypeOK, EnvType
 <2>2. QED BY <1>3, <2>1 DEF BadAccess, TypeOK, HeapType, EnvType, heap
<1>4. QED BY <1>1, <1>2, <1>3

LEMMA FilledType ==
  ASSUME TypeOK, NEW r \in Readers, pc[r] \in InitSteps,
         NEW o \in InfoType(Len(queue))
  PROVE  Filled(o, th[r].block) \in InfoType(Len(queue))
BY BlockType DEF Filled, InfoType, Keys

LEMMA CallocType ==
  ASSUME NEW k \in Nat
  PROVE  /\ [Calloc EXCEPT !.next_tag = NO_TAG] \in InfoType(k)
         /\ \A t, n \in Keys, q \in 0 .. k : Dummy(t, n, q) \in InfoType(k)
<1>1. 0 \in Keys /\ NO_TAG \in Keys /\ 0 \in 0 .. MaxSize BY StandardsAssumption DEF Keys, Tags, NO_TAG
<1>2. Calloc \in InfoType(k) BY <1>1 DEF Calloc, InfoType, Null
<1>3. ASSUME NEW t \in Keys, NEW n \in Keys, NEW q \in 0 .. k
      PROVE  Dummy(t, n, q) \in InfoType(k)
 <2> DEFINE d == [Calloc EXCEPT !.tag = t]
            e == [d EXCEPT !.next_tag = n]
 <2>1. d \in InfoType(k) BY <1>2, InfoField
 <2>2. e \in InfoType(k)
  <3> HIDE DEF d
  <3>1. QED BY <2>1, InfoField
 <2>3. [e EXCEPT !.waiting_queue = q] \in InfoType(k)
  <3> HIDE DEF e
  <3>1. QED BY <2>2, InfoField
 <2>4. Dummy(t, n, q) = [e EXCEPT !.waiting_queue = q] BY DEF Dummy
 <2>5. QED BY <2>3, <2>4
<1>4. QED BY <1>1, <1>2, <1>3, InfoField

LEMMA QueueField ==
  ASSUME NEW o \in QueueType
  PROVE  /\ \A v \in Seq(DataBlocks) : [o EXCEPT !.blocks = v] \in QueueType
         /\ \A v \in BOOLEAN : [o EXCEPT !.freed = v] \in QueueType
         /\ o.blocks \in Seq(DataBlocks)
<1> DEFINE S == Seq(DataBlocks)
<1>1. QueueType = [blocks : S, freed : BOOLEAN] BY DEF QueueType
<1> HIDE DEF S
<1>2. /\ \A v \in S : [o EXCEPT !.blocks = v] \in QueueType
      /\ \A v \in BOOLEAN : [o EXCEPT !.freed = v] \in QueueType
      /\ o.blocks \in S
  BY <1>1
<1>3. QED BY <1>2 DEF S

LEMMA OwnerType ==
  ASSUME TypeOK, NEW r \in Readers,
         \E s \in Draining : At(r, s)
  PROVE  Owner(r) \in 1 .. Len(info)
<1>1. Owner(r) \in 0 .. Len(info) BY ThreadType DEF Owner
<1>2. InfoUsed(r) = {Owner(r)} BY DEF At, InfoUsed, Draining
<1>3. Owner(r) # Null BY <1>2 DEF At, Safe
<1>4. QED BY <1>1, <1>3, Sizes DEF Null

LEMMA InitTypes ==
  ASSUME TypeOK, NEW r \in Readers, InitBlockStep(r)
  PROVE  TypeOK'
<1> USE ThreadType, Sizes
<1> DEFINE Plain == Steps \ (InitSteps \cup DataSteps)
<1>0. /\ {"init_adopt", "drain", "drain_test", "drain_take", "drain_free", "drain_clear", "free_repeat", "read"} \subseteq Plain
      /\ "data_lookup" \in Steps \ InitSteps
  BY DEF Steps, Draining, InitSteps, DataSteps
<1>1. CASE InitLookup(r)
 <2> DEFINE o == table[th[r].block.tag]
            s == IF o = Null THEN "init_insert" ELSE "init_valid"
 <2>1. th[r].block \in InitBlocks /\ th[r].block.tag \in Keys
   BY <1>1, BlockType DEF InitLookup, At, TypeOK, InitSteps, Keys
 <2>2. o \in 0 .. Len(info) BY <2>1 DEF HeapType
 <2>3. [th[r] EXCEPT !.new_buf = o] \in LocalsType(Len(info), Len(queue)) BY <2>2, LocalsField
 <2>4. [th[r] EXCEPT !.new_buf = o].block = th[r].block BY DEF LocalsType
 <2>5. HeapType' /\ Grows /\ EnvType' BY <1>1, HeapSame, EnvSame DEF InitLookup
 <2>6. s \in Steps /\ s \notin DataSteps BY DEF Steps, InitSteps, DataSteps
 <2>7. Goto(r, s) /\ Locals(r, [th[r] EXCEPT !.new_buf = o]) BY <1>1 DEF InitLookup
 <2> HIDE DEF o, s
 <2>8. QED BY <2>1, <2>3, <2>4, <2>5, <2>6, <2>7, LocalStep
<1>2. CASE DuplicateExit(r)
 <2>1. HeapType' /\ Grows /\ EnvType' BY <1>2, HeapSame DEF DuplicateExit, TypeOK, EnvType
 <2>2. QED BY <1>2, <2>1 DEF DuplicateExit, TypeOK, HeapType, EnvType, heap
<1>a. CASE InitNotValid(r)
 <2>1. th[r].block \in InitBlocks BY <1>a DEF InitNotValid, At, InitSteps, TypeOK
 <2>2. "init_fill" \in Steps \ DataSteps BY DEF Steps, InitSteps, DataSteps
 <2>3. QED BY <1>a, <2>1, <2>2, HeapSame, EnvSame, GotoStep DEF InitNotValid
<1>3. CASE InitFill(r)
 <2> DEFINE o == th[r].new_buf
            rec == Filled(info[o], th[r].block)
 <2>1. o \in 1 .. Len(info) BY <1>3 DEF InitFill, At, Safe, InfoUsed, Null
 <2>2. rec \in InfoType(Len(queue)) BY <1>3, <2>1, FilledType DEF InitFill, At, InitSteps
 <2>3. info' = [info EXCEPT ![o] = rec] BY <1>3 DEF InitFill
 <2> HIDE DEF rec
 <2>4. HeapType' /\ Grows /\ EnvType' BY <1>3, <2>1, <2>2, <2>3, HeapWrite, EnvSame DEF InitFill, HeapType
 <2>6. QED BY <1>0, <1>3, <2>4, GotoStep DEF InitFill
<1>4. CASE InitInsert(r)
 <2> DEFINE t == th[r].block.tag
            rec == Filled([Calloc EXCEPT !.next_tag = NO_TAG], th[r].block)
 <2>1. t \in Keys BY <1>4, BlockType DEF InitInsert, At, InitSteps, Keys
 <2>2. rec \in InfoType(Len(queue)) BY <1>4, FilledType, CallocType DEF InitInsert, At, InitSteps
 <2>3. /\ info' = Append(info, rec) /\ queue' = queue
       /\ table' = [table EXCEPT ![t] = Len(info) + 1]
   BY <1>4 DEF InitInsert
 <2> HIDE DEF rec
 <2>a. /\ queue' \in Seq(QueueType) /\ Len(queue) <= Len(queue')
       /\ rec \in InfoType(Len(queue'))
   BY <2>2, <2>3 DEF HeapType
 <2>4. HeapType' /\ Grows /\ EnvType' /\ Len(info') = Len(info) + 1
   BY <1>4, <2>1, <2>3, <2>a, HeapAlloc, EnvSame DEF InitInsert
 <2>5. CASE table[t] = Null /\ Return(r) BY <2>4, <2>5, ReturnStep
 <2>6. CASE /\ Locals(r, [th[r] EXCEPT !.new_buf = Len(info) + 1, !.repeat = table[t]])
            /\ Goto(r, "init_adopt")
  <3>1. /\ th[r] \in LocalsType(Len(info'), Len(queue'))
        /\ table[t] \in 0 .. Len(info') /\ Len(info) + 1 \in 0 .. Len(info')
        /\ Len(info') \in Nat /\ Len(queue') \in Nat
    BY <2>1, <2>3, <2>4, LocalsMono DEF HeapType
  <3>2. [th[r] EXCEPT !.new_buf = Len(info) + 1, !.repeat = table[t]]
          \in LocalsType(Len(info'), Len(queue'))
    BY <3>1, LocalsAssign
  <3>4. QED BY <1>0, <2>4, <2>6, <3>2, TypeStep DEF Goto, Locals
 <2>7. QED BY <1>4, <2>5, <2>6 DEF InitInsert
<1>5. CASE InitAdopt(r)
 <2> DEFINE o == th[r].new_buf
            n == info[th[r].repeat].next_tag
            rec == [info[o] EXCEPT !.next_tag = n]
 <2>a. InfoUsed(r) = {o, th[r].repeat} BY <1>5 DEF InitAdopt, At, InfoUsed
 <2>1. o \in 1 .. Len(info) /\ th[r].repeat \in 1 .. Len(info) BY <1>5, <2>a DEF InitAdopt, At, Safe, Null
 <2>2. n \in Keys BY <2>1 DEF InfoType
 <2>3. rec \in InfoType(Len(queue)) BY <2>1, <2>2, InfoField
 <2>4. info' = [info EXCEPT ![o] = rec] BY <1>5 DEF InitAdopt
 <2> HIDE DEF rec
 <2>5. HeapType' /\ Grows /\ EnvType' BY <1>5, <2>1, <2>3, <2>4, HeapWrite, EnvSame DEF InitAdopt, HeapType
 <2>7. QED BY <1>0, <1>5, <2>5, GotoStep DEF InitAdopt
<1>6. ASSUME DrainDone(r), HeapType', Grows, EnvType'
      PROVE  TypeOK'
 <2>1. CASE th[r].repeat # Null
  <3>2. QED BY <1>0, <1>6, <2>1, GotoStep DEF DrainDone
 <2>2. CASE th[r].repeat = Null
  <3>2. [Fresh(th[r]) EXCEPT !.new_buf = Null] \in LocalsType(Len(info), Len(queue)) BY LocalsField
  <3>3. QED BY <1>0, <1>6, <2>2, <3>2, LocalStep DEF DrainDone
 <2>3. QED BY <2>1, <2>2
<1>7. CASE DrainNothing(r) BY <1>6, <1>7, HeapSame, EnvSame DEF DrainNothing
<1>8. CASE DrainBlock(r)
 <2> DEFINE q == info[Owner(r)].waiting_queue
            b == Head(queue[q].blocks)
            rec == [queue[q] EXCEPT !.blocks = Tail(queue[q].blocks)]
            l == [th[r] EXCEPT !.block = b, !.old_block = b, !.set = TRUE]
 <2>1. Owner(r) \in 1 .. Len(info) BY <1>8, OwnerType DEF DrainBlock, Draining
 <2>2. q \in 1 .. Len(queue) BY <1>8, <2>1 DEF DrainBlock, At, Safe, QueueUsed, InfoType, Null
 <2>3. queue[q] \in QueueType /\ queue[q].blocks # <<>> BY <1>8, <2>2 DEF DrainBlock
 <2>b. queue[q].blocks \in Seq(DataBlocks) BY <2>3, QueueField
 <2>c. b \in DataBlocks /\ Tail(queue[q].blocks) \in Seq(DataBlocks) BY <2>3, <2>b
 <2>4. b \in DataBlocks /\ rec \in QueueType BY <2>3, <2>c, QueueField
 <2>5. queue' = [queue EXCEPT ![q] = rec] BY <1>8 DEF DrainBlock
 <2>6. Goto(r, "data_lookup") /\ Locals(r, l) BY <1>8 DEF DrainBlock
 <2>e. UNCHANGED <<table, info>> BY <1>8 DEF DrainBlock
 <2>9. l.block = b BY DEF LocalsType
 <2> HIDE DEF q, b, rec
 <2>7. HeapType' /\ Grows /\ EnvType' BY <1>8, <2>2, <2>4, <2>5, HeapQueue, EnvSame DEF DrainBlock
 <2>8. l \in LocalsType(Len(info), Len(queue)) BY <2>4, LocalsAssign
 <2> HIDE DEF l
 <2>11. QED BY <1>0, <2>4, <2>6, <2>7, <2>8, <2>9, LocalStep
<1>b. CASE DrainLoop(r)
 <2>1. [th[r] EXCEPT !.set = FALSE] \in LocalsType(Len(info), Len(queue)) BY LocalsField
 <2>3. QED BY <1>0, <1>b, <2>1, HeapSame, EnvSame, LocalStep DEF DrainLoop
<1>c. CASE DrainMore(r)
 <2>2. QED BY <1>0, <1>c, HeapSame, EnvSame, GotoStep DEF DrainMore
<1>d. CASE DrainStale(r)
 <2>1. HeapType' /\ Grows /\ EnvType' BY <1>d, HeapSame DEF DrainStale, TypeOK, EnvType
 <2>2. CASE fault' = "bad_access" /\ UNCHANGED <<pc, th>>
   BY <1>d, <2>1, <2>2 DEF DrainStale, TypeOK, HeapType, EnvType, heap
 <2>3. CASE th[r].old_block # NoBlock /\ Goto(r, "data_lookup")
            /\ Locals(r, [th[r] EXCEPT !.block = th[r].old_block])
  <3>1. PICK b \in DataBlocks : b = th[r].old_block BY <2>3
  <3>2. [th[r] EXCEPT !.block = b] \in LocalsType(Len(info), Len(queue)) BY <3>1, LocalsField DEF Blocks
  <3>3. [th[r] EXCEPT !.block = b].block = b BY DEF LocalsType
  <3>5. QED BY <1>0, <2>1, <2>3, <3>1, <3>2, <3>3, LocalStep
 <2>4. QED BY <1>d, <2>2, <2>3 DEF DrainStale
<1>9. CASE DrainEmpty(r)
 <2>2. QED BY <1>0, <1>9, HeapSame, EnvSame, GotoStep DEF DrainEmpty
<1>10. CASE DrainFree(r)
 <2> DEFINE q == info[Owner(r)].waiting_queue
            rec == [queue[q] EXCEPT !.freed = TRUE]
 <2>1. Owner(r) \in 1 .. Len(info) BY <1>10, OwnerType DEF DrainFree, Draining
 <2>2. q \in 1 .. Len(queue) BY <1>10, <2>1 DEF DrainFree, At, Safe, QueueUsed, InfoType, Null
 <2>3. rec \in QueueType BY <2>2 DEF QueueType
 <2>4. queue' = [queue EXCEPT ![q] = rec] BY <1>10 DEF DrainFree
 <2> HIDE DEF q, rec
 <2>5. HeapType' /\ Grows /\ EnvType' BY <1>10, <2>2, <2>3, <2>4, HeapQueue, EnvSame DEF DrainFree
 <2>7. QED BY <1>0, <1>10, <2>5, GotoStep DEF DrainFree
<1>11. CASE DrainClear(r)
 <2> DEFINE o == Owner(r)
            rec == [info[o] EXCEPT !.waiting_queue = Null]
 <2>1. o \in 1 .. Len(info) BY <1>11, OwnerType DEF DrainClear, Draining
 <2> HIDE DEF o
 <2>2. rec \in InfoType(Len(queue))
  <3>1. Null \in 0 .. Len(queue) /\ info[o] \in InfoType(Len(queue)) BY <2>1 DEF Null
  <3>2. QED BY <3>1, InfoField
 <2>3. info' = [info EXCEPT ![o] = rec] BY <1>11 DEF DrainClear, o
 <2> HIDE DEF o, rec
 <2>4. HeapType' /\ Grows /\ EnvType' BY <1>11, <2>1, <2>2, <2>3, HeapWrite, EnvSame DEF DrainClear, HeapType
 <2>5. QED BY <1>6, <1>11, <2>4 DEF DrainClear
<1>12. CASE FreeRepeat(r)
 <2> DEFINE o == th[r].repeat
            rec == [info[o] EXCEPT !.freed = TRUE]
 <2>1. o \in 1 .. Len(info) BY <1>12 DEF FreeRepeat, At, Safe, InfoUsed, Null
 <2>2. rec \in InfoType(Len(queue)) BY <2>1, InfoField
 <2>3. info' = [info EXCEPT ![o] = rec] BY <1>12 DEF FreeRepeat
 <2> HIDE DEF o, rec
 <2>4. HeapType' /\ Grows /\ EnvType' BY <1>12, <2>1, <2>2, <2>3, HeapWrite, EnvSame DEF FreeRepeat, HeapType
 <2>6. [Fresh(th[r]) EXCEPT !.new_buf = Null, !.repeat = Null]
         \in LocalsType(Len(info), Len(queue))
   BY LocalsField
 <2>7. QED BY <1>0, <1>12, <2>4, <2>6, LocalStep DEF FreeRepeat
<1>13. QED BY <1>1, <1>2, <1>3, <1>4, <1>a, <1>b, <1>c, <1>d, <1>5, <1>7, <1>8, <1>9, <1>10, <1>11, <1>12
  DEF InitBlockStep

(* free_queue of the queue a data block's thread allocated for itself *)
LEMMA LocalQueueType ==
  ASSUME TypeOK, NEW r \in Readers, NEW qs \in Seq(QueueType), Len(qs) = Len(queue)
  PROVE  FreeLocalQueue(r, qs) \in Seq(QueueType) /\ Len(FreeLocalQueue(r, qs)) = Len(queue)
<1> USE ThreadType, Sizes
<1> DEFINE w == th[r].waiting_queue
           rec == [qs[w] EXCEPT !.freed = TRUE]
<1>1. CASE w = Null BY <1>1 DEF FreeLocalQueue
<1>2. CASE w # Null
 <2>1. w \in 1 .. Len(qs) BY <1>2 DEF Null
 <2>2. qs[w] \in QueueType BY <2>1
 <2>3. rec \in QueueType BY <2>2, QueueField
 <2>4. FreeLocalQueue(r, qs) = [qs EXCEPT ![w] = rec] BY <1>2 DEF FreeLocalQueue
 <2> HIDE DEF rec, w
 <2>5. QED BY <2>1, <2>3, <2>4
<1>3. QED BY <1>1, <1>2

LEMMA DataTypes ==
  ASSUME TypeOK, NEW r \in Readers, DataBlockStep(r)
  PROVE  TypeOK'
<1> USE ThreadType, Sizes
<1>0. {"data_insert", "check_valid", "put_back", "copy", "park", "attach", "enqueue", "count", "complete"}
        \subseteq Steps \ InitSteps
  BY DEF Steps, InitSteps, DataSteps
<1>1. pc[r] \in DataSteps => th[r].block \in DataBlocks BY DEF TypeOK
<1>2. CASE DataLookup(r)
 <2> DEFINE o == table[th[r].block.tag]
            l == [th[r] EXCEPT !.kv[Frame(r)] = o, !.buffer = o, !.found = TRUE]
 <2>1. HeapType' /\ Grows /\ EnvType' BY <1>2, HeapSame, EnvSame DEF DataLookup
 <2>2. th[r].block \in DataBlocks /\ o \in 0 .. Len(info)
   BY <1>1, <1>2, BlockType DEF DataLookup, At, DataSteps, Keys, HeapType
 <2>3. l \in LocalsType(Len(info), Len(queue))
  <3> HIDE DEF o
  <3>1. Frame(r) \in {"outer", "nested"} BY DEF Frame
  <3>2. QED BY <2>2, <3>1, LocalsAssign
 <2>4. l.block = th[r].block BY DEF LocalsType
 <2>6. \/ Goto(r, "check_valid") /\ Locals(r, l)
       \/ Goto(r, "data_insert") /\ th' = th
   BY <1>2 DEF DataLookup
 <2> HIDE DEF l
 <2>7. QED BY <1>0, <2>1, <2>2, <2>3, <2>4, <2>6, LocalStep, GotoStep
<1>3. CASE DataInsert(r)
 <2> DEFINE t == th[r].block.tag
            new == [blocks |-> <<th[r].block>>, freed |-> FALSE]
            q == Len(queue) + 1
            rec == Dummy(t, NO_TAG, q)
            l == [th[r] EXCEPT !.waiting_queue = q, !.dummy = Len(info) + 1,
                               !.buffer = table[t]]
 <2>1. th[r].block \in DataBlocks /\ t \in Keys BY <1>1, <1>3, BlockType DEF DataInsert, At, DataSteps, Keys
 <2>2. new \in QueueType BY <2>1 DEF QueueType
 <2>3. /\ queue' = Append(queue, new) /\ info' = Append(info, rec)
       /\ table' = [table EXCEPT ![t] = Len(info) + 1] /\ UNCHANGED env
   BY <1>3 DEF DataInsert
 <2> HIDE DEF new
 <2>4. queue' \in Seq(QueueType) /\ Len(queue') = q BY <2>2, <2>3 DEF HeapType
 <2>a. /\ NO_TAG \in Keys /\ Len(queue') \in Nat /\ q \in 0 .. Len(queue')
       /\ Len(queue) <= Len(queue')
   BY <2>4 DEF Keys
 <2>5. rec \in InfoType(Len(queue'))
  <3> HIDE DEF q, t
  <3>1. QED BY <2>1, <2>a, CallocType
 <2> HIDE DEF rec
 <2>6. HeapType' /\ Grows /\ EnvType' /\ Len(info') = Len(info) + 1
   BY <2>1, <2>3, <2>4, <2>5, <2>a, HeapAlloc, EnvSame
 <2>7. CASE Return(r) BY <2>6, <2>7, ReturnStep
 <2>8. CASE Locals(r, l) /\ Goto(r, "put_back")
  <3>1. /\ th[r] \in LocalsType(Len(info'), Len(queue'))
        /\ table[t] \in 0 .. Len(info') /\ Len(info) + 1 \in 0 .. Len(info')
        /\ q \in 0 .. Len(queue')
        /\ Len(info') \in Nat /\ Len(queue') \in Nat
    BY <2>1, <2>4, <2>6, LocalsMono DEF HeapType
  <3>2. l \in LocalsType(Len(info'), Len(queue')) BY <3>1, LocalsAssign
  <3>3. l.block = th[r].block BY DEF LocalsType
  <3> HIDE DEF l
  <3>5. QED BY <1>0, <2>1, <2>6, <2>8, <3>2, <3>3, TypeStep DEF Goto, Locals
 <2>9. QED BY <1>3, <2>7, <2>8 DEF DataInsert
<1>4. CASE PutBack(r)
 <2> DEFINE o == th[r].dummy
            rec == [info[o] EXCEPT !.freed = TRUE]
            l == [th[r] EXCEPT !.dummy = Null]
 <2>1. o \in 1 .. Len(info) BY <1>4 DEF PutBack, At, Safe, InfoUsed, Null
 <2>2. rec \in InfoType(Len(queue)) BY <2>1, InfoField
 <2>3. info' = [info EXCEPT ![o] = rec] /\ queue' = queue /\ UNCHANGED env BY <1>4 DEF PutBack
 <2>4. table' \in [Keys -> 0 .. Len(info)] BY <1>4 DEF PutBack, HeapType
 <2>5. Goto(r, "check_valid") /\ Locals(r, l) /\ th[r].block \in DataBlocks
   BY <1>1, <1>4 DEF PutBack, At, DataSteps
 <2> HIDE DEF o, rec
 <2>6. HeapType' /\ Grows /\ EnvType' BY <2>1, <2>2, <2>3, <2>4, HeapWrite, EnvSame
 <2>7. Null \in 0 .. Len(info) /\ l.block = th[r].block BY DEF LocalsType, Null
 <2>8. l \in LocalsType(Len(info), Len(queue)) BY <2>7, LocalsField
 <2> HIDE DEF l
 <2>10. QED BY <1>0, <2>5, <2>6, <2>7, <2>8, LocalStep
<1>5. CASE CheckValid(r)
 <2> DEFINE l == [th[r] EXCEPT !.waiting_queue = Null]
 <2>1. th[r].block \in DataBlocks BY <1>1, <1>5 DEF CheckValid, At, DataSteps
 <2>2. /\ Null \in 0 .. Len(queue) /\ l.block = th[r].block BY DEF LocalsType, Null
 <2>3. l \in LocalsType(Len(info), Len(queue)) BY <2>2, LocalsField
 <2>4. queue' \in Seq(QueueType) /\ Len(queue') = Len(queue) /\ UNCHANGED <<table, info>>
   BY <1>5, LocalQueueType DEF CheckValid, HeapType
 <2>5. HeapType' /\ Grows /\ EnvType' BY <1>5, <2>4, EnvSame DEF CheckValid, HeapType, Grows
 <2>7. \/ Goto(r, "copy") /\ Locals(r, l)
       \/ Goto(r, "park") /\ th' = th
   BY <1>5 DEF CheckValid
 <2> HIDE DEF l
 <2>8. QED BY <1>0, <2>1, <2>2, <2>3, <2>5, <2>7, LocalStep, GotoStep
<1>6. CASE Park(r)
 <2>1. th[r].block \in DataBlocks BY <1>1, <1>6 DEF Park, At, DataSteps
 <2>2. HeapType' /\ Grows /\ EnvType' /\ th' = th BY <1>6, HeapSame, EnvSame DEF Park
 <2>3. \E s \in {"attach", "enqueue"} : Goto(r, s) BY <1>6 DEF Park
 <2>5. QED BY <1>0, <2>1, <2>2, <2>3, GotoStep
<1>7. CASE Attach(r)
 <2> DEFINE o == th[r].buffer
 <2>1. o \in 1 .. Len(info) /\ th[r].block \in DataBlocks /\ UNCHANGED <<table, env>>
   BY <1>1, <1>7 DEF Attach, At, Safe, InfoUsed, DataSteps, Null
 <2>2. CASE th[r].waiting_queue # Null
  <3> DEFINE rec == [info[o] EXCEPT !.waiting_queue = th[r].waiting_queue]
  <3>1. rec \in InfoType(Len(queue)) BY <2>1, InfoField
  <3>2. info' = [info EXCEPT ![o] = rec] /\ queue' = queue /\ Return(r) BY <1>7, <2>2 DEF Attach
  <3> HIDE DEF rec, o
  <3>3. HeapType' /\ Grows /\ EnvType' BY <2>1, <3>1, <3>2, HeapWrite, EnvSame DEF HeapType
  <3>4. QED BY <3>2, <3>3, ReturnStep
 <2>3. CASE th[r].waiting_queue = Null
  <3> DEFINE new == [blocks |-> <<>>, freed |-> FALSE]
             q == Len(queue) + 1
             rec == [info[o] EXCEPT !.waiting_queue = q]
  <3>1. new \in QueueType BY DEF QueueType
  <3>2. /\ queue' = Append(queue, new) /\ info' = [info EXCEPT ![o] = rec]
        /\ Goto(r, "enqueue") /\ th' = th
    BY <1>7, <2>3 DEF Attach
  <3> HIDE DEF new
  <3>3. queue' \in Seq(QueueType) /\ Len(queue') = q BY <3>1, <3>2 DEF HeapType
  <3>4. info[o] \in InfoType(q)
   <4>1. info[o] \in InfoType(Len(queue)) BY <2>1
   <4>2. Len(queue) \in Nat /\ q \in Nat /\ Len(queue) <= q BY Sizes
   <4> HIDE DEF o, q
   <4>3. QED BY <4>1, <4>2, InfoMono
  <3>5. rec \in InfoType(q)
   <4> HIDE DEF o
   <4>1. q \in Nat /\ q \in 0 .. q OBVIOUS
   <4> HIDE DEF q
   <4>2. QED BY <3>4, <4>1, InfoField
  <3>6. info \in Seq(InfoType(q)) BY InfoMono DEF HeapType
  <3> HIDE DEF rec, o
  <3>7. info' \in Seq(InfoType(q)) /\ Len(info') = Len(info) BY <2>1, <3>2, <3>5, <3>6
  <3>8. HeapType' /\ Grows /\ EnvType' BY <2>1, <3>3, <3>7, EnvSame DEF HeapType, Grows
  <3>10. QED BY <1>0, <2>1, <3>2, <3>8, GotoStep
 <2>4. QED BY <2>2, <2>3
<1>8. CASE Enqueue(r)
 <2> DEFINE q == info[th[r].buffer].waiting_queue
            v == Append(queue[q].blocks, th[r].block)
            rec == [queue[q] EXCEPT !.blocks = v]
            qs == [queue EXCEPT ![q] = rec]
 <2>a. At(r, "enqueue") BY <1>8 DEF Enqueue
 <2>1. th[r].buffer \in 1 .. Len(info) /\ th[r].block \in DataBlocks
   BY <1>1, <2>a DEF At, Safe, InfoUsed, DataSteps, Null
 <2>2. q \in 0 .. Len(queue) BY <2>1 DEF InfoType
 <2>3. q # Null BY <1>8 DEF Enqueue, At, Safe, QueueUsed
 <2>4. q \in 1 .. Len(queue) BY <2>2, <2>3 DEF Null
 <2>5. v \in Seq(DataBlocks) BY <2>1, <2>4, QueueField
 <2>6. rec \in QueueType
  <3> HIDE DEF v, q
  <3>1. QED BY <2>4, <2>5, QueueField
 <2>7. queue' = FreeLocalQueue(r, qs) /\ Return(r) /\ UNCHANGED <<table, info, env>> BY <1>8 DEF Enqueue
 <2> HIDE DEF rec, q
 <2>8. qs \in Seq(QueueType) /\ Len(qs) = Len(queue) BY <2>4, <2>6 DEF HeapType
 <2> HIDE DEF qs
 <2>9. queue' \in Seq(QueueType) /\ Len(queue') = Len(queue) BY <2>7, <2>8, LocalQueueType
 <2>10. HeapType' /\ Grows /\ EnvType' BY <2>7, <2>9, EnvSame DEF HeapType, Grows
 <2>11. QED BY <2>7, <2>10, ReturnStep
<1>9. CASE Copy(r)
 <2> DEFINE o == th[r].buffer
            v == info[o].written \cup {th[r].block.seq_number}
            rec == [info[o] EXCEPT !.written = v]
 <2>1. o \in 1 .. Len(info) /\ th[r].block \in DataBlocks
   BY <1>1, <1>9 DEF Copy, At, Safe, InfoUsed, DataSteps, Null
 <2>2. v \in SUBSET (0 .. MaxSize - 1) BY <2>1 DEF InfoType, DataBlocks
 <2>3. rec \in InfoType(Len(queue))
  <3> HIDE DEF v, o
  <3>1. QED BY <2>1, <2>2, InfoField
 <2>4. /\ info' = [info EXCEPT ![o] = rec] /\ UNCHANGED <<table, queue, env>>
       /\ Goto(r, "count") /\ th' = th
   BY <1>9 DEF Copy
 <2> HIDE DEF o, rec
 <2>5. HeapType' /\ Grows /\ EnvType' BY <2>1, <2>3, <2>4, HeapWrite, EnvSame DEF HeapType
 <2>7. QED BY <1>0, <2>1, <2>4, <2>5, GotoStep
<1>10. CASE Count(r)
 <2> DEFINE o == th[r].buffer
            n == info[o].n_written + 1
            rec == [info[o] EXCEPT !.n_written = n]
 <2>1. o \in 1 .. Len(info) /\ th[r].block \in DataBlocks
   BY <1>1, <1>10 DEF Count, At, Safe, InfoUsed, DataSteps, Null
 <2>2. n \in Nat BY <2>1 DEF InfoType
 <2>3. rec \in InfoType(Len(queue))
  <3> HIDE DEF n, o
  <3>1. QED BY <2>1, <2>2, InfoField
 <2>4. info' = [info EXCEPT ![o] = rec] /\ UNCHANGED <<table, queue, env>> BY <1>10 DEF Count
 <2>a. Return(r) \/ (Goto(r, "complete") /\ th' = th) BY <1>10 DEF Count
 <2> HIDE DEF o, rec
 <2>5. HeapType' /\ Grows /\ EnvType' BY <2>1, <2>3, <2>4, HeapWrite, EnvSame DEF HeapType
 <2>7. QED BY <1>0, <2>1, <2>5, <2>a, GotoStep, ReturnStep
<1>11. CASE Complete(r)
 <2> DEFINE o == th[r].buffer
            rec == [info[o] EXCEPT !.completed = TRUE]
 <2>1. o \in 1 .. Len(info) BY <1>11 DEF Complete, At, Safe, InfoUsed, Null
 <2>2. rec \in InfoType(Len(queue))
  <3> HIDE DEF o
  <3>1. QED BY <2>1, InfoField
 <2>3. /\ info' = [info EXCEPT ![o] = rec] /\ UNCHANGED <<table, queue, conn, delivered, fault>>
       /\ ub' = (ub \/ ~th[r].found) /\ Goto(r, "prev_lookup")
   BY <1>11 DEF Complete
 <2> HIDE DEF o, rec
 <2>4. HeapType' /\ Grows /\ EnvType' BY <2>1, <2>2, <2>3, HeapWrite DEF HeapType, EnvType
 <2>5. \E d \in 0 .. Len(info) : Locals(r, [th[r] EXCEPT !.done = d])
  <3>1. th[r].kv[Frame(r)] \in 0 .. Len(info) /\ Null \in 0 .. Len(info) BY DEF Frame, Null
  <3>2. QED BY <1>11, <3>1 DEF Complete
 <2>6. \A d \in 0 .. Len(info) :
         [th[r] EXCEPT !.done = d] \in LocalsType(Len(info), Len(queue))
   BY LocalsField
 <2>7. "prev_lookup" \in Steps \ (InitSteps \cup DataSteps) BY DEF Steps, InitSteps, DataSteps
 <2>8. QED BY <2>3, <2>4, <2>5, <2>6, <2>7, LocalStep
<1>12. QED BY <1>2, <1>3, <1>4, <1>5, <1>6, <1>7, <1>8, <1>9, <1>10, <1>11 DEF DataBlockStep

(* free_prev and the "done" label take an entry out of the table. *)
LEMMA TableClear ==
  ASSUME HeapType, NEW k
  PROVE  [table EXCEPT ![k] = Null] \in [Keys -> 0 .. Len(info)]
<1>1. Null \in 0 .. Len(info) BY DEF HeapType, Null
<1>2. table \in [Keys -> 0 .. Len(info)] BY DEF HeapType
<1> DEFINE S == 0 .. Len(info)
<1> HIDE DEF S
<1>3. QED BY <1>1, <1>2 DEF S

LEMMA FinishedTypes ==
  ASSUME TypeOK, NEW r \in Readers, FinishedStep(r)
  PROVE  TypeOK'
<1> USE ThreadType, Sizes
<1> DEFINE Plain == Steps \ (InitSteps \cup DataSteps)
<1>1. {"prev_lookup", "prev_insert", "prev_put_back", "prev_sent", "set_next",
       "free_prev", "deliver", "in_handler", "next_lookup", "next_completed",
       "remove", "zombie"} \subseteq Plain
  BY DEF Steps, InitSteps, DataSteps
(* thread r moves on to s with locals l, the heap as described *)
<1>2. ASSUME NEW s \in Plain, Goto(r, s), HeapType', Grows, EnvType',
             NEW l \in LocalsType(Len(info), Len(queue)), Locals(r, l)
      PROVE  TypeOK'
  BY <1>2, LocalStep
<1>3. ASSUME NEW s \in Plain, Goto(r, s), HeapType', Grows, EnvType', th' = th
      PROVE  TypeOK'
  BY <1>3, GotoStep
<1> HIDE DEF Plain
<1>4. CASE PrevLookup(r)
 <2> DEFINE p == info[th[r].done].prev_tag
 <2>1. HeapType' /\ Grows /\ EnvType' BY <1>4, HeapSame, EnvSame DEF PrevLookup
 <2>2. th[r].done \in 1 .. Len(info) BY <1>4 DEF PrevLookup, At, Safe, InfoUsed, Null
 <2>3. table[p] \in 0 .. Len(info) BY <2>2 DEF HeapType, InfoType
 <2>4. [th[r] EXCEPT !.prev = table[p]] \in LocalsType(Len(info), Len(queue))
  <3> HIDE DEF p
  <3>1. QED BY <2>3, LocalsField
 <2>5. \/ Goto(r, "deliver") /\ th' = th
       \/ Goto(r, "prev_insert") /\ th' = th
       \/ Goto(r, "prev_sent") /\ Locals(r, [th[r] EXCEPT !.prev = table[p]])
   BY <1>4 DEF PrevLookup
 <2> HIDE DEF p
 <2>6. QED BY <1>1, <1>2, <1>3, <2>1, <2>4, <2>5
<1>5. CASE PrevInsert(r)
 <2> DEFINE o == th[r].done
            t == info[o].prev_tag
            rec == Dummy(t, info[o].tag, Null)
            d == Len(info) + 1
 <2>1. o \in 1 .. Len(info)
  <3>1. At(r, "prev_insert") BY <1>5 DEF PrevInsert
  <3>2. QED BY <3>1 DEF At, Safe, InfoUsed, Null
 <2>2. t \in Keys /\ info[o].tag \in Keys /\ Null \in 0 .. Len(queue) BY <2>1 DEF InfoType, Null
 <2>3. /\ info' = Append(info, rec) /\ table' = [table EXCEPT ![t] = d]
       /\ UNCHANGED <<queue, env>>
   BY <1>5 DEF PrevInsert
 <2>4. rec \in InfoType(Len(queue))
  <3> HIDE DEF t, o
  <3>1. QED BY <2>2, CallocType
 <2> HIDE DEF rec
 <2>5. queue' \in Seq(QueueType) /\ Len(queue) <= Len(queue') /\ rec \in InfoType(Len(queue'))
   BY <2>3, <2>4 DEF HeapType
 <2>6. HeapType' /\ Grows /\ EnvType' /\ Len(info') = d BY <2>2, <2>3, <2>5, HeapAlloc, EnvSame
 <2>7. /\ th[r] \in LocalsType(Len(info'), Len(queue'))
       /\ table[t] \in 0 .. Len(info') /\ d \in 0 .. Len(info')
       /\ Len(info') \in Nat /\ Len(queue') \in Nat
   BY <2>2, <2>3, <2>6, LocalsMono DEF HeapType
 <2>8. \/ Goto(r, "prev_sent") /\ Locals(r, [th[r] EXCEPT !.prev = d])
       \/ Goto(r, "prev_put_back")
            /\ Locals(r, [th[r] EXCEPT !.prev = table[t], !.dummy = d])
   BY <1>5 DEF PrevInsert
 <2> HIDE DEF t, d, o
 <2>9. /\ [th[r] EXCEPT !.prev = d] \in LocalsType(Len(info'), Len(queue'))
       /\ [th[r] EXCEPT !.prev = table[t], !.dummy = d] \in LocalsType(Len(info'), Len(queue'))
   BY <2>7, LocalsField, LocalsAssign
 <2>10. {"prev_sent", "prev_put_back"} \subseteq Steps \ (InitSteps \cup DataSteps)
   BY DEF Steps, InitSteps, DataSteps
 <2>11. QED BY <2>6, <2>8, <2>9, <2>10, TypeStep DEF Goto, Locals
<1>6. CASE PrevPutBack(r)
 <2> DEFINE o == th[r].dummy
            rec == [info[o] EXCEPT !.freed = TRUE]
 <2>1. o \in 1 .. Len(info) BY <1>6 DEF PrevPutBack, At, Safe, InfoUsed, Null
 <2>2. rec \in InfoType(Len(queue)) BY <2>1, InfoField
 <2>3. /\ info' = [info EXCEPT ![o] = rec] /\ UNCHANGED <<queue, env>>
       /\ Goto(r, "prev_sent") /\ Locals(r, [th[r] EXCEPT !.dummy = Null])
   BY <1>6 DEF PrevPutBack
 <2>4. table' \in [Keys -> 0 .. Len(info)] BY <1>6 DEF PrevPutBack, HeapType
 <2> HIDE DEF o, rec
 <2>5. HeapType' /\ Grows /\ EnvType' BY <2>1, <2>2, <2>3, <2>4, HeapWrite, EnvSame
 <2>6. Null \in 0 .. Len(info) BY DEF Null
 <2>7. [th[r] EXCEPT !.dummy = Null] \in LocalsType(Len(info), Len(queue)) BY <2>6, LocalsField
 <2>8. QED BY <1>1, <1>2, <2>3, <2>5, <2>7
<1>7. CASE PrevSent(r)
 <2>1. HeapType' /\ Grows /\ EnvType' /\ th' = th BY <1>7, HeapSame, EnvSame DEF PrevSent
 <2>2. Goto(r, "free_prev") \/ Goto(r, "set_next") BY <1>7 DEF PrevSent
 <2>3. QED BY <1>1, <1>3, <2>1, <2>2
<1>8. CASE SetNext(r)
 <2> DEFINE o == th[r].prev
            n == info[th[r].done].tag
            rec == [info[o] EXCEPT !.next_tag = n]
 <2>a. InfoUsed(r) = {o, th[r].done} BY <1>8 DEF SetNext, At, InfoUsed
 <2>1. o \in 1 .. Len(info) /\ th[r].done \in 1 .. Len(info) BY <1>8, <2>a DEF SetNext, At, Safe, Null
 <2>2. n \in Keys BY <2>1 DEF InfoType
 <2>3. rec \in InfoType(Len(queue))
  <3> HIDE DEF n, o
  <3>1. QED BY <2>1, <2>2, InfoField
 <2>4. info' = [info EXCEPT ![o] = rec] /\ UNCHANGED <<table, queue, env>> /\ Return(r) BY <1>8 DEF SetNext
 <2> HIDE DEF o, rec
 <2>5. HeapType' /\ Grows /\ EnvType' BY <2>1, <2>3, <2>4, HeapWrite, EnvSame DEF HeapType
 <2>6. QED BY <2>4, <2>5, ReturnStep
<1>9. CASE FreePrev(r)
 <2> DEFINE o == th[r].prev
            rec == [info[o] EXCEPT !.freed = TRUE]
 <2>a. InfoUsed(r) = {o, th[r].done} BY <1>9 DEF FreePrev, At, InfoUsed
 <2>1. o \in 1 .. Len(info) BY <1>9, <2>a DEF FreePrev, At, Safe, Null
 <2>2. rec \in InfoType(Len(queue)) BY <2>1, InfoField
 <2>3. /\ info' = [info EXCEPT ![o] = rec] /\ UNCHANGED <<queue, env>>
       /\ Goto(r, "deliver") /\ th' = th
   BY <1>9 DEF FreePrev
 <2>4. table' \in [Keys -> 0 .. Len(info)] BY <1>9, TableClear DEF FreePrev
 <2> HIDE DEF o, rec
 <2>5. HeapType' /\ Grows /\ EnvType' BY <2>1, <2>2, <2>3, <2>4, HeapWrite, EnvSame
 <2>6. QED BY <1>1, <1>3, <2>3, <2>5
<1>10. CASE CallHandler(r)
 <2>1. HeapType' /\ Grows /\ EnvType' /\ th' = th /\ Goto(r, "in_handler")
   BY <1>10, HeapSame, EnvSame DEF CallHandler
 <2>2. QED BY <1>1, <1>3, <2>1
<1>11. CASE HandlerReturns(r)
 <2> DEFINE o == th[r].done
            b == IF info[o].buffer = "null" THEN info[o].buffer ELSE "freed"
            rec == [info[o] EXCEPT !.buffer = b]
            d == [tag |-> info[o].tag, blocks |-> info[o].written]
 <2>1. o \in 1 .. Len(info) BY <1>11 DEF HandlerReturns, At, Safe, InfoUsed, Null
 <2>2. b \in {"null", "live", "freed"} /\ d \in DeliveredType BY <2>1 DEF InfoType, DeliveredType
 <2>3. rec \in InfoType(Len(queue))
  <3> HIDE DEF b, o
  <3>1. QED BY <2>1, <2>2, InfoField
 <2>4. /\ info' = [info EXCEPT ![o] = rec]
       /\ delivered' = Append(delivered, d)
       /\ UNCHANGED <<table, queue, conn, ub, fault>>
       /\ Goto(r, "next_lookup") /\ th' = th
   BY <1>11 DEF HandlerReturns
 <2> HIDE DEF o, rec, d
 <2>5. HeapType' /\ Grows BY <2>1, <2>3, <2>4, HeapWrite DEF HeapType
 <2>6. EnvType' BY <2>2, <2>4 DEF EnvType
 <2>7. QED BY <1>1, <1>3, <2>4, <2>5, <2>6
<1>12. CASE NextLookup(r)
 <2> DEFINE o == info[th[r].done]
            n == IF o.last_block THEN Null ELSE table[o.next_tag]
 <2>1. HeapType' /\ Grows /\ EnvType' BY <1>12, HeapSame, EnvSame DEF NextLookup
 <2>2. th[r].done \in 1 .. Len(info)
  <3>1. At(r, "next_lookup") BY <1>12 DEF NextLookup
  <3>2. QED BY <3>1 DEF At, Safe, InfoUsed, Null
 <2>3. n \in 0 .. Len(info)
  <3>1. o.next_tag \in Keys BY <2>2 DEF HeapType, InfoType
  <3> HIDE DEF o
  <3>2. table[o.next_tag] \in 0 .. Len(info) /\ Null \in 0 .. Len(info) BY <3>1 DEF HeapType, Null
  <3>3. QED BY <3>2
 <2>4. \/ Goto(r, "zombie") /\ th' = th
       \/ Goto(r, "next_completed") /\ Locals(r, [th[r] EXCEPT !.next = n])
   BY <1>12 DEF NextLookup
 <2> HIDE DEF n
 <2>5. [th[r] EXCEPT !.next = n] \in LocalsType(Len(info), Len(queue)) BY <2>3, LocalsField
 <2>6. QED BY <1>1, <1>2, <1>3, <2>1, <2>4, <2>5
<1>13. CASE NextCompleted(r)
 <2> DEFINE c == Append(th[r].calls, th[r].done)
            l == [th[r] EXCEPT !.calls = c, !.done = th[r].next, !.next = Null]
 <2>1. HeapType' /\ Grows /\ EnvType' BY <1>13, HeapSame, EnvSame DEF NextCompleted
 <2>2. c \in Seq(0 .. Len(info)) /\ Null \in 0 .. Len(info) BY DEF Null
 <2>3. l \in LocalsType(Len(info), Len(queue))
  <3> HIDE DEF c
  <3>1. QED BY <2>2, LocalsAssign
 <2>4. \/ Goto(r, "deliver") /\ Locals(r, l)
       \/ Goto(r, "zombie") /\ th' = th
   BY <1>13 DEF NextCompleted
 <2> HIDE DEF l
 <2>5. QED BY <1>1, <1>2, <1>3, <2>1, <2>3, <2>4
<1>14. CASE DoneRemove(r)
 <2>1. table' \in [Keys -> 0 .. Len(info)] BY <1>14, TableClear DEF DoneRemove
 <2>2. HeapType' /\ Grows /\ EnvType' /\ th' = th /\ Goto(r, "zombie")
   BY <1>14, <2>1, EnvSame DEF DoneRemove, HeapType, Grows
 <2>3. QED BY <1>1, <1>3, <2>2
<1>15. CASE Zombie(r)
 <2> DEFINE o == th[r].done
            rec == [info[o] EXCEPT !.sent = TRUE]
            n == Len(th[r].calls)
            c == SubSeq(th[r].calls, 1, n - 1)
            l == [th[r] EXCEPT !.done = th[r].calls[n], !.next = Null, !.calls = c]
 <2>1. o \in 1 .. Len(info)
  <3>1. At(r, "zombie") BY <1>15 DEF Zombie
  <3>2. QED BY <3>1 DEF At, Safe, InfoUsed, Null
 <2>2. rec \in InfoType(Len(queue)) BY <2>1, InfoField
 <2>3. info' = [info EXCEPT ![o] = rec] /\ UNCHANGED <<table, queue, env>> BY <1>15 DEF Zombie
 <2> HIDE DEF o, rec
 <2>4. HeapType' /\ Grows /\ EnvType' BY <2>1, <2>2, <2>3, HeapWrite, EnvSame DEF HeapType
 <2>5. CASE Return(r) BY <2>4, <2>5, ReturnStep
 <2>6. CASE th[r].calls # <<>> /\ Locals(r, l) /\ Goto(r, "remove")
  <3>1. /\ th[r].calls[n] \in 0 .. Len(info) /\ c \in Seq(0 .. Len(info))
        /\ Null \in 0 .. Len(info)
    BY <2>6 DEF Null
  <3> DEFINE a == [th[r] EXCEPT !.done = th[r].calls[n]]
             b == [a EXCEPT !.next = Null]
  <3>2. a \in LocalsType(Len(info), Len(queue)) BY <3>1, LocalsField
  <3>3. b \in LocalsType(Len(info), Len(queue))
   <4> HIDE DEF a
   <4>1. QED BY <3>1, <3>2, LocalsField
  <3>4. [b EXCEPT !.calls = c] \in LocalsType(Len(info), Len(queue))
   <4> HIDE DEF b, c
   <4>1. QED BY <3>1, <3>3, LocalsField
  <3> HIDE DEF c, n
  <3>5. Locals(r, [b EXCEPT !.calls = c]) BY <2>6
  <3> HIDE DEF b
  <3>6. QED BY <1>1, <1>2, <2>4, <2>6, <3>4, <3>5
 <2>7. QED BY <1>15, <2>5, <2>6 DEF Zombie
<1>16. QED BY <1>4, <1>5, <1>6, <1>7, <1>8, <1>9, <1>10, <1>11, <1>12, <1>13, <1>14, <1>15 DEF FinishedStep

LEMMA InitTypeOK == Init => TypeOK
<1> SUFFICES ASSUME Init PROVE TypeOK OBVIOUS
<1>1. conn \in [Readers -> Seq(Blocks)] BY ReaderAssumption DEF Init
<1>2. table \in [Keys -> 0 .. Len(info)] /\ info \in Seq(InfoType(Len(queue))) /\ queue \in Seq(QueueType)
  BY DEF Init, Null
<1>3. th \in [Readers -> LocalsType(Len(info), Len(queue))]
 <2> DEFINE l == [block |-> NoBlock, buffer |-> Null, waiting_queue |-> Null,
                  dummy |-> Null, found |-> FALSE, prev |-> Null, done |-> Null,
                  next |-> Null, calls |-> <<>>, new_buf |-> Null, repeat |-> Null,
                  old_block |-> NoBlock, set |-> FALSE,
                  kv |-> [f \in {"outer", "nested"} |-> Null]]
 <2>1. Len(info) = 0 /\ Len(queue) = 0 BY DEF Init
 <2>2. l \in LocalsType(0, 0) BY DEF LocalsType, Null
 <2>3. th = [r \in Readers |-> l] BY DEF Init
 <2> HIDE DEF l
 <2>4. QED BY <2>1, <2>2, <2>3
<1>4. pc \in [Readers -> Steps] /\ \A r \in Readers : pc[r] \notin InitSteps \cup DataSteps
  BY DEF Init, Steps, InitSteps, DataSteps
<1>5. delivered \in Seq(DeliveredType)
 <2> DEFINE D == DeliveredType
 <2>1. <<>> \in Seq(D)
  <3> HIDE DEF D
  <3>1. QED OBVIOUS
 <2>2. QED BY <2>1 DEF Init
<1>7. ub \in BOOLEAN /\ fault \in {"none", "bad_access", "duplicate_exit"} BY DEF Init
<1>6. QED BY <1>1, <1>2, <1>3, <1>4, <1>5, <1>7 DEF TypeOK

LEMMA NextTypeOK == TypeOK /\ [Next]_vars => TypeOK'
<1> SUFFICES ASSUME TypeOK, [Next]_vars PROVE TypeOK' OBVIOUS
<1>1. CASE UNCHANGED vars BY <1>1 DEF vars, TypeOK
<1>2. CASE Stopped BY <1>2 DEF Stopped, vars, TypeOK
<1>3. ASSUME NEW r \in Readers, ReaderStep(r) PROVE TypeOK'
  BY <1>3, SocketTypes, InitTypes, DataTypes, FinishedTypes DEF ReaderStep
<1>4. QED BY <1>1, <1>2, <1>3 DEF Next

(* Type correctness of the reader: for any number of connections, buffers   *)
(* and blocks, every pointer in the table, in an object or in a thread is   *)
(* NULL or was returned by an allocation, and the branches of handle_block  *)
(* and the waiting queues only ever hold blocks of their kind.              *)
THEOREM TypeCorrect == Spec => []TypeOK
<1>1. QED BY InitTypeOK, NextTypeOK, PTL DEF Spec

(* The order of the buffers: OrderInv is inductive (with TypeOK) and implies *)
(* InOrder.                                                                   *)

(* Lemmas about the heap *)

LEMMA TagsParts ==
  ASSUME TypeOK
  PROVE  TagsOK <=> TableOK(table) /\ ObjectsOK
<1>1. \A t \in Tags : table[t] # Null => table[t] \in Objects BY Sizes DEF TypeOK, Keys, Objects, Null
<1>2. QED BY <1>1 DEF TagsOK, TableOK, ObjectsOK, ObjectOK

LEMMA TagsPartsNext ==
  ASSUME TypeOK'
  PROVE  TagsOK' <=> (TableOK(table))' /\ ObjectsOK'
BY TagsParts, PTL

(* A step that only reads the heap, or only changes the table. *)
LEMMA HeapKept ==
  ASSUME TypeOK, TypeOK', TagsOK, TableOK(table'), UNCHANGED <<info, delivered>>
  PROVE  Keeps /\ TagsOK'
<1>1. Keeps BY Sizes DEF Keeps, Refilled, DeliveredTags
<1>2. TableOK(table)' BY DEF TableOK, Objects
<1>3. ObjectsOK' BY TagsParts DEF ObjectsOK, Objects, DeliveredTags
<1>4. QED BY <1>1, <1>2, <1>3, TagsPartsNext

(* A step that writes one object. *)
LEMMA HeapWritten ==
  ASSUME TypeOK, TypeOK', TagsOK, TableOK(table'),
         NEW o \in Objects, NEW rec, info' = [info EXCEPT ![o] = rec],
         DeliveredTags \subseteq DeliveredTags',
         Refilled(info[o], rec), ObjectOK(rec, DeliveredTags')
  PROVE  Keeps /\ TagsOK'
<1>1. Objects' = Objects /\ Len(info') = Len(info) BY Sizes DEF Objects, TypeOK
<1>2. \A x \in Objects : info'[x] = IF x = o THEN rec ELSE info[x] BY DEF Objects, TypeOK
<1>3. Keeps BY <1>1, <1>2, Sizes DEF Keeps, Refilled
<1>4. TableOK(table)' BY <1>1, <1>2 DEF TableOK, Refilled
<1>5. \A x \in Objects : ObjectOK(info[x], DeliveredTags) BY TagsParts DEF ObjectsOK
<1>6. \A x \in Objects : ObjectOK(info'[x], DeliveredTags') BY <1>2, <1>5 DEF ObjectOK
<1>7. ObjectsOK' BY <1>1, <1>6 DEF ObjectsOK
<1>8. QED BY <1>3, <1>4, <1>7, TagsPartsNext

(* A step that allocates an object and makes it reachable. *)
LEMMA HeapAllocated ==
  ASSUME TypeOK, TypeOK', TagsOK, NEW t \in Tags, NEW rec,
         info' = Append(info, rec), delivered' = delivered,
         table' = [table EXCEPT ![t] = Len(info) + 1],
         rec.tag = t, ObjectOK(rec, DeliveredTags)
  PROVE  Keeps /\ TagsOK'
<1>1. /\ Len(info) \in Nat /\ Len(info') = Len(info) + 1
      /\ \A x \in Objects' : info'[x] = IF x \in Objects THEN info[x] ELSE rec
  BY Sizes DEF Objects, TypeOK
<1>2. Objects \subseteq Objects' /\ Len(info) + 1 \in Objects' \ Objects BY <1>1 DEF Objects
<1>3. DeliveredTags' = DeliveredTags BY DEF DeliveredTags
<1>4. Keeps
 <2>1. \A x \in Objects : info'[x] = info[x] BY <1>1, <1>2
 <2>2. Len(info) <= Len(info') BY <1>1
 <2>3. QED BY <1>3, <2>1, <2>2 DEF Keeps, Refilled
<1>5. TableOK(table) /\ \A x \in Objects : ObjectOK(info[x], DeliveredTags) BY TagsParts DEF ObjectsOK
<1>6. /\ table'[NO_TAG] = table[NO_TAG]
      /\ \A s \in Tags : table'[s] = IF s = t THEN Len(info) + 1 ELSE table[s]
  BY DEF TypeOK, Keys, Tags, NO_TAG
<1>7. TableOK(table)'
 <2>1. table'[NO_TAG] = Null BY <1>5, <1>6 DEF TableOK
 <2>2. ASSUME NEW s \in Tags, s # t, table'[s] # Null
       PROVE  table'[s] \in Objects' /\ info'[table'[s]].tag = s
  <3>1. table[s] \in Objects /\ info[table[s]].tag = s /\ table'[s] = table[s] BY <1>5, <1>6, <2>2 DEF TableOK
  <3>2. QED BY <1>1, <1>2, <3>1
 <2>3. table'[t] \in Objects' /\ info'[table'[t]].tag = t BY <1>1, <1>2, <1>6
 <2>4. QED BY <2>1, <2>2, <2>3 DEF TableOK
<1>8. ObjectsOK' BY <1>1, <1>3, <1>5 DEF ObjectsOK
<1>9. QED BY <1>4, <1>7, <1>8, TagsPartsNext

(* The handler's return adds one tag to those delivered. *)
LEMMA DeliveredGrows ==
  ASSUME TypeOK, NEW d, delivered' = Append(delivered, d)
  PROVE  DeliveredTags' = DeliveredTags \cup {d.tag}
<1>1. /\ Len(delivered) \in Nat /\ Len(delivered') = Len(delivered) + 1
      /\ delivered'[Len(delivered) + 1] = d
      /\ \A i \in 1 .. Len(delivered) : delivered'[i] = delivered[i]
  BY DEF TypeOK
<1>2. 1 .. Len(delivered) + 1 = (1 .. Len(delivered)) \cup {Len(delivered) + 1} BY <1>1
<1>3. QED BY <1>1, <1>2 DEF DeliveredTags

(* Lemmas about the threads *)

(* What a thread knows stays true while others take steps. *)
LEMMA OthersOK ==
  ASSUME TypeOK, Keeps, NEW q \in Readers, ThreadOK(q),
         pc'[q] = pc[q], th'[q] = th[q]
  PROVE  ThreadOK(q)'
<1> USE ThreadType, Sizes DEF Null
<1>1. \A o \in 0 .. Len(info) : o # Null => o \in Objects /\ Refilled(info[o], info'[o]) BY DEF Keeps, Objects
<1>2. \A o \in 0 .. Len(info) : o # Null => info'[o].tag = info[o].tag BY <1>1 DEF Refilled
<1>3. InitOK(q)'
 <2>1. /\ th[q].new_buf # Null => info'[th[q].new_buf].tag = info[th[q].new_buf].tag
       /\ th[q].repeat # Null => info'[th[q].repeat].tag = info[th[q].repeat].tag
   BY <1>2
 <2>2. QED BY <2>1 DEF ThreadOK, InitOK, HasTag
<1>4. DataOK(q)' BY <1>1, <1>2 DEF ThreadOK, DataOK, HasTag, Refilled, Frame, InInit
<1>5. FinishOK(q)'
 <2> DEFINE l == th[q]
 <2>1. \A i \in 1 .. Len(l.calls) : l.calls[i] \in 0 .. Len(info) OBVIOUS
 <2>2. \A i \in 1 .. Len(l.calls) :
         l.calls[i] # Null /\ info'[l.calls[i]].tag \in DeliveredTags'
   BY <1>1, <2>1 DEF ThreadOK, FinishOK, Refilled, Keeps
 <2>3. /\ pc[q] \in Finishing =>
            /\ l.done # Null /\ info'[l.done].valid
            /\ info'[l.done].prev_tag = info[l.done].prev_tag
            /\ info'[l.done].tag = info[l.done].tag
       /\ pc[q] = "prev_put_back" =>
            HasTag(l.prev, info'[l.dummy].tag) /\ l.dummy # Null
       /\ pc[q] \in {"next_lookup", "next_completed", "remove", "zombie"} =>
            l.done # Null /\ info'[l.done].tag = info[l.done].tag
   BY <1>1 DEF ThreadOK, FinishOK, Refilled, HasTag
 <2>4. DeliveredTags \subseteq DeliveredTags' BY DEF Keeps
 <2>5. /\ {"prev_insert", "prev_put_back", "prev_sent", "set_next", "free_prev",
           "deliver", "in_handler"} \subseteq Finishing
   BY DEF Finishing
 <2>6. /\ l.prev # Null => info'[l.prev].tag = info[l.prev].tag
       /\ l.next # Null => info'[l.next].tag = info[l.next].tag
   BY <1>2
 <2>7. QED BY <2>2, <2>3, <2>4, <2>5, <2>6 DEF ThreadOK, FinishOK, HasTag
<1>6. QED BY <1>3, <1>4, <1>5 DEF ThreadOK

(* The parts of a step put together *)
LEMMA OrderStep ==
  ASSUME TypeOK, OrderInv, NEW r \in Readers, NEW s, NEW l,
         pc' = [pc EXCEPT ![r] = s], th' = [th EXCEPT ![r] = l],
         conn' = conn, ub => ub',
         s \in InitSteps => l.block.prev_tag = l.block.tag - 1,
         ~ub' => Keeps /\ TagsOK' /\ ThreadOK(r)'
  PROVE  OrderInv'
<1>1. \A q \in Readers : /\ pc'[q] = IF q = r THEN s ELSE pc[q]
                         /\ th'[q] = IF q = r THEN l ELSE th[q]
  BY DEF TypeOK
<1>2. ChainOK' BY <1>1 DEF OrderInv, ChainOK
<1>3. ASSUME ~ub' PROVE \A q \in Readers : ThreadOK(q)'
 <2>1. \A q \in Readers : ThreadOK(q) BY <1>3 DEF OrderInv, ThreadOK
 <2>2. QED BY <1>1, <1>3, <2>1, OthersOK
<1>4. QED BY <1>2, <1>3 DEF OrderInv, ThreadOK

LEMMA OrderParts ==
  ASSUME OrderInv, ~ub, NEW r \in Readers
  PROVE  TagsOK /\ ThreadOK(r)
BY DEF OrderInv, ThreadOK

(* What a thread that returns keeps of its locals. *)
LEMMA FreshFields ==
  ASSUME TypeOK, NEW r \in Readers
  PROVE  /\ Fresh(th[r]).found = FALSE
         /\ Fresh(th[r]).new_buf = th[r].new_buf /\ Fresh(th[r]).repeat = th[r].repeat
         /\ Fresh(th[r]).calls = th[r].calls
BY ThreadType DEF Fresh, LocalsType

LEMMA CallsKept ==
  ASSUME TypeOK, Keeps, NEW r \in Readers, CallsOK(r)
  PROVE  \A i \in 1 .. Len(th[r].calls) :
           th[r].calls[i] # Null /\ info'[th[r].calls[i]].tag \in DeliveredTags'
<1>1. \A i \in 1 .. Len(th[r].calls) : th[r].calls[i] \in 0 .. Len(info) BY ThreadType
<1>2. QED BY <1>1 DEF CallsOK, Keeps, Refilled, Objects, Null

(* handle_block returns. *)
LEMMA ReturnOK ==
  ASSUME TypeOK, Keeps, NEW r \in Readers, ThreadOK(r), Return(r)
  PROVE  ThreadOK(r)'
<1> DEFINE s == IF InInit(r) THEN "drain_test" ELSE "read"
           l == Fresh(th[r])
<1>1. pc'[r] = s /\ th'[r] = l BY DEF Return, Goto, Locals, TypeOK
<1>2. /\ l.found = FALSE /\ l.new_buf = th[r].new_buf
      /\ l.repeat = th[r].repeat /\ l.calls = th[r].calls
  BY FreshFields
<1>3. \A o \in 0 .. Len(info) : o # Null => info'[o].tag = info[o].tag BY DEF Keeps, Refilled, Objects, Null
<1>4. CallsOK(r) BY DEF ThreadOK, FinishOK, CallsOK
<1> HIDE DEF l
<1>5. InitOK(r)' BY <1>1, <1>2, <1>3, ThreadType DEF InInit, ThreadOK, InitOK, HasTag
<1>6. DataOK(r)' BY <1>1, <1>2 DEF DataOK
<1>7. FinishOK(r)' BY <1>1, <1>2, <1>4, CallsKept DEF FinishOK, Finishing
<1>8. QED BY <1>5, <1>6, <1>7 DEF ThreadOK

LEMMA ReturnOrder ==
  ASSUME TypeOK, OrderInv, NEW r \in Readers, Return(r),
         conn' = conn, ub => ub', ~ub' => Keeps /\ TagsOK'
  PROVE  OrderInv'
<1> DEFINE s == IF InInit(r) THEN "drain_test" ELSE "read"
<1>1. s \notin InitSteps BY DEF InitSteps
<1>2. pc' = [pc EXCEPT ![r] = s] /\ th' = [th EXCEPT ![r] = Fresh(th[r])] BY DEF Return, Goto, Locals
<1>3. ~ub' => ThreadOK(r)' BY OrderParts, ReturnOK
<1> HIDE DEF s
<1>4. QED BY <1>1, <1>2, <1>3, OrderStep

(* A step that goes on in the same handle_block frame. *)
LEMMA NextOrder ==
  ASSUME TypeOK, OrderInv, NEW r \in Readers, NEW s, NEW l,
         Goto(r, s), Locals(r, l) \/ (th' = th /\ l = th[r]),
         conn' = conn, ub => ub',
         s \in InitSteps => l.block.prev_tag = l.block.tag - 1,
         ~ub' => Keeps /\ TagsOK',
         (~ub' /\ pc'[r] = s /\ th'[r] = l) => ThreadOK(r)'
  PROVE  OrderInv'
<1>1. pc' = [pc EXCEPT ![r] = s] /\ th' = [th EXCEPT ![r] = l] BY DEF Goto, Locals, TypeOK
<1>2. pc'[r] = s /\ th'[r] = l BY <1>1 DEF TypeOK
<1>3. QED BY <1>1, <1>2, OrderStep

(* OrderInv is inductive, one lemma per group of actions *)

(* A step that ends the process, or none at all. *)
LEMMA OnlyFault ==
  ASSUME OrderInv, UNCHANGED <<conn, table, info, pc, th, delivered, ub>>
  PROVE  OrderInv'
BY DEF OrderInv, ChainOK, TagsOK, InitOK, DataOK, FinishOK, HasTag, Frame, InInit, Objects, DeliveredTags

LEMMA SocketOrder ==
  ASSUME TypeOK, TypeOK', OrderInv, NEW r \in Readers,
         Read(r) \/ Close(r) \/ BadAccess(r)
  PROVE  OrderInv'
<1>1. CASE Read(r)
 <2> DEFINE b == Head(conn[r])
            s == IF b.kind = "init" THEN "init_lookup" ELSE "data_lookup"
            l == [th[r] EXCEPT !.block = b]
 <2>1. /\ pc' = [pc EXCEPT ![r] = s] /\ th' = [th EXCEPT ![r] = l]
       /\ conn' = [conn EXCEPT ![r] = Tail(conn[r])] /\ conn[r] # <<>> /\ pc[r] = "read" /\ ub' = ub
       /\ table' = table /\ info' = info /\ delivered' = delivered
   BY <1>1 DEF Read, At, Goto, Locals, heap
 <2>2. /\ l.block = b /\ l.found = th[r].found /\ l.new_buf = th[r].new_buf
       /\ l.repeat = th[r].repeat /\ l.kv = th[r].kv /\ l.buffer = th[r].buffer
       /\ l.calls = th[r].calls
   BY ThreadType DEF LocalsType
 <2>3. /\ conn[r] \in Seq(Blocks) /\ b = conn[r][1] /\ Len(conn[r]) >= 1
       /\ Len(Tail(conn[r])) = Len(conn[r]) - 1
       /\ \A i \in 1 .. Len(conn[r]) - 1 : Tail(conn[r])[i] = conn[r][i + 1]
   BY <2>1 DEF TypeOK
 <2>4. b.kind = "init" => b.prev_tag = b.tag - 1 BY <2>3 DEF OrderInv, ChainOK
 <2>5. \A q \in Readers : /\ pc'[q] = IF q = r THEN s ELSE pc[q]
                          /\ th'[q] = IF q = r THEN l ELSE th[q]
                          /\ conn'[q] = IF q = r THEN Tail(conn[r]) ELSE conn[q]
   BY <2>1 DEF TypeOK
 <2>6. s \in InitSteps => b.kind = "init" BY DEF InitSteps
 <2> HIDE DEF l, b
 <2>7. ChainOK'
  <3>1. \A i \in 1 .. Len(Tail(conn[r])) : Tail(conn[r])[i].kind = "init" =>
          Tail(conn[r])[i].prev_tag = Tail(conn[r])[i].tag - 1
    BY <2>3 DEF OrderInv, ChainOK
  <3> DEFINE Kept(q) ==
        /\ \A i \in 1 .. Len(conn'[q]) : conn'[q][i].kind = "init" =>
             conn'[q][i].prev_tag = conn'[q][i].tag - 1
        /\ pc'[q] \in InitSteps => th'[q].block.prev_tag = th'[q].block.tag - 1
  <3>2. \A q \in Readers : q # r => Kept(q) BY <2>5 DEF OrderInv, ChainOK
  <3>3. Kept(r)
   <4>1. conn'[r] = Tail(conn[r]) /\ pc'[r] = s /\ th'[r].block = b BY <2>2, <2>5
   <4> HIDE DEF s
   <4>2. QED BY <2>4, <2>6, <3>1, <4>1
  <3>4. QED BY <3>2, <3>3 DEF ChainOK
 <2>8. ASSUME ~ub' PROVE TagsOK' /\ \A q \in Readers : ThreadOK(q)'
  <3>1. TagsOK /\ \A q \in Readers : ThreadOK(q) BY <2>1, <2>8, OrderParts
  <3>2. Keeps /\ TagsOK' BY <2>1, <3>1, HeapKept, TagsParts
  <3>3. CallsOK(r) BY <3>1 DEF ThreadOK, FinishOK, CallsOK
  <3>4. InitOK(r)' BY <2>1, <2>2, <2>5, <3>1, ThreadType DEF ThreadOK, InitOK, HasTag, Null
  <3>5. DataOK(r)' BY <2>1, <2>2, <2>5, <3>1 DEF ThreadOK, DataOK, Unfound, Draining
  <3>6. FinishOK(r)' BY <2>2, <2>5, <3>2, <3>3, CallsKept DEF FinishOK, Finishing
  <3>7. QED BY <2>5, <3>1, <3>2, <3>4, <3>5, <3>6, OthersOK DEF ThreadOK
 <2>9. QED BY <2>7, <2>8 DEF OrderInv, ThreadOK
<1>2. CASE Close(r)
 <2>1. /\ pc' = [pc EXCEPT ![r] = "closed"] /\ th' = th /\ conn' = [conn EXCEPT ![r] = <<>>]
       /\ pc[r] = "read" /\ ub' = ub /\ table' = table /\ info' = info /\ delivered' = delivered
   BY <1>2 DEF Close, At, Goto, heap
 <2>2. \A q \in Readers : /\ pc'[q] = IF q = r THEN "closed" ELSE pc[q]
                          /\ conn'[q] = IF q = r THEN <<>> ELSE conn[q]
   BY <2>1 DEF TypeOK
 <2>3. ChainOK' BY <2>1, <2>2 DEF OrderInv, ChainOK, InitSteps
 <2>4. ASSUME ~ub' PROVE TagsOK' /\ \A q \in Readers : ThreadOK(q)'
  <3>1. TagsOK /\ \A q \in Readers : ThreadOK(q) BY <2>1, <2>4, OrderParts
  <3>2. Keeps /\ TagsOK' BY <2>1, <3>1, HeapKept, TagsParts
  <3>3. CallsOK(r) BY <3>1 DEF ThreadOK, FinishOK, CallsOK
  <3>4. InitOK(r)' BY <2>1, <2>2, <3>1 DEF ThreadOK, InitOK, HasTag
  <3>5. DataOK(r)' BY <2>1, <2>2, <3>1 DEF ThreadOK, DataOK, Unfound, Draining, Frame, InInit
  <3>6. FinishOK(r)' BY <2>1, <2>2, <3>2, <3>3, CallsKept DEF FinishOK, Finishing
  <3>7. QED BY <2>1, <2>2, <3>1, <3>2, <3>4, <3>5, <3>6, OthersOK DEF ThreadOK
 <2>5. QED BY <2>3, <2>4 DEF OrderInv, ThreadOK
<1>3. CASE BadAccess(r) BY <1>3, OnlyFault DEF BadAccess, heap
<1>4. QED BY <1>1, <1>2, <1>3

(* A step that leaves the heap as it is and goes on. *)
LEMMA SameHeap ==
  ASSUME TypeOK, TypeOK', OrderInv, ~ub, UNCHANGED <<table, info, delivered>>
  PROVE  Keeps /\ TagsOK'
<1>1. TagsOK BY DEF OrderInv
<1>2. TableOK(table') BY <1>1, TagsParts
<1>3. QED BY <1>1, <1>2, HeapKept

(* A write of fields that OrderInv does not speak of. *)
LEMMA SameTags ==
  ASSUME TypeOK, TypeOK', OrderInv, ~ub, UNCHANGED <<table, delivered>>,
         NEW o \in Objects, NEW rec, info' = [info EXCEPT ![o] = rec],
         Alike(info[o], rec)
  PROVE  Keeps /\ TagsOK'
<1>1. TagsOK /\ TableOK(table') /\ ObjectOK(info[o], DeliveredTags) BY TagsParts DEF OrderInv, ObjectsOK
<1>2. DeliveredTags' = DeliveredTags BY DEF DeliveredTags
<1>3. Refilled(info[o], rec) /\ ObjectOK(rec, DeliveredTags') BY <1>1, <1>2 DEF Alike, Refilled, ObjectOK
<1>4. QED BY <1>1, <1>2, <1>3, HeapWritten

LEMMA CallsStep ==
  ASSUME TypeOK, OrderInv, ~ub, Keeps, NEW r \in Readers, th'[r].calls = th[r].calls
  PROVE  CallsOK(r)'BY OrderParts, CallsKept DEF ThreadOK, FinishOK, CallsOK

LEMMA TagKept ==
  ASSUME Keeps, TypeOK
  PROVE  \A o \in 0 .. Len(info) : o # Null =>
           /\ info'[o].tag = info[o].tag
           /\ info[o].valid => info'[o].valid /\ info'[o].prev_tag = info[o].prev_tag
BY DEF Keeps, Refilled, Objects, Null

(* An init block after the fill, and the return to the socket *)
LEMMA DrainOK ==
  ASSUME TypeOK, OrderInv, ~ub, Keeps, NEW r \in Readers, th'[r].found = th[r].found,
         th'[r].new_buf = th[r].new_buf, th'[r].repeat = th[r].repeat,
         th'[r].calls = th[r].calls, pc[r] \in Unfound,
         pc'[r] \in Draining \cup {"free_repeat", "data_lookup"}
  PROVE  ThreadOK(r)'
<1> USE DEF Draining
<1>1. ThreadOK(r) BY OrderParts
<1>2. InitOK(r)' BY <1>1, TagKept, ThreadType DEF ThreadOK, InitOK, HasTag
<1>3. DataOK(r)' BY <1>1 DEF ThreadOK, DataOK
<1>4. FinishOK(r)' BY CallsStep DEF FinishOK, Finishing, CallsOK
<1>5. QED BY <1>2, <1>3, <1>4 DEF ThreadOK

LEMMA ReadOK ==
  ASSUME TypeOK, OrderInv, ~ub, Keeps, NEW r \in Readers, pc'[r] = "read",
         th'[r].new_buf = Null, th'[r].repeat = Null, ~th'[r].found,
         th'[r].calls = th[r].calls
  PROVE  ThreadOK(r)'
<1>1. InitOK(r)' /\ DataOK(r)' BY DEF InitOK, DataOK
<1>2. FinishOK(r)' BY CallsStep DEF FinishOK, Finishing, CallsOK
<1>3. QED BY <1>1, <1>2 DEF ThreadOK

LEMMA InitOrder ==
  ASSUME TypeOK, TypeOK', OrderInv, NEW r \in Readers, InitBlockStep(r)
  PROVE  OrderInv'
<1> USE ThreadType, Sizes
<1>1. CASE InitLookup(r)
 <2> DEFINE b == th[r].block
            o == table[b.tag]
            s == IF o = Null THEN "init_insert" ELSE "init_valid"
            l == [th[r] EXCEPT !.new_buf = o]
 <2>1. /\ Goto(r, s) /\ Locals(r, l) /\ pc[r] = "init_lookup"
       /\ UNCHANGED <<table, info, delivered, conn, ub>>
   BY <1>1 DEF InitLookup, At, heap, env
 <2>2. /\ l.block = b /\ l.found = th[r].found /\ l.new_buf = o
       /\ l.repeat = th[r].repeat /\ l.calls = th[r].calls
   BY DEF LocalsType
 <2>3. b.tag \in Tags /\ b.prev_tag = b.tag - 1 BY <2>1, BlockType DEF InitSteps, OrderInv, ChainOK
 <2> HIDE DEF l, b
 <2>4. ASSUME ~ub', pc'[r] = s, th'[r] = l PROVE ThreadOK(r)'
  <3>1. ~ub /\ TagsOK /\ ThreadOK(r) /\ Keeps BY <2>1, <2>4, OrderParts, SameHeap
  <3>2. o # Null => info[o].tag = b.tag BY <2>3, <3>1 DEF TagsOK
  <3>3. th[r].repeat = Null /\ ~th[r].found
    BY <2>1, <3>1 DEF ThreadOK, InitOK, DataOK, HasTag, Unfound, Draining, InitSteps
  <3>4. InitOK(r)' BY <2>1, <2>2, <2>4, <3>2, <3>3 DEF InitOK, HasTag
  <3>5. DataOK(r)' BY <2>2, <2>4, <3>3 DEF DataOK
  <3>6. FinishOK(r)' BY <2>1, <2>2, <2>4, <3>1, CallsStep DEF FinishOK, Finishing, CallsOK
  <3>7. QED BY <3>4, <3>5, <3>6 DEF ThreadOK
 <2>5. QED BY <2>1, <2>2, <2>3, <2>4, SameHeap, NextOrder
<1>2. CASE DuplicateExit(r) BY <1>2, OnlyFault DEF DuplicateExit, heap
<1>a. CASE InitNotValid(r)
 <2>1. /\ Goto(r, "init_fill") /\ th' = th /\ pc[r] = "init_valid"
       /\ UNCHANGED <<table, info, delivered, conn, ub>>
   BY <1>a DEF InitNotValid, At, heap, env
 <2>2. ASSUME ~ub', pc'[r] = "init_fill", th'[r] = th[r] PROVE ThreadOK(r)'
  <3>1. ThreadOK(r) /\ Keeps /\ ~ub BY <2>1, <2>2, OrderParts, SameHeap
  <3>2. InitOK(r)' BY <2>1, <2>2, <3>1, TagKept DEF ThreadOK, InitOK, HasTag
  <3>3. DataOK(r)' BY <2>1, <2>2, <3>1 DEF ThreadOK, DataOK, Unfound, InitSteps
  <3>4. FinishOK(r)' BY <2>2, <3>1, CallsStep DEF FinishOK, Finishing, CallsOK
  <3>5. QED BY <3>2, <3>3, <3>4 DEF ThreadOK
 <2>3. th[r].block.prev_tag = th[r].block.tag - 1 BY <2>1 DEF InitSteps, OrderInv, ChainOK
 <2>4. QED BY <2>1, <2>2, <2>3, SameHeap, NextOrder
<1>3. CASE InitFill(r)
 <2> DEFINE o == th[r].new_buf
            b == th[r].block
            rec == Filled(info[o], b)
 <2>1. /\ Goto(r, "drain") /\ th' = th /\ pc[r] = "init_fill" /\ o \in Objects
       /\ info' = [info EXCEPT ![o] = rec] /\ UNCHANGED <<table, delivered, conn, ub>>
   BY <1>3 DEF InitFill, At, Safe, InfoUsed, Null, env, Objects
 <2>2. /\ rec.tag = b.tag /\ rec.prev_tag = b.prev_tag
       /\ rec.next_tag = info[o].next_tag /\ rec.sent = info[o].sent /\ rec.valid
   BY <2>1 DEF Filled, Objects, InfoType
 <2>3. b.prev_tag = b.tag - 1 BY <2>1 DEF InitSteps, OrderInv, ChainOK
 <2> HIDE DEF rec, b
 <2>4. ASSUME ~ub' PROVE Keeps /\ TagsOK'
  <3>1. TagsOK /\ ThreadOK(r) BY <2>1, <2>4, OrderParts
  <3>2. info[o].tag = b.tag BY <2>1, <3>1 DEF ThreadOK, InitOK, HasTag, b
  <3>3. TableOK(table') /\ ObjectOK(info[o], DeliveredTags) BY <2>1, <3>1, TagsParts DEF ObjectsOK
  <3>4. DeliveredTags' = DeliveredTags BY <2>1 DEF DeliveredTags
  <3>5. Refilled(info[o], rec) /\ ObjectOK(rec, DeliveredTags')
    BY <2>1, <2>2, <2>3, <3>2, <3>3, <3>4 DEF Refilled, ObjectOK
  <3>6. QED BY <2>1, <3>1, <3>3, <3>4, <3>5, HeapWritten
 <2>5. ASSUME ~ub', pc'[r] = "drain", th'[r] = th[r] PROVE ThreadOK(r)'
  <3>1. ThreadOK(r) /\ Keeps /\ ~ub BY <2>1, <2>4, <2>5, OrderParts
  <3>2. InitOK(r)' BY <2>5, <3>1, TagKept DEF ThreadOK, InitOK, HasTag
  <3>3. DataOK(r)' BY <2>1, <2>5, <3>1 DEF ThreadOK, DataOK, Unfound, Draining, InitSteps
  <3>4. FinishOK(r)' BY <2>5, <3>1, CallsStep DEF FinishOK, Finishing, CallsOK
  <3>5. QED BY <3>2, <3>3, <3>4 DEF ThreadOK
 <2>6. "drain" \notin InitSteps BY DEF InitSteps
 <2>7. QED BY <2>1, <2>4, <2>5, <2>6, NextOrder
<1>4. CASE InitInsert(r)
 <2> DEFINE b == th[r].block
            new == Len(info) + 1
            rec == Filled([Calloc EXCEPT !.next_tag = NO_TAG], b)
            l == [th[r] EXCEPT !.new_buf = new, !.repeat = table[b.tag]]
 <2>1. /\ pc[r] = "init_insert" /\ info' = Append(info, rec)
       /\ table' = [table EXCEPT ![b.tag] = new] /\ UNCHANGED <<delivered, conn, ub>>
       /\ \/ Return(r)
          \/ /\ table[b.tag] # Null
             /\ Locals(r, l) /\ Goto(r, "init_adopt")
   BY <1>4 DEF InitInsert, At, env
 <2>2. /\ rec.tag = b.tag /\ rec.prev_tag = b.prev_tag
       /\ rec.next_tag = NO_TAG /\ ~rec.sent /\ ~rec.completed /\ rec.written = {}
   BY DEF Filled, Calloc
 <2>3. b.tag \in Tags /\ b.prev_tag = b.tag - 1 BY <2>1, BlockType DEF InitSteps, OrderInv, ChainOK
 <2>4. /\ l.new_buf = new /\ l.repeat = table[b.tag]
       /\ l.found = th[r].found /\ l.calls = th[r].calls
   BY DEF LocalsType
 <2> HIDE DEF rec, b, l
 <2>5. ASSUME ~ub' PROVE Keeps /\ TagsOK'
  <3>1. TagsOK /\ ObjectOK(rec, DeliveredTags) BY <2>1, <2>2, <2>3, <2>5, OrderParts DEF ObjectOK
  <3>2. QED BY <2>1, <2>2, <2>3, <3>1, HeapAllocated
 <2>6. CASE Return(r) BY <2>1, <2>5, <2>6, ReturnOrder
 <2>7. CASE table[b.tag] # Null /\ Locals(r, l) /\ Goto(r, "init_adopt")
  <3>1. ASSUME ~ub', pc'[r] = "init_adopt", th'[r] = l PROVE ThreadOK(r)'
   <4>1. ThreadOK(r) /\ Keeps /\ ~ub /\ TagsOK BY <2>1, <2>5, <3>1, OrderParts
   <4>2. info'[new].tag = b.tag BY <2>1, <2>2
   <4>3. info'[table[b.tag]].tag = b.tag
    <5>1. table[b.tag] \in 0 .. Len(info) /\ info[table[b.tag]].tag = b.tag
      BY <2>3, <2>7, <4>1 DEF TagsOK, HeapType, Keys
    <5>2. QED BY <2>7, <4>1, <5>1, TagKept
   <4>4. InitOK(r)' BY <2>4, <3>1, <4>2, <4>3 DEF InitOK, HasTag, Null
   <4>5. DataOK(r)' BY <2>1, <2>4, <3>1, <4>1 DEF ThreadOK, DataOK, Unfound, Draining, InitSteps
   <4>6. FinishOK(r)' BY <2>4, <3>1, <4>1, CallsStep DEF FinishOK, Finishing, CallsOK
   <4>7. QED BY <4>4, <4>5, <4>6 DEF ThreadOK
  <3>2. "init_adopt" \notin InitSteps BY DEF InitSteps
  <3>3. QED BY <2>1, <2>5, <2>7, <3>1, <3>2, NextOrder
 <2>8. QED BY <2>1, <2>6, <2>7
<1>5. CASE InitAdopt(r)
 <2> DEFINE o == th[r].new_buf
            p == th[r].repeat
            rec == [info[o] EXCEPT !.next_tag = info[p].next_tag]
 <2>a. InfoUsed(r) = {o, p} BY <1>5 DEF InitAdopt, At, InfoUsed
 <2>1. /\ Goto(r, "drain") /\ th' = th /\ pc[r] = "init_adopt" /\ o \in Objects /\ p \in Objects
       /\ info' = [info EXCEPT ![o] = rec] /\ UNCHANGED <<table, delivered, conn, ub>>
   BY <1>5, <2>a DEF InitAdopt, At, Safe, Null, env, Objects
 <2>2. /\ rec.tag = info[o].tag /\ rec.prev_tag = info[o].prev_tag
       /\ rec.next_tag = info[p].next_tag /\ rec.sent = info[o].sent
       /\ rec.valid = info[o].valid /\ rec.completed = info[o].completed /\ rec.written = info[o].written
   BY <2>1 DEF Objects, InfoType
 <2> HIDE DEF rec
 <2>3. ASSUME ~ub' PROVE Keeps /\ TagsOK'
  <3>1. TagsOK /\ ThreadOK(r) BY <2>1, <2>3, OrderParts
  <3>2. info[o].tag = info[p].tag BY <2>1, <3>1 DEF ThreadOK, InitOK, HasTag, Null, Objects
  <3>3. /\ TableOK(table') /\ ObjectOK(info[o], DeliveredTags) /\ ObjectOK(info[p], DeliveredTags)
    BY <2>1, <3>1, TagsParts DEF ObjectsOK
  <3>4. DeliveredTags' = DeliveredTags BY <2>1 DEF DeliveredTags
  <3>5. Refilled(info[o], rec) /\ ObjectOK(rec, DeliveredTags')
    BY <2>2, <3>2, <3>3, <3>4 DEF Refilled, ObjectOK
  <3>6. QED BY <2>1, <3>1, <3>3, <3>4, <3>5, HeapWritten
 <2>4. ASSUME ~ub', pc'[r] = "drain", th'[r] = th[r] PROVE ThreadOK(r)'
  <3>1. ThreadOK(r) /\ Keeps /\ ~ub BY <2>1, <2>3, <2>4, OrderParts
  <3>2. QED BY <2>1, <2>4, <3>1, DrainOK DEF Unfound, Draining
 <2>5. "drain" \notin InitSteps BY DEF InitSteps
 <2>6. QED BY <2>1, <2>3, <2>4, <2>5, NextOrder
<1>6. ASSUME DrainDone(r), pc[r] \in {"drain", "drain_clear"},
             conn' = conn, ub' = ub, ~ub => Keeps /\ TagsOK'
      PROVE  OrderInv'
 <2>1. CASE th[r].repeat # Null
  <3>1. Goto(r, "free_repeat") /\ th' = th BY <1>6, <2>1 DEF DrainDone
  <3>2. ASSUME ~ub', pc'[r] = "free_repeat", th'[r] = th[r] PROVE ThreadOK(r)'
    BY <1>6, <3>2, OrderParts, DrainOK DEF Unfound, Draining
  <3>3. "free_repeat" \notin InitSteps BY DEF InitSteps
  <3>4. QED BY <1>6, <3>1, <3>2, <3>3, NextOrder
 <2>2. CASE th[r].repeat = Null
  <3> DEFINE l == [Fresh(th[r]) EXCEPT !.new_buf = Null]
  <3>1. Goto(r, "read") /\ Locals(r, l) BY <1>6, <2>2 DEF DrainDone
  <3>2. l.new_buf = Null /\ l.repeat = Null /\ ~l.found /\ l.calls = th[r].calls BY <2>2 DEF Fresh, LocalsType
  <3> HIDE DEF l
  <3>3. ASSUME ~ub', pc'[r] = "read", th'[r] = l PROVE ThreadOK(r)' BY <1>6, <3>2, <3>3, ReadOK
  <3>4. "read" \notin InitSteps BY DEF InitSteps
  <3>5. QED BY <1>6, <3>1, <3>3, <3>4, NextOrder
 <2>3. QED BY <2>1, <2>2
<1>7. CASE DrainNothing(r) BY <1>6, <1>7, SameHeap DEF DrainNothing, At, heap, env
<1>8. ASSUME NEW s, NEW l, Goto(r, s), Locals(r, l) \/ (th' = th /\ l = th[r]),
             pc[r] \in Draining, s \in Draining \cup {"data_lookup"},
             l.found = th[r].found, l.new_buf = th[r].new_buf,
             l.repeat = th[r].repeat, l.calls = th[r].calls,
             ub => ub', UNCHANGED <<table, info, delivered, conn>>
      PROVE  OrderInv'
 <2>1. ASSUME ~ub', pc'[r] = s, th'[r] = l PROVE ThreadOK(r)' BY <1>8, <2>1, SameHeap, DrainOK DEF Unfound
 <2>2. s \notin InitSteps BY <1>8 DEF InitSteps, Draining
 <2>3. QED BY <1>8, <2>1, <2>2, SameHeap, NextOrder
<1> DEFINE Got(b, f) == [th[r] EXCEPT !.block = b, !.old_block = b, !.set = f]
           Again(b)  == [th[r] EXCEPT !.block = b]
           Begun     == [th[r] EXCEPT !.set = FALSE]
<1>b. /\ \A b, f : /\ Got(b, f).found = th[r].found
                   /\ Got(b, f).new_buf = th[r].new_buf
                   /\ Got(b, f).repeat = th[r].repeat /\ Got(b, f).calls = th[r].calls
      /\ \A b : /\ Again(b).found = th[r].found /\ Again(b).new_buf = th[r].new_buf
                /\ Again(b).repeat = th[r].repeat /\ Again(b).calls = th[r].calls
      /\ Begun.found = th[r].found /\ Begun.new_buf = th[r].new_buf
      /\ Begun.repeat = th[r].repeat /\ Begun.calls = th[r].calls
  BY DEF LocalsType
<1> HIDE DEF Got, Again, Begun
<1>9. CASE DrainBlock(r)
 <2> DEFINE b == Head(queue[info[Owner(r)].waiting_queue].blocks)
 <2>1. /\ Goto(r, "data_lookup") /\ Locals(r, Got(b, TRUE)) /\ pc[r] = "drain_take"
       /\ UNCHANGED <<table, info, delivered, conn, ub>>
   BY <1>9 DEF DrainBlock, At, env, Got
 <2> HIDE DEF b
 <2>2. PICK s, l : s = "data_lookup" /\ l = Got(b, TRUE) OBVIOUS
 <2>3. /\ l.found = th[r].found /\ l.new_buf = th[r].new_buf
       /\ l.repeat = th[r].repeat /\ l.calls = th[r].calls
   BY <1>b, <2>2
 <2>4. QED BY <1>8, <2>1, <2>2, <2>3 DEF Draining
<1>10. CASE DrainStale(r)
 <2> DEFINE b == th[r].old_block
 <2>1. pc[r] = "drain_take" /\ (ub => ub') /\ UNCHANGED <<table, info, delivered, conn>>
   BY <1>10 DEF DrainStale, At, heap
 <2>2. CASE Goto(r, "data_lookup") /\ Locals(r, Again(b)) BY <1>8, <1>b, <2>1, <2>2 DEF Draining
 <2>3. CASE ub' /\ UNCHANGED <<pc, th>> BY <2>1, <2>3 DEF OrderInv, ChainOK
 <2>4. QED BY <1>10, <2>2, <2>3 DEF DrainStale, Again
<1>c. CASE DrainLoop(r) \/ DrainMore(r) \/ DrainEmpty(r) \/ DrainFree(r)
 <2>1. /\ \/ Goto(r, "drain_test") /\ Locals(r, Begun)
          \/ Goto(r, "drain_take") /\ th' = th
          \/ Goto(r, "drain_free") /\ th' = th
          \/ Goto(r, "drain_clear") /\ th' = th
       /\ pc[r] \in Draining /\ UNCHANGED <<table, info, delivered, conn, ub>>
   BY <1>c DEF DrainLoop, DrainMore, DrainEmpty, DrainFree, At, heap, env, Draining, Begun
 <2>2. QED BY <1>8, <1>b, <2>1 DEF Draining
<1>11. CASE DrainClear(r)
 <2> DEFINE o == Owner(r)
            rec == [info[o] EXCEPT !.waiting_queue = Null]
 <2>1. o \in Objects BY <1>11, OwnerType DEF DrainClear, Objects, Draining
 <2>2. info' = [info EXCEPT ![o] = rec] BY <1>11 DEF DrainClear
 <2> HIDE DEF o
 <2>3. Alike(info[o], rec) BY <2>1 DEF Objects, InfoType, Alike
 <2> HIDE DEF rec
 <2>4. ~ub => Keeps /\ TagsOK' BY <1>11, <2>1, <2>2, <2>3, SameTags DEF DrainClear, env
 <2>5. QED BY <1>6, <1>11, <2>4 DEF DrainClear, At, env
<1>12. CASE FreeRepeat(r)
 <2> DEFINE o == th[r].repeat
            rec == [info[o] EXCEPT !.freed = TRUE]
            l == [Fresh(th[r]) EXCEPT !.new_buf = Null, !.repeat = Null]
 <2>1. /\ o \in Objects /\ info' = [info EXCEPT ![o] = rec] /\ Goto(r, "read") /\ Locals(r, l)
       /\ UNCHANGED <<table, delivered, conn, ub>>
   BY <1>12 DEF FreeRepeat, At, Safe, InfoUsed, Null, Objects, env
 <2>2. Alike(info[o], rec) BY <2>1 DEF Objects, InfoType, Alike
 <2>3. l.new_buf = Null /\ l.repeat = Null /\ ~l.found /\ l.calls = th[r].calls BY DEF Fresh, LocalsType
 <2> HIDE DEF rec, l
 <2>4. ~ub => Keeps /\ TagsOK' BY <2>1, <2>2, SameTags
 <2>5. ASSUME ~ub', pc'[r] = "read", th'[r] = l PROVE ThreadOK(r)' BY <2>1, <2>3, <2>4, <2>5, ReadOK
 <2>6. "read" \notin InitSteps BY DEF InitSteps
 <2>7. QED BY <2>1, <2>4, <2>5, <2>6, NextOrder
<1>13. QED BY <1>1, <1>2, <1>3, <1>a, <1>4, <1>5, <1>7, <1>9, <1>10, <1>c, <1>11, <1>12 DEF InitBlockStep
(* A step inside handle_block leaves the init block's frame and the callers. *)
LEMMA InitCarried ==
  ASSUME TypeOK, OrderInv, ~ub, Keeps, NEW r \in Readers,
         th'[r].new_buf = th[r].new_buf, th'[r].repeat = th[r].repeat,
         pc'[r] \notin InitSteps \cup {"read"}
  PROVE  InitOK(r)'
<1>1. /\ th[r].new_buf # Null => info'[th[r].new_buf].tag = info[th[r].new_buf].tag
      /\ th[r].repeat # Null => info'[th[r].repeat].tag = info[th[r].repeat].tag
  BY ThreadType, TagKept
<1>2. ThreadOK(r) BY OrderParts
<1>3. QED BY <1>1, <1>2 DEF ThreadOK, InitOK, HasTag, InitSteps

LEMMA DataCarried ==
  ASSUME TypeOK, OrderInv, ~ub, Keeps, NEW r \in Readers,
         th'[r].new_buf = th[r].new_buf, th'[r].repeat = th[r].repeat,
         th'[r].calls = th[r].calls,
         pc'[r] \in DataSteps, DataOK(r)'
  PROVE  ThreadOK(r)'
<1>1. FinishOK(r)' BY CallsStep DEF FinishOK, Finishing, DataSteps, CallsOK
<1>2. pc'[r] \notin InitSteps \cup {"read"} BY DEF InitSteps, DataSteps
<1>3. QED BY <1>1, <1>2, InitCarried DEF ThreadOK

(* From the copy of a block to the completion of its buffer. *)
LEMMA CountedOK ==
  ASSUME TypeOK, OrderInv, ~ub, Keeps, NEW r \in Readers, th'[r] = th[r],
         pc[r] \in {"copy", "count"}, pc'[r] \in {"count", "complete"}
  PROVE  DataOK(r)'
<1>1. ThreadOK(r) BY OrderParts
<1>2. th[r].buffer # Null /\ info'[th[r].buffer].valid BY <1>1, ThreadType, TagKept DEF ThreadOK, DataOK
<1>3. QED BY <1>1, <1>2 DEF ThreadOK, DataOK, Unfound, Draining, InitSteps, Frame, InInit

LEMMA DataOrder ==
  ASSUME TypeOK, TypeOK', OrderInv, NEW r \in Readers, DataBlockStep(r)
  PROVE  OrderInv'
<1> USE ThreadType, Sizes
<1> DEFINE b == th[r].block
<1>0. DataSteps \cap InitSteps = {} BY DEF DataSteps, InitSteps
<1>1. CASE DataLookup(r)
 <2> DEFINE o == table[b.tag]
            l == [th[r] EXCEPT !.kv[Frame(r)] = o, !.buffer = o, !.found = TRUE]
 <2>1. /\ \/ Goto(r, "check_valid") /\ Locals(r, l)
          \/ Goto(r, "data_insert") /\ th' = th
       /\ pc[r] = "data_lookup" /\ UNCHANGED <<table, info, delivered, conn, ub>>
   BY <1>1 DEF DataLookup, At, heap, env
 <2>2. /\ l.new_buf = th[r].new_buf /\ l.repeat = th[r].repeat
       /\ l.calls = th[r].calls /\ l.buffer = o /\ l.kv = [th[r].kv EXCEPT ![Frame(r)] = o]
   BY DEF LocalsType
 <2>3. l.kv[Frame(r)] = o BY <2>2 DEF Frame
 <2>4. {"check_valid", "data_insert"} \subseteq DataSteps BY DEF DataSteps
 <2> HIDE DEF l, o
 <2>5. ASSUME ~ub', pc'[r] = "check_valid", th'[r] = l PROVE ThreadOK(r)'
  <3>1. DataOK(r)' BY <2>2, <2>3, <2>5 DEF DataOK, Unfound, Draining, InitSteps, Frame, InInit
  <3>2. QED BY <2>1, <2>2, <2>4, <2>5, <3>1, SameHeap, DataCarried
 <2>6. ASSUME ~ub', pc'[r] = "data_insert", th'[r] = th[r] PROVE ThreadOK(r)'
  <3>1. ThreadOK(r) BY <2>1, <2>6, OrderParts
  <3>2. DataOK(r)' BY <2>1, <2>6, <3>1 DEF ThreadOK, DataOK, Unfound, Draining
  <3>3. QED BY <2>1, <2>4, <2>6, <3>2, SameHeap, DataCarried
 <2>7. QED BY <1>0, <2>1, <2>4, <2>5, <2>6, SameHeap, NextOrder
<1>2. CASE DataInsert(r)
 <2> DEFINE q == Len(queue) + 1
            d == Len(info) + 1
            rec == Dummy(b.tag, NO_TAG, q)
            l == [th[r] EXCEPT !.waiting_queue = q, !.dummy = d, !.buffer = table[b.tag]]
 <2>1. /\ pc[r] = "data_insert" /\ info' = Append(info, rec) /\ table' = [table EXCEPT ![b.tag] = d]
       /\ UNCHANGED <<delivered, conn, ub>>
       /\ \/ Return(r)
          \/ /\ table[b.tag] # Null
             /\ Locals(r, l) /\ Goto(r, "put_back")
   BY <1>2 DEF DataInsert, At, env
 <2>2. /\ rec.tag = b.tag /\ rec.next_tag = NO_TAG /\ rec.sent = FALSE
       /\ ~rec.completed /\ ~rec.valid /\ rec.written = {}
   BY DEF Dummy, Calloc
 <2>3. b.tag \in Tags BY <2>1, BlockType DEF DataSteps
 <2>4. /\ l.new_buf = th[r].new_buf /\ l.repeat = th[r].repeat
       /\ l.calls = th[r].calls /\ l.buffer = table[b.tag] /\ l.found = th[r].found /\ l.block = b
   BY DEF LocalsType
 <2> HIDE DEF rec, b, l, q
 <2>5. ASSUME ~ub' PROVE Keeps /\ TagsOK'
  <3>1. TagsOK /\ ObjectOK(rec, DeliveredTags) BY <2>1, <2>2, <2>3, <2>5, OrderParts DEF ObjectOK
  <3>2. QED BY <2>1, <2>2, <2>3, <3>1, HeapAllocated
 <2>6. CASE Return(r) BY <2>1, <2>5, <2>6, ReturnOrder
 <2>7. CASE table[b.tag] # Null /\ Locals(r, l) /\ Goto(r, "put_back")
  <3>1. ASSUME ~ub', pc'[r] = "put_back", th'[r] = l PROVE ThreadOK(r)'
   <4>1. ThreadOK(r) /\ Keeps /\ ~ub /\ TagsOK BY <2>1, <2>5, <3>1, OrderParts
   <4>2. info'[table[b.tag]].tag = b.tag
    <5>1. table[b.tag] \in 0 .. Len(info) /\ info[table[b.tag]].tag = b.tag
      BY <2>3, <2>7, <4>1 DEF TagsOK, HeapType, Keys
    <5>2. QED BY <2>7, <4>1, <5>1, TagKept
   <4>3. DataOK(r)' BY <2>1, <2>4, <2>7, <3>1, <4>1, <4>2 DEF ThreadOK, DataOK, Unfound, Draining, HasTag
   <4>4. "put_back" \in DataSteps BY DEF DataSteps
   <4>5. QED BY <2>4, <3>1, <4>1, <4>3, <4>4, DataCarried
  <3>2. "put_back" \notin InitSteps BY DEF InitSteps
  <3>3. QED BY <2>1, <2>5, <2>7, <3>1, <3>2, NextOrder
 <2>8. QED BY <2>1, <2>6, <2>7
<1>3. CASE PutBack(r)
 <2> DEFINE o == th[r].dummy
            rec == [info[o] EXCEPT !.freed = TRUE]
            l == [th[r] EXCEPT !.dummy = Null]
 <2>1. /\ pc[r] = "put_back" /\ o \in Objects /\ info' = [info EXCEPT ![o] = rec]
       /\ table' = [table EXCEPT ![b.tag] = th[r].buffer] /\ Locals(r, l) /\ Goto(r, "check_valid")
       /\ UNCHANGED <<delivered, conn, ub>>
   BY <1>3 DEF PutBack, At, Safe, InfoUsed, Null, Objects, env
 <2>2. Alike(info[o], rec) BY <2>1 DEF Objects, InfoType, Alike
 <2>3. b.tag \in Tags BY <2>1, BlockType DEF DataSteps
 <2>4. /\ l.new_buf = th[r].new_buf /\ l.repeat = th[r].repeat
       /\ l.calls = th[r].calls /\ l.found = th[r].found
   BY DEF LocalsType
 <2> HIDE DEF rec, l, b
 <2>5. ASSUME ~ub' PROVE Keeps /\ TagsOK'
  <3>1. TagsOK /\ ThreadOK(r) /\ DeliveredTags' = DeliveredTags BY <2>1, <2>5, OrderParts DEF DeliveredTags
  <3>2. TableOK(table) /\ ObjectOK(info[o], DeliveredTags) BY <2>1, <3>1, TagsParts DEF ObjectsOK
  <3>3. th[r].buffer \in Objects /\ info[th[r].buffer].tag = b.tag
    BY <2>1, <3>1 DEF ThreadOK, DataOK, HasTag, Null, Objects, b
  <3>4. /\ table'[NO_TAG] = table[NO_TAG]
        /\ \A t \in Tags : table'[t] = IF t = b.tag THEN th[r].buffer ELSE table[t]
    BY <2>1, <2>3 DEF HeapType, Keys, Tags, NO_TAG
  <3>5. TableOK(table') BY <3>2, <3>3, <3>4 DEF TableOK
  <3>6. Refilled(info[o], rec) /\ ObjectOK(rec, DeliveredTags') BY <2>2, <3>1, <3>2 DEF Alike, Refilled, ObjectOK
  <3>7. QED BY <2>1, <3>1, <3>5, <3>6, HeapWritten
 <2>6. ASSUME ~ub', pc'[r] = "check_valid", th'[r] = l PROVE ThreadOK(r)'
  <3>1. ThreadOK(r) /\ Keeps /\ ~ub BY <2>1, <2>5, <2>6, OrderParts
  <3>2. DataOK(r)' BY <2>1, <2>4, <2>6, <3>1 DEF ThreadOK, DataOK, Unfound, Draining
  <3>3. "check_valid" \in DataSteps BY DEF DataSteps
  <3>4. QED BY <2>4, <2>6, <3>1, <3>2, <3>3, DataCarried
 <2>7. "check_valid" \notin InitSteps BY DEF InitSteps
 <2>8. QED BY <2>1, <2>5, <2>6, <2>7, NextOrder
<1>4. CASE CheckValid(r)
 <2> DEFINE l == [th[r] EXCEPT !.waiting_queue = Null]
 <2>1. /\ pc[r] = "check_valid" /\ th[r].buffer # Null
       /\ \/ info[th[r].buffer].valid /\ Locals(r, l) /\ Goto(r, "copy")
          \/ Goto(r, "park") /\ th' = th
       /\ UNCHANGED <<table, info, delivered, conn, ub>>
   BY <1>4 DEF CheckValid, At, Safe, InfoUsed, env
 <2>2. /\ l.new_buf = th[r].new_buf /\ l.repeat = th[r].repeat
       /\ l.calls = th[r].calls /\ l.buffer = th[r].buffer
       /\ l.kv = th[r].kv /\ l.found = th[r].found
   BY DEF LocalsType
 <2> HIDE DEF l
 <2>3. {"copy", "park"} \subseteq DataSteps BY DEF DataSteps
 <2>4. ASSUME ~ub', pc'[r] = "copy", th'[r] = l, info[th[r].buffer].valid PROVE ThreadOK(r)'
  <3>1. ThreadOK(r) BY <2>1, <2>4, OrderParts
  <3>2. DataOK(r)' BY <2>1, <2>2, <2>4, <3>1 DEF ThreadOK, DataOK, Unfound, Draining, InitSteps, Frame, InInit
  <3>3. QED BY <2>1, <2>2, <2>3, <2>4, <3>2, SameHeap, DataCarried
 <2>5. ASSUME ~ub', pc'[r] = "park", th'[r] = th[r] PROVE ThreadOK(r)'
  <3>1. ThreadOK(r) BY <2>1, <2>5, OrderParts
  <3>2. DataOK(r)' BY <2>5, <3>1 DEF ThreadOK, DataOK, Unfound, Draining, InitSteps, Frame, InInit
  <3>3. QED BY <2>1, <2>3, <2>5, <3>2, SameHeap, DataCarried
 <2>6. QED BY <1>0, <2>1, <2>3, <2>4, <2>5, SameHeap, NextOrder
<1>5. CASE Park(r)
 <2> DEFINE s == IF info[th[r].buffer].waiting_queue = Null THEN "attach" ELSE "enqueue"
 <2>1. /\ Goto(r, s) /\ th' = th /\ UNCHANGED <<table, info, delivered, conn, ub>>
   BY <1>5 DEF Park, heap, env
 <2>2. s \in DataSteps /\ s \in {"attach", "enqueue"} BY DEF DataSteps
 <2> HIDE DEF s
 <2>3. ASSUME ~ub', pc'[r] = s, th'[r] = th[r] PROVE ThreadOK(r)'
  <3>1. ThreadOK(r) BY <2>1, <2>3, OrderParts
  <3>2. DataOK(r)' BY <2>2, <2>3, <3>1 DEF ThreadOK, DataOK, Unfound, Draining, InitSteps, Frame, InInit
  <3>3. QED BY <2>1, <2>2, <2>3, <3>2, SameHeap, DataCarried
 <2>4. QED BY <1>0, <2>1, <2>2, <2>3, SameHeap, NextOrder
<1>6. CASE Attach(r)
 <2> DEFINE o == th[r].buffer
 <2>1. /\ pc[r] = "attach" /\ o \in Objects /\ UNCHANGED <<table, delivered, conn, ub>>
       /\ Return(r) \/ (Goto(r, "enqueue") /\ th' = th)
   BY <1>6 DEF Attach, At, Safe, InfoUsed, Null, Objects, env
 <2>2. PICK w : info' = [info EXCEPT ![o] = [info[o] EXCEPT !.waiting_queue = w]] BY <1>6 DEF Attach
 <2> DEFINE rec == [info[o] EXCEPT !.waiting_queue = w]
 <2>3. Alike(info[o], rec) BY <2>1 DEF Objects, InfoType, Alike
 <2> HIDE DEF rec
 <2>4. ~ub => Keeps /\ TagsOK'
  <3>1. info' = [info EXCEPT ![o] = rec] BY <2>2 DEF rec
  <3>2. QED BY <2>1, <2>3, <3>1, SameTags
 <2>5. CASE Return(r) BY <2>1, <2>4, <2>5, ReturnOrder
 <2>6. CASE Goto(r, "enqueue") /\ th' = th
  <3>1. "enqueue" \in DataSteps BY DEF DataSteps
  <3>2. ASSUME ~ub', pc'[r] = "enqueue", th'[r] = th[r] PROVE ThreadOK(r)'
   <4>1. ThreadOK(r) BY <2>1, <3>2, OrderParts
   <4>2. DataOK(r)' BY <3>2, <4>1 DEF ThreadOK, DataOK, Unfound, Draining, InitSteps, Frame, InInit
   <4>3. QED BY <2>1, <2>4, <3>1, <3>2, <4>2, DataCarried
  <3>3. QED BY <1>0, <2>1, <2>4, <2>6, <3>1, <3>2, NextOrder
 <2>7. QED BY <2>1, <2>5, <2>6
<1>7. CASE Enqueue(r) BY <1>7, SameHeap, ReturnOrder DEF Enqueue, env
<1>8. CASE Copy(r)
 <2> DEFINE o == th[r].buffer
            v == info[o].written \cup {b.seq_number}
            rec == [info[o] EXCEPT !.written = v]
 <2>1. /\ pc[r] = "copy" /\ o \in Objects /\ info' = [info EXCEPT ![o] = rec]
       /\ Goto(r, "count") /\ th' = th /\ UNCHANGED <<table, delivered, conn, ub>>
   BY <1>8 DEF Copy, At, Safe, InfoUsed, Null, Objects, env
 <2> HIDE DEF v
 <2>2. ~ub => Alike(info[o], rec) BY <2>1, OrderParts DEF Objects, InfoType, Alike, ThreadOK, DataOK
 <2> HIDE DEF rec
 <2>3. ~ub => Keeps /\ TagsOK' BY <2>1, <2>2, SameTags
 <2>4. "count" \in DataSteps BY DEF DataSteps
 <2>5. ASSUME ~ub', pc'[r] = "count", th'[r] = th[r] PROVE ThreadOK(r)'
   BY <2>1, <2>3, <2>4, <2>5, CountedOK, DataCarried
 <2>6. QED BY <1>0, <2>1, <2>3, <2>4, <2>5, NextOrder
<1>9. CASE Count(r)
 <2> DEFINE o == th[r].buffer
            v == info[o].n_written + 1
            rec == [info[o] EXCEPT !.n_written = v]
 <2>1. /\ pc[r] = "count" /\ o \in Objects /\ info' = [info EXCEPT ![o] = rec]
       /\ Return(r) \/ (Goto(r, "complete") /\ th' = th)
       /\ UNCHANGED <<table, delivered, conn, ub>>
   BY <1>9 DEF Count, At, Safe, InfoUsed, Null, Objects, env
 <2> HIDE DEF v
 <2>2. Alike(info[o], rec) BY <2>1 DEF Objects, InfoType, Alike
 <2> HIDE DEF rec
 <2>3. ~ub => Keeps /\ TagsOK' BY <2>1, <2>2, SameTags
 <2>4. CASE Return(r) BY <2>1, <2>3, <2>4, ReturnOrder
 <2>5. CASE Goto(r, "complete") /\ th' = th
  <3>1. "complete" \in DataSteps BY DEF DataSteps
  <3>2. ASSUME ~ub', pc'[r] = "complete", th'[r] = th[r] PROVE ThreadOK(r)'
    BY <2>1, <2>3, <3>1, <3>2, CountedOK, DataCarried
  <3>3. QED BY <1>0, <2>1, <2>3, <2>5, <3>1, <3>2, NextOrder
 <2>6. QED BY <2>1, <2>4, <2>5
<1>10. CASE Complete(r)
 <2> DEFINE o == th[r].buffer
            rec == [info[o] EXCEPT !.completed = TRUE]
 <2>1. /\ pc[r] = "complete" /\ o \in Objects /\ info' = [info EXCEPT ![o] = rec]
       /\ Goto(r, "prev_lookup") /\ ub' = (ub \/ ~th[r].found)
       /\ UNCHANGED <<table, delivered, conn>>
   BY <1>10 DEF Complete, At, Safe, InfoUsed, Null, Objects
 <2>2. PICK kv \in {th[r].kv[Frame(r)]} \cup (IF th[r].found THEN {} ELSE {Null}) :
         Locals(r, [th[r] EXCEPT !.done = kv])
   BY <1>10 DEF Complete
 <2> DEFINE l == [th[r] EXCEPT !.done = kv]
 <2>3. /\ rec.tag = info[o].tag /\ rec.prev_tag = info[o].prev_tag
       /\ rec.written = info[o].written /\ rec.next_tag = info[o].next_tag /\ rec.sent = info[o].sent /\ rec.valid = info[o].valid
   BY <2>1 DEF Objects, InfoType
 <2>4. Framed(l, th[r]) /\ l.calls = th[r].calls /\ l.done = kv BY DEF LocalsType, Framed
 <2>a. Locals(r, l) BY <2>2
 <2> HIDE DEF rec, l
 <2>5. ASSUME ~ub' PROVE /\ ~ub /\ ThreadOK(r) /\ th[r].found /\ kv = o /\ info[o].valid
  <3>1. ~ub /\ th[r].found BY <2>1, <2>5
  <3>2. ThreadOK(r) BY <3>1, OrderParts
  <3>3. QED BY <2>1, <2>2, <3>1, <3>2 DEF ThreadOK, DataOK
 <2>6. ASSUME ~ub' PROVE Keeps /\ TagsOK'
  <3>1. TagsOK /\ DeliveredTags' = DeliveredTags BY <2>1, <2>5, <2>6, OrderParts DEF DeliveredTags
  <3>2. TableOK(table') /\ ObjectOK(info[o], DeliveredTags) BY <2>1, <3>1, TagsParts DEF ObjectsOK
  <3>3. Refilled(info[o], rec) /\ ObjectOK(rec, DeliveredTags')
    BY <2>3, <2>5, <2>6, <3>1, <3>2 DEF Refilled, ObjectOK
  <3>4. QED BY <2>1, <3>1, <3>2, <3>3, HeapWritten
 <2>7. ASSUME ~ub', pc'[r] = "prev_lookup", th'[r] = l PROVE ThreadOK(r)'
  <3>1. Keeps /\ ~ub /\ o # Null /\ info'[o].valid BY <2>1, <2>5, <2>6, <2>7, TagKept DEF Objects, Null
  <3>2. InitOK(r)' BY <2>4, <2>7, <3>1, InitCarried DEF InitSteps, Framed
  <3>3. DataOK(r)' BY <2>4, <2>5, <2>7 DEF Framed, ThreadOK, DataOK, Unfound, Draining, InitSteps, Frame, InInit
  <3>4. FinishOK(r)' BY <2>4, <2>5, <2>7, <3>1, CallsStep DEF FinishOK, CallsOK
  <3>5. QED BY <3>2, <3>3, <3>4 DEF ThreadOK
 <2>8. "prev_lookup" \notin InitSteps BY DEF InitSteps
 <2>9. QED BY <2>1, <2>6, <2>7, <2>8, <2>a, NextOrder
<1>11. QED BY <1>1, <1>2, <1>3, <1>4, <1>5, <1>6, <1>7, <1>8, <1>9, <1>10 DEF DataBlockStep

LEMMA FinishCarried ==
  ASSUME TypeOK, OrderInv, ~ub, Keeps, NEW r \in Readers,
         Framed(th'[r], th[r]), pc'[r] \in FinishSteps, FinishOK(r)'
  PROVE  ThreadOK(r)'
<1> USE DEF Framed
<1>1. InitOK(r)' BY InitCarried DEF FinishSteps, InitSteps
<1>2. ThreadOK(r) BY OrderParts
<1>3. DataOK(r)' BY <1>2 DEF ThreadOK, DataOK, FinishSteps, Unfound, Draining, InitSteps, Frame, InInit
<1>4. QED BY <1>1, <1>3 DEF ThreadOK

LEMMA PrevOrder ==
  ASSUME TypeOK, TypeOK', OrderInv, NEW r \in Readers,
         \/ PrevLookup(r) \/ PrevInsert(r) \/ PrevPutBack(r)
         \/ PrevSent(r) \/ SetNext(r) \/ FreePrev(r)
  PROVE  OrderInv'
<1> USE ThreadType, Sizes
<1> DEFINE d == th[r].done
           p == info[d].prev_tag
<1>0. FinishSteps \cap InitSteps = {} BY DEF FinishSteps, InitSteps
<1>1. CASE PrevLookup(r)
 <2> DEFINE l == [th[r] EXCEPT !.prev = table[p]]
 <2>1. /\ pc[r] = "prev_lookup" /\ d \in Objects
       /\ \/ p = NO_TAG /\ Goto(r, "deliver") /\ th' = th
          \/ p # NO_TAG /\ Goto(r, "prev_insert") /\ th' = th
          \/ p # NO_TAG /\ table[p] # Null /\ Goto(r, "prev_sent") /\ Locals(r, l)
       /\ UNCHANGED <<table, info, delivered, conn, ub>>
   BY <1>1 DEF PrevLookup, At, Safe, InfoUsed, Null, Objects, heap, env
 <2>2. Framed(l, th[r]) /\ l.calls = th[r].calls /\ l.prev = table[p] /\ l.done = d BY DEF LocalsType, Framed
 <2>3. p \in Keys BY <2>1 DEF Objects, InfoType
 <2> HIDE DEF l
 <2>4. ASSUME ~ub' PROVE /\ ~ub /\ Keeps /\ TagsOK /\ d # Null
                         /\ info[d].valid /\ info[d].tag = p + 1
  <3>1. ~ub /\ Keeps /\ TagsOK /\ ThreadOK(r) BY <2>1, <2>4, OrderParts, SameHeap
  <3>2. info[d].valid /\ d # Null BY <2>1, <3>1 DEF ThreadOK, FinishOK, Finishing
  <3>3. info[d].tag \in Int /\ info[d].prev_tag = info[d].tag - 1
    BY <2>1, <3>1, <3>2 DEF TagsOK, Objects, InfoType, Keys, Tags, NO_TAG
  <3>4. QED BY <3>1, <3>2, <3>3
 <2>5. {"deliver", "prev_insert", "prev_sent"} \subseteq FinishSteps BY DEF FinishSteps
 <2>6. ASSUME ~ub', pc'[r] = "deliver", th'[r] = th[r], p = NO_TAG PROVE ThreadOK(r)'
  <3>1. FinishOK(r)' BY <2>1, <2>4, <2>6, CallsStep DEF FinishOK, NO_TAG, CallsOK
  <3>2. QED BY <2>4, <2>5, <2>6, <3>1, FinishCarried DEF Framed
 <2>7. ASSUME ~ub', pc'[r] = "prev_insert", th'[r] = th[r], p # NO_TAG PROVE ThreadOK(r)'
  <3>1. FinishOK(r)' BY <2>1, <2>4, <2>7, CallsStep DEF FinishOK, CallsOK
  <3>2. QED BY <2>4, <2>5, <2>7, <3>1, FinishCarried DEF Framed
 <2>8. ASSUME ~ub', pc'[r] = "prev_sent", th'[r] = l, p # NO_TAG, table[p] # Null
       PROVE  ThreadOK(r)'
  <3>1. info[table[p]].tag = p BY <2>3, <2>4, <2>8 DEF TagsOK, Keys
  <3>2. FinishOK(r)' BY <2>1, <2>2, <2>4, <2>8, <3>1, CallsStep DEF FinishOK, HasTag, CallsOK
  <3>3. QED BY <2>2, <2>4, <2>5, <2>8, <3>2, FinishCarried DEF Framed
 <2>9. QED BY <1>0, <2>1, <2>5, <2>6, <2>7, <2>8, SameHeap, NextOrder
<1>2. CASE PrevInsert(r)
 <2> DEFINE n == Len(info) + 1
            rec == Dummy(p, info[d].tag, Null)
            l == [th[r] EXCEPT !.prev = n]
            m == [th[r] EXCEPT !.prev = table[p], !.dummy = n]
 <2>1. /\ pc[r] = "prev_insert" /\ d \in Objects /\ info' = Append(info, rec)
       /\ table' = [table EXCEPT ![p] = n]
       /\ \/ Locals(r, l) /\ Goto(r, "prev_sent")
          \/ table[p] # Null /\ Locals(r, m) /\ Goto(r, "prev_put_back")
       /\ UNCHANGED <<delivered, conn, ub>>
   BY <1>2 DEF PrevInsert, At, Safe, InfoUsed, Null, Objects, env
 <2>2. Framed(l, th[r]) /\ l.calls = th[r].calls /\ l.prev = n /\ l.done = d BY DEF LocalsType, Framed
 <2>3. Framed(m, th[r]) /\ m.calls = th[r].calls /\ m.prev = table[p] /\ m.done = d /\ m.dummy = n BY DEF LocalsType, Framed
 <2>4. /\ rec.tag = p /\ rec.next_tag = info[d].tag /\ rec.sent = FALSE
       /\ ~rec.completed /\ ~rec.valid /\ rec.written = {}
   BY DEF Dummy, Calloc
 <2> HIDE DEF rec, l, m
 <2>5. ASSUME ~ub' PROVE /\ ~ub /\ TagsOK /\ d # Null /\ info[d].valid
                         /\ p \in Tags /\ info[d].tag = p + 1 /\ p # NO_TAG
  <3>1. ~ub /\ TagsOK /\ ThreadOK(r) BY <2>1, <2>5, OrderParts
  <3>2. info[d].valid /\ d # Null /\ p # NO_TAG BY <2>1, <3>1 DEF ThreadOK, FinishOK, Finishing
  <3>3. info[d].tag \in Int /\ p = info[d].tag - 1 /\ p \in Tags
    BY <2>1, <3>1, <3>2 DEF TagsOK, Objects, InfoType, Keys, Tags, NO_TAG
  <3>4. QED BY <3>1, <3>2, <3>3
 <2>6. ASSUME ~ub' PROVE Keeps /\ TagsOK'
  <3>1. ObjectOK(rec, DeliveredTags) BY <2>4, <2>5, <2>6 DEF ObjectOK
  <3>2. QED BY <2>1, <2>4, <2>5, <2>6, <3>1, HeapAllocated
 <2>7. /\ info'[n] = rec /\ info'[d] = info[d] BY <2>1 DEF Objects
 <2>8. {"prev_put_back", "prev_sent"} \subseteq FinishSteps BY DEF FinishSteps
 <2>9. ASSUME ~ub', pc'[r] = "prev_sent", th'[r] = l PROVE ThreadOK(r)'
  <3>1. /\ th'[r].done = d /\ d # Null /\ info'[d].valid /\ info'[d].prev_tag = p
        /\ p # NO_TAG /\ th'[r].prev = n /\ n # Null /\ info'[n].tag = p
    BY <2>2, <2>4, <2>5, <2>7, <2>9 DEF Null
  <3>2. CallsOK(r)' BY <2>2, <2>5, <2>6, <2>9, CallsStep
  <3> HIDE DEF n, d, p
  <3>3. FinishOK(r)' BY <2>9, <3>1, <3>2 DEF FinishOK, HasTag, CallsOK
  <3>4. QED BY <2>2, <2>5, <2>6, <2>8, <2>9, <3>3, FinishCarried DEF Framed
 <2>10. ASSUME ~ub', pc'[r] = "prev_put_back", th'[r] = m, table[p] # Null
        PROVE  ThreadOK(r)'
  <3>1. info[table[p]].tag = p /\ table[p] \in 0 .. Len(info) BY <2>5, <2>10 DEF TagsOK, HeapType, Keys
  <3>2. info'[table[p]].tag = p BY <2>6, <2>10, <3>1, TagKept
  <3>3. /\ th'[r].done = d /\ d # Null /\ info'[d].valid /\ info'[d].prev_tag = p
        /\ p # NO_TAG /\ th'[r].prev = table[p] /\ th'[r].dummy = n /\ n # Null /\ info'[n].tag = p
    BY <2>3, <2>4, <2>5, <2>7, <2>10 DEF Null
  <3>4. CallsOK(r)' BY <2>3, <2>5, <2>6, <2>10, CallsStep
  <3> HIDE DEF n, d, p
  <3>5. FinishOK(r)' BY <2>10, <3>2, <3>3, <3>4 DEF FinishOK, HasTag, CallsOK
  <3>6. QED BY <2>3, <2>5, <2>6, <2>8, <2>10, <3>5, FinishCarried DEF Framed
 <2>11. QED BY <1>0, <2>1, <2>6, <2>8, <2>9, <2>10, NextOrder
<1>3. CASE PrevPutBack(r)
 <2> DEFINE o == th[r].dummy
            rec == [info[o] EXCEPT !.freed = TRUE]
            l == [th[r] EXCEPT !.dummy = Null]
 <2>1. /\ pc[r] = "prev_put_back" /\ o \in Objects /\ info' = [info EXCEPT ![o] = rec]
       /\ table' = [table EXCEPT ![info[o].tag] = th[r].prev]
       /\ Locals(r, l) /\ Goto(r, "prev_sent") /\ UNCHANGED <<delivered, conn, ub>>
   BY <1>3 DEF PrevPutBack, At, Safe, InfoUsed, Null, Objects, env
 <2>2. Alike(info[o], rec) /\ info[o].tag \in Keys BY <2>1 DEF Objects, InfoType, Alike
 <2>3. Framed(l, th[r]) /\ l.calls = th[r].calls /\ l.prev = th[r].prev /\ l.done = d BY DEF LocalsType, Framed
 <2> HIDE DEF rec, l
 <2>4. ASSUME ~ub' PROVE /\ ~ub /\ TagsOK /\ d # Null /\ info[d].valid
                         /\ th[r].prev \in Objects /\ info[th[r].prev].tag = info[o].tag
                         /\ info[o].tag = p /\ p # NO_TAG /\ p \in Tags
  <3>1. ~ub /\ TagsOK /\ ThreadOK(r) BY <2>1, <2>4, OrderParts
  <3>2. d # Null /\ info[d].valid /\ p # NO_TAG /\ HasTag(th[r].prev, info[o].tag)
        /\ HasTag(th[r].prev, p)
    BY <2>1, <3>1 DEF ThreadOK, FinishOK, Finishing
  <3>3. QED BY <2>2, <3>1, <3>2 DEF HasTag, Null, Objects, Keys
 <2>5. ASSUME ~ub' PROVE Keeps /\ TagsOK'
  <3>1. DeliveredTags' = DeliveredTags BY <2>1 DEF DeliveredTags
  <3>2. TableOK(table) /\ ObjectOK(info[o], DeliveredTags) BY <2>1, <2>4, <2>5, TagsParts DEF ObjectsOK
  <3>3. /\ table'[NO_TAG] = table[NO_TAG]
        /\ \A t \in Tags : table'[t] = IF t = p THEN th[r].prev ELSE table[t]
    BY <2>1, <2>4, <2>5 DEF HeapType, Keys, Tags, NO_TAG
  <3>4. TableOK(table') BY <2>4, <2>5, <3>2, <3>3 DEF TableOK
  <3>5. Refilled(info[o], rec) /\ ObjectOK(rec, DeliveredTags') BY <2>2, <3>1, <3>2 DEF Alike, Refilled, ObjectOK
  <3>6. QED BY <2>1, <2>4, <2>5, <3>1, <3>4, <3>5, HeapWritten
 <2>6. "prev_sent" \in FinishSteps BY DEF FinishSteps
 <2>7. ASSUME ~ub', pc'[r] = "prev_sent", th'[r] = l PROVE ThreadOK(r)'
  <3>1. /\ info'[d].valid /\ info'[d].prev_tag = p /\ info'[th[r].prev].tag = p
    BY <2>4, <2>5, <2>7, TagKept DEF Objects, Null
  <3>2. /\ th'[r].done = d /\ d # Null /\ p # NO_TAG
        /\ th'[r].prev = th[r].prev /\ th[r].prev # Null
    BY <2>3, <2>4, <2>7 DEF Null, Objects
  <3>3. CallsOK(r)' BY <2>3, <2>4, <2>5, <2>7, CallsStep
  <3> HIDE DEF d, p
  <3>4. FinishOK(r)' BY <2>7, <3>1, <3>2, <3>3 DEF FinishOK, HasTag, CallsOK
  <3>5. QED BY <2>3, <2>4, <2>5, <2>6, <2>7, <3>4, FinishCarried DEF Framed
 <2>8. QED BY <1>0, <2>1, <2>5, <2>6, <2>7, NextOrder
<1>4. CASE PrevSent(r)
 <2> DEFINE q == th[r].prev
            s == IF info[q].sent THEN "free_prev" ELSE "set_next"
 <2>1. /\ pc[r] = "prev_sent" /\ q \in Objects /\ Goto(r, s) /\ th' = th
       /\ UNCHANGED <<table, info, delivered, conn, ub>>
   BY <1>4 DEF PrevSent, At, Safe, InfoUsed, Null, Objects, heap, env
 <2>2. s \in FinishSteps BY DEF FinishSteps
 <2>3. ASSUME ~ub', pc'[r] = s, th'[r] = th[r] PROVE ThreadOK(r)'
  <3>1. ~ub /\ TagsOK /\ ThreadOK(r) /\ Keeps BY <2>1, <2>3, OrderParts, SameHeap
  <3>2. /\ d # Null /\ info[d].valid /\ p # NO_TAG /\ HasTag(q, p)
    BY <2>1, <3>1 DEF ThreadOK, FinishOK, Finishing
  <3>3. info[q].sent => p \in DeliveredTags BY <2>1, <3>1, <3>2 DEF TagsOK, HasTag
  <3>4. CallsOK(r)' BY <2>1, <2>3, <3>1, CallsStep
  <3>5. DeliveredTags' = DeliveredTags BY <2>1 DEF DeliveredTags
  <3>6. FinishOK(r)' BY <2>1, <2>3, <3>2, <3>3, <3>4, <3>5 DEF FinishOK, HasTag, CallsOK
  <3>7. QED BY <2>2, <2>3, <3>1, <3>6, FinishCarried DEF Framed
 <2>4. QED BY <1>0, <2>1, <2>2, <2>3, SameHeap, NextOrder
<1>5. CASE SetNext(r)
 <2> DEFINE o == th[r].prev
            n == info[d].tag
            rec == [info[o] EXCEPT !.next_tag = n]
 <2>a. InfoUsed(r) = {o, d} BY <1>5 DEF SetNext, At, InfoUsed
 <2>1. /\ pc[r] = "set_next" /\ o \in Objects /\ d \in Objects
       /\ info' = [info EXCEPT ![o] = rec] /\ Return(r) /\ UNCHANGED <<table, delivered, conn, ub>>
   BY <1>5, <2>a DEF SetNext, At, Safe, Null, Objects, env
 <2> HIDE DEF n
 <2>2. /\ rec.tag = info[o].tag /\ rec.prev_tag = info[o].prev_tag
       /\ rec.next_tag = n /\ rec.sent = info[o].sent
       /\ rec.valid = info[o].valid /\ rec.completed = info[o].completed /\ rec.written = info[o].written
   BY <2>1 DEF Objects, InfoType
 <2> HIDE DEF rec
 <2>3. ASSUME ~ub' PROVE Keeps /\ TagsOK'
  <3>1. TagsOK /\ ThreadOK(r) /\ DeliveredTags' = DeliveredTags BY <2>1, <2>3, OrderParts DEF DeliveredTags
  <3>2. info[d].valid /\ info[o].tag = p BY <2>1, <3>1 DEF ThreadOK, FinishOK, Finishing, HasTag
  <3>3. info[d].tag \in Int /\ p = info[d].tag - 1
    BY <2>1, <3>1, <3>2 DEF TagsOK, Objects, InfoType, Keys, Tags, NO_TAG
  <3>4. n = info[o].tag + 1 BY <3>2, <3>3 DEF n
  <3>5. TableOK(table') /\ ObjectOK(info[o], DeliveredTags) BY <2>1, <3>1, TagsParts DEF ObjectsOK
  <3>6. Refilled(info[o], rec) /\ ObjectOK(rec, DeliveredTags')
    BY <2>2, <3>1, <3>4, <3>5 DEF Refilled, ObjectOK
  <3>7. QED BY <2>1, <3>1, <3>5, <3>6, HeapWritten
 <2>4. QED BY <2>1, <2>3, ReturnOrder
<1>6. CASE FreePrev(r)
 <2> DEFINE o == th[r].prev
            rec == [info[o] EXCEPT !.freed = TRUE]
 <2>a. InfoUsed(r) = {o, d} BY <1>6 DEF FreePrev, At, InfoUsed
 <2>1. /\ pc[r] = "free_prev" /\ o \in Objects /\ d \in Objects /\ info' = [info EXCEPT ![o] = rec]
       /\ table' = [table EXCEPT ![p] = Null] /\ Goto(r, "deliver") /\ th' = th
       /\ UNCHANGED <<delivered, conn, ub>>
   BY <1>6, <2>a DEF FreePrev, At, Safe, Null, Objects, env
 <2>2. Alike(info[o], rec) BY <2>1 DEF Objects, InfoType, Alike
 <2> HIDE DEF rec
 <2>3. ASSUME ~ub' PROVE Keeps /\ TagsOK'
  <3>1. TagsOK /\ DeliveredTags' = DeliveredTags BY <2>1, <2>3, OrderParts DEF DeliveredTags
  <3>2. TableOK(table) /\ ObjectOK(info[o], DeliveredTags) BY <2>1, <3>1, TagsParts DEF ObjectsOK
  <3>3. TableOK(table')
   <4>1. \A t \in Keys : table'[t] = table[t] \/ table'[t] = Null BY <2>1 DEF HeapType
   <4>2. QED BY <3>2, <4>1 DEF TableOK, Keys
  <3>4. Refilled(info[o], rec) /\ ObjectOK(rec, DeliveredTags') BY <2>2, <3>1, <3>2 DEF Alike, Refilled, ObjectOK
  <3>5. QED BY <2>1, <3>1, <3>3, <3>4, HeapWritten
 <2>4. "deliver" \in FinishSteps BY DEF FinishSteps
 <2>5. ASSUME ~ub', pc'[r] = "deliver", th'[r] = th[r] PROVE ThreadOK(r)'
  <3>1. ~ub /\ TagsOK /\ ThreadOK(r) /\ Keeps BY <2>1, <2>3, <2>5, OrderParts
  <3>2. d # Null /\ info[d].valid /\ p \in DeliveredTags BY <2>1, <3>1 DEF ThreadOK, FinishOK, Finishing
  <3>3. /\ info'[d].valid /\ info'[d].tag = info[d].tag
        /\ p = info[d].tag - 1 /\ p \in DeliveredTags'
    BY <2>1, <3>1, <3>2, TagKept DEF TagsOK, Keeps
  <3>4. CallsOK(r)' BY <2>1, <2>5, <3>1, CallsStep
  <3>5. FinishOK(r)' BY <2>5, <3>2, <3>3, <3>4 DEF FinishOK, CallsOK
  <3>6. QED BY <2>4, <2>5, <3>1, <3>5, FinishCarried DEF Framed
 <2>6. QED BY <1>0, <2>1, <2>3, <2>4, <2>5, NextOrder
<1>7. QED BY <1>1, <1>2, <1>3, <1>4, <1>5, <1>6

(* The tag after d's has a delivered predecessor once d's is delivered. *)
LEMMA TagBefore ==
  ASSUME TypeOK, NEW o \in Objects, NEW t, t = info[o].tag + 1, info[o].tag \in DeliveredTags'
  PROVE  t - 1 \in DeliveredTags'
<1>1. info[o] \in InfoType(Len(queue)) BY DEF TypeOK, Objects
<1>2. info[o].tag \in Keys BY <1>1 DEF InfoType
<1>3. info[o].tag \in Int BY <1>2, Sizes DEF Keys, Tags, NO_TAG
<1>4. t - 1 = info[o].tag BY <1>3
<1>5. QED BY <1>4

LEMMA NextBufferOrder ==
  ASSUME TypeOK, TypeOK', OrderInv, NEW r \in Readers,
         \/ CallHandler(r) \/ HandlerReturns(r) \/ NextLookup(r)
         \/ NextCompleted(r) \/ DoneRemove(r) \/ Zombie(r)
  PROVE  OrderInv'
<1> USE ThreadType, Sizes
<1> DEFINE d == th[r].done
<1>0. FinishSteps \cap InitSteps = {} BY DEF FinishSteps, InitSteps
<1>1. CASE CallHandler(r)
 <2>1. /\ pc[r] = "deliver" /\ Goto(r, "in_handler") /\ th' = th
       /\ UNCHANGED <<table, info, delivered, conn, ub>>
   BY <1>1 DEF CallHandler, At, heap, env
 <2>2. "in_handler" \in FinishSteps BY DEF FinishSteps
 <2>3. ASSUME ~ub', pc'[r] = "in_handler", th'[r] = th[r] PROVE ThreadOK(r)'
  <3>1. ~ub /\ ThreadOK(r) /\ Keeps BY <2>1, <2>3, OrderParts, SameHeap
  <3>2. DeliveredTags' = DeliveredTags BY <2>1 DEF DeliveredTags
  <3>3. FinishOK(r)' BY <2>1, <2>3, <3>1, <3>2 DEF ThreadOK, FinishOK, Finishing
  <3>4. QED BY <2>2, <2>3, <3>1, <3>3, FinishCarried DEF Framed
 <2>4. QED BY <1>0, <2>1, <2>2, <2>3, SameHeap, NextOrder
<1>2. CASE HandlerReturns(r)
 <2> DEFINE v == IF info[d].buffer = "null" THEN info[d].buffer ELSE "freed"
            rec == [info[d] EXCEPT !.buffer = v]
            e == [tag |-> info[d].tag, blocks |-> info[d].written]
 <2>1. /\ pc[r] = "in_handler" /\ d \in Objects /\ info' = [info EXCEPT ![d] = rec]
       /\ delivered' = Append(delivered, e) /\ Goto(r, "next_lookup") /\ th' = th
       /\ UNCHANGED <<table, conn, ub>>
   BY <1>2 DEF HandlerReturns, At, Safe, InfoUsed, Null, Objects
 <2> HIDE DEF v
 <2>2. Alike(info[d], rec) BY <2>1 DEF Objects, InfoType, Alike
 <2>a. e.tag = info[d].tag OBVIOUS
 <2> HIDE DEF e
 <2>3. DeliveredTags' = DeliveredTags \cup {info[d].tag} BY <2>1, <2>a, DeliveredGrows
 <2> HIDE DEF rec
 <2>4. ASSUME ~ub' PROVE Keeps /\ TagsOK'
  <3>1. TagsOK BY <2>1, <2>4, OrderParts
  <3>2. TableOK(table') /\ ObjectOK(info[d], DeliveredTags) BY <2>1, <3>1, TagsParts DEF ObjectsOK
  <3>3. Refilled(info[d], rec) /\ ObjectOK(rec, DeliveredTags') BY <2>2, <2>3, <3>2 DEF Alike, Refilled, ObjectOK
  <3>4. QED BY <2>1, <2>3, <3>1, <3>2, <3>3, HeapWritten
 <2>5. "next_lookup" \in FinishSteps BY DEF FinishSteps
 <2>6. ASSUME ~ub', pc'[r] = "next_lookup", th'[r] = th[r] PROVE ThreadOK(r)'
  <3>1. ~ub /\ Keeps BY <2>1, <2>4, <2>6
  <3>2. d # Null /\ info'[d].tag \in DeliveredTags' BY <2>1, <2>3, <3>1, TagKept DEF Objects, Null
  <3>3. FinishOK(r)' BY <2>6, <3>1, <3>2, CallsStep DEF FinishOK, Finishing, CallsOK
  <3>4. QED BY <2>5, <2>6, <3>1, <3>3, FinishCarried DEF Framed
 <2>7. QED BY <1>0, <2>1, <2>4, <2>5, <2>6, NextOrder
<1>3. CASE NextLookup(r)
 <2> DEFINE n == IF info[d].last_block THEN Null ELSE table[info[d].next_tag]
            l == [th[r] EXCEPT !.next = n]
 <2>1. /\ pc[r] = "next_lookup" /\ d \in Objects
       /\ \/ Goto(r, "zombie") /\ th' = th
          \/ n # Null /\ Goto(r, "next_completed") /\ Locals(r, l)
       /\ UNCHANGED <<table, info, delivered, conn, ub>>
   BY <1>3 DEF NextLookup, At, Safe, InfoUsed, Null, Objects, heap, env
 <2>2. Framed(l, th[r]) /\ l.calls = th[r].calls /\ l.next = n /\ l.done = d BY DEF LocalsType, Framed
 <2> HIDE DEF l
 <2>3. {"zombie", "next_completed"} \subseteq FinishSteps BY DEF FinishSteps
 <2>4. ASSUME ~ub' PROVE /\ ~ub /\ Keeps /\ TagsOK /\ d # Null /\ info[d].tag \in DeliveredTags'
  <3>1. ~ub /\ Keeps /\ TagsOK /\ ThreadOK(r) BY <2>1, <2>4, OrderParts, SameHeap
  <3>2. d # Null /\ info[d].tag \in DeliveredTags BY <2>1, <3>1 DEF ThreadOK, FinishOK
  <3>3. QED BY <3>1, <3>2 DEF Keeps
 <2>5. ASSUME ~ub', pc'[r] = "zombie", th'[r] = th[r] PROVE ThreadOK(r)'
  <3>1. FinishOK(r)' BY <2>1, <2>4, <2>5, CallsStep DEF FinishOK, Finishing, CallsOK
  <3>2. QED BY <2>3, <2>4, <2>5, <3>1, FinishCarried DEF Framed
 <2>6. ASSUME ~ub', pc'[r] = "next_completed", th'[r] = l, n # Null PROVE ThreadOK(r)'
  <3>1. /\ info[d].next_tag \in {NO_TAG, info[d].tag + 1} /\ info[d].next_tag \in Keys
        /\ n = table[info[d].next_tag]
    BY <2>1, <2>4, <2>6 DEF TagsOK, Objects, InfoType
  <3>2. info[n].tag = info[d].tag + 1 BY <2>4, <2>6, <3>1 DEF TagsOK, Keys
  <3>3. CallsOK(r)' BY <2>2, <2>4, <2>6, CallsStep
  <3> HIDE DEF n
  <3>4. FinishOK(r)' BY <2>1, <2>2, <2>4, <2>6, <3>2, <3>3 DEF FinishOK, Finishing, HasTag, CallsOK
  <3>5. QED BY <2>2, <2>3, <2>4, <2>6, <3>4, FinishCarried DEF Framed
 <2>7. QED BY <1>0, <2>1, <2>3, <2>5, <2>6, SameHeap, NextOrder
<1>4. CASE NextCompleted(r)
 <2> DEFINE n == th[r].next
            c == Append(th[r].calls, d)
            l == [th[r] EXCEPT !.calls = c, !.done = n, !.next = Null]
 <2>1. /\ pc[r] = "next_completed" /\ n \in Objects
       /\ \/ info[n].completed /\ Goto(r, "deliver") /\ Locals(r, l)
          \/ Goto(r, "zombie") /\ th' = th
       /\ UNCHANGED <<table, info, delivered, conn, ub>>
   BY <1>4 DEF NextCompleted, At, Safe, InfoUsed, Null, Objects, heap, env
 <2>2. Framed(l, th[r]) /\ l.calls = c /\ l.done = n BY DEF LocalsType, Framed
 <2> HIDE DEF l
 <2>3. {"deliver", "zombie"} \subseteq FinishSteps BY DEF FinishSteps
 <2>4. ASSUME ~ub' PROVE /\ ~ub /\ Keeps /\ TagsOK /\ ThreadOK(r) /\ d # Null
                         /\ info[d].tag \in DeliveredTags' /\ info[n].tag = info[d].tag + 1
  <3>1. ~ub /\ Keeps /\ TagsOK /\ ThreadOK(r) BY <2>1, <2>4, OrderParts, SameHeap
  <3>2. d # Null /\ info[d].tag \in DeliveredTags /\ info[n].tag = info[d].tag + 1
    BY <2>1, <3>1 DEF ThreadOK, FinishOK, HasTag
  <3>3. QED BY <3>1, <3>2 DEF Keeps
 <2>5. ASSUME ~ub', pc'[r] = "zombie", th'[r] = th[r] PROVE ThreadOK(r)'
  <3>1. FinishOK(r)' BY <2>1, <2>4, <2>5, CallsStep DEF FinishOK, Finishing, CallsOK
  <3>2. QED BY <2>3, <2>4, <2>5, <3>1, FinishCarried DEF Framed
 <2>6. ASSUME ~ub', pc'[r] = "deliver", th'[r] = l, info[n].completed PROVE ThreadOK(r)'
  <3>1. info[n].valid BY <2>1, <2>4, <2>6 DEF TagsOK
  <3>2. d \in Objects BY <2>4, <2>6 DEF Null, Objects
  <3>3. info[n].tag - 1 \in DeliveredTags' BY <2>4, <2>6, <3>2, TagBefore
  <3>4. \A i \in 1 .. Len(c) : c[i] # Null /\ info[c[i]].tag \in DeliveredTags'
   <4>1. \A i \in 1 .. Len(th[r].calls) :
           th[r].calls[i] # Null /\ info[th[r].calls[i]].tag \in DeliveredTags'
     BY <2>4, <2>6 DEF ThreadOK, FinishOK, Keeps
   <4>2. \A i \in 1 .. Len(c) : \/ i \in 1 .. Len(th[r].calls) /\ c[i] = th[r].calls[i]
                              \/ c[i] = d
    <5>1. PICK q : q = th[r].calls OBVIOUS
    <5>2. q \in Seq(0 .. Len(info)) /\ c = Append(q, d) BY <5>1
    <5> HIDE DEF c, d
    <5>3. \A i \in 1 .. Len(c) : (i \in 1 .. Len(q) /\ c[i] = q[i]) \/ c[i] = d BY <5>2
    <5>4. QED BY <5>1, <5>3
   <4>3. QED BY <2>4, <2>6, <4>1, <4>2
  <3> HIDE DEF c, n
  <3>5. FinishOK(r)' BY <2>1, <2>2, <2>6, <3>1, <3>3, <3>4 DEF FinishOK, Objects, Null
  <3>6. QED BY <2>2, <2>3, <2>4, <2>6, <3>5, FinishCarried DEF Framed
 <2>7. QED BY <1>0, <2>1, <2>3, <2>5, <2>6, SameHeap, NextOrder
<1>5. CASE DoneRemove(r)
 <2>1. /\ pc[r] = "remove" /\ Goto(r, "zombie") /\ th' = th
       /\ table' = [table EXCEPT ![info[d].tag] = Null] /\ UNCHANGED <<info, delivered, conn, ub>>
   BY <1>5 DEF DoneRemove, At, env
 <2>2. ASSUME ~ub' PROVE Keeps /\ TagsOK'
  <3>1. TagsOK /\ TableOK(table) BY <2>1, <2>2, OrderParts, TagsParts
  <3>2. \A t \in Keys : table'[t] = table[t] \/ table'[t] = Null BY <2>1 DEF HeapType
  <3>3. TableOK(table') BY <3>1, <3>2 DEF TableOK, Keys
  <3>4. QED BY <2>1, <3>1, <3>3, HeapKept
 <2>3. "zombie" \in FinishSteps BY DEF FinishSteps
 <2>4. ASSUME ~ub', pc'[r] = "zombie", th'[r] = th[r] PROVE ThreadOK(r)'
  <3>1. ~ub /\ Keeps /\ ThreadOK(r) BY <2>1, <2>2, <2>4, OrderParts
  <3>2. d # Null /\ info'[d].tag \in DeliveredTags' BY <2>1, <3>1 DEF ThreadOK, FinishOK, Keeps
  <3>3. FinishOK(r)' BY <2>4, <3>1, <3>2, CallsStep DEF FinishOK, Finishing, CallsOK
  <3>4. QED BY <2>3, <2>4, <3>1, <3>3, FinishCarried DEF Framed
 <2>5. QED BY <1>0, <2>1, <2>2, <2>3, <2>4, NextOrder
<1>6. CASE Zombie(r)
 <2> DEFINE k == th[r].calls
            n == Len(k)
            c == SubSeq(k, 1, n - 1)
            rec == [info[d] EXCEPT !.sent = TRUE]
            l == [th[r] EXCEPT !.done = k[n], !.next = Null, !.calls = c]
 <2>1. /\ pc[r] = "zombie" /\ d \in Objects /\ info' = [info EXCEPT ![d] = rec]
       /\ \/ Return(r)
          \/ k # <<>> /\ Locals(r, l) /\ Goto(r, "remove")
       /\ UNCHANGED <<table, delivered, conn, ub>>
   BY <1>6 DEF Zombie, At, Safe, InfoUsed, Null, Objects, env
 <2>2. /\ rec.tag = info[d].tag /\ rec.prev_tag = info[d].prev_tag
       /\ rec.next_tag = info[d].next_tag /\ rec.sent = TRUE
       /\ rec.valid = info[d].valid /\ rec.completed = info[d].completed /\ rec.written = info[d].written
   BY <2>1 DEF Objects, InfoType
 <2>3. Framed(l, th[r]) /\ l.calls = c /\ l.done = k[n] BY DEF LocalsType, Framed
 <2> HIDE DEF rec, l
 <2>4. ASSUME ~ub' PROVE Keeps /\ TagsOK'
  <3>1. TagsOK /\ ThreadOK(r) /\ DeliveredTags' = DeliveredTags BY <2>1, <2>4, OrderParts DEF DeliveredTags
  <3>2. info[d].tag \in DeliveredTags BY <2>1, <3>1 DEF ThreadOK, FinishOK
  <3>3. TableOK(table') /\ ObjectOK(info[d], DeliveredTags) BY <2>1, <3>1, TagsParts DEF ObjectsOK
  <3>4. Refilled(info[d], rec) /\ ObjectOK(rec, DeliveredTags')
    BY <2>2, <3>1, <3>2, <3>3 DEF Refilled, ObjectOK
  <3>5. QED BY <2>1, <3>1, <3>3, <3>4, HeapWritten
 <2>5. CASE Return(r) BY <2>1, <2>4, <2>5, ReturnOrder
 <2>6. CASE k # <<>> /\ Locals(r, l) /\ Goto(r, "remove")
  <3>1. "remove" \in FinishSteps BY DEF FinishSteps
  <3>2. ASSUME ~ub', pc'[r] = "remove", th'[r] = l PROVE ThreadOK(r)'
   <4>1. ~ub /\ Keeps /\ ThreadOK(r) BY <2>1, <2>4, <3>2, OrderParts
   <4>2. \A i \in 1 .. n : k[i] # Null /\ info'[k[i]].tag \in DeliveredTags'
     BY <4>1, CallsKept DEF ThreadOK, FinishOK, CallsOK
   <4>3. n \in 1 .. n /\ Len(c) = n - 1 /\ \A i \in 1 .. n - 1 : c[i] = k[i] BY <2>6
   <4>a. /\ k[n] # Null /\ info'[k[n]].tag \in DeliveredTags'
         /\ \A i \in 1 .. Len(c) : c[i] # Null /\ info'[c[i]].tag \in DeliveredTags'
    <5> DEFINE P(o) == o # Null /\ info'[o].tag \in DeliveredTags'
    <5>1. k \in Seq(0 .. Len(info)) /\ k # <<>> /\ \A i \in 1 .. Len(k) : P(k[i]) BY <2>6, <4>2 DEF LocalsType
    <5>2. n \in 1 .. n /\ \A i \in 1 .. Len(c) : i \in 1 .. n /\ c[i] = k[i] BY <5>1
    <5> HIDE DEF c, n, k
    <5>3. QED BY <4>2, <5>2
   <4> HIDE DEF c, n, k
   <4>4. FinishOK(r)' BY <2>3, <3>2, <4>a DEF FinishOK, Finishing
   <4>5. QED BY <2>3, <3>1, <3>2, <4>1, <4>4, FinishCarried DEF Framed
  <3>3. QED BY <1>0, <2>1, <2>4, <2>6, <3>1, <3>2, NextOrder
 <2>7. QED BY <2>1, <2>5, <2>6
<1>7. QED BY <1>1, <1>2, <1>3, <1>4, <1>5, <1>6

(* The theorems *)

LEMMA InitOrderInv == Init => OrderInv
<1> SUFFICES ASSUME Init PROVE OrderInv OBVIOUS
<1>1. conn \in [Readers -> Seq(Blocks)] BY ReaderAssumption DEF Init
<1>2. ChainOK BY <1>1, ReaderAssumption DEF Init, ChainOK, InitSteps
<1>3. TagsOK BY DEF Init, TagsOK, Objects, Keys, Null
<1>4. ASSUME NEW r \in Readers PROVE InitOK(r) /\ DataOK(r) /\ FinishOK(r)
 <2>1. pc[r] = "read" /\ ~th[r].found /\ th[r].new_buf = Null
       /\ th[r].repeat = Null /\ th[r].calls = <<>>
   BY DEF Init
 <2>2. QED BY <2>1 DEF InitOK, DataOK, FinishOK, Finishing
<1>5. QED BY <1>2, <1>3, <1>4 DEF OrderInv

LEMMA NextOrderInv == TypeOK /\ TypeOK' /\ OrderInv /\ [Next]_vars => OrderInv'
<1> SUFFICES ASSUME TypeOK, TypeOK', OrderInv, [Next]_vars PROVE OrderInv' OBVIOUS
<1>1. CASE UNCHANGED vars BY <1>1, OnlyFault DEF vars, heap, env
<1>2. CASE Stopped BY <1>2, OnlyFault DEF Stopped, vars, heap, env
<1>3. ASSUME NEW r \in Readers, ReaderStep(r) PROVE OrderInv'
  BY <1>3, SocketOrder, InitOrder, DataOrder, PrevOrder, NextBufferOrder DEF ReaderStep, FinishedStep
<1>4. QED BY <1>1, <1>2, <1>3 DEF Next

(* The chain of tags holds: whatever the threads do and in whatever order,  *)
(* every table entry is an object of its tag, every filled object names the *)
(* tag before its own, and sent is set only once the handler has returned.  *)
THEOREM OrderPreserved == Spec => []OrderInv
<1>1. QED BY InitTypeOK, NextTypeOK, InitOrderInv, NextOrderInv, PTL DEF Spec

(* multiplex_reader.h:15, "Buffers will only be passed in order", for every *)
(* number of connections, buffers and blocks and every interleaving of the  *)
(* threads: as long as no uninitialised buffer_kv has been used, a buffer   *)
(* is passed only after the handler has returned from its predecessor.      *)
THEOREM PassedInOrder == Spec => []InOrder
<1>1. OrderInv => InOrder BY DEF OrderInv, InOrder, FinishOK
<1>2. QED BY <1>1, OrderPreserved, PTL

LEMMA OneWritten ==
  ASSUME TypeOK, NEW o, NEW rec, info' = [info EXCEPT ![o] = rec],
         o \in Objects => Announced(info[o], rec)
  PROVE  AnnouncedAll
<1>1. \A q \in Objects : info'[q] = IF q = o THEN rec ELSE info[q] BY Sizes DEF Objects
<1>2. QED BY <1>1 DEF AnnouncedAll, Announced, Objects

LEMMA OneAllocated ==
  ASSUME TypeOK, NEW rec, info' = Append(info, rec)
  PROVE  AnnouncedAll
<1>1. \A q \in 1 .. Len(info) : info'[q] = info[q] BY Sizes
<1>2. QED BY <1>1 DEF AnnouncedAll, Announced

LEMMA NoneWritten ==
  ASSUME info' = info
  PROVE  AnnouncedAll
BY DEF AnnouncedAll, Announced

(* A step that writes a field other than valid, buffer_size and buffer. *)
LEMMA FieldWritten ==
  ASSUME TypeOK, NEW o, NEW v,
         \/ info' = [info EXCEPT ![o].next_tag = v]
         \/ info' = [info EXCEPT ![o].waiting_queue = v]
         \/ info' = [info EXCEPT ![o].written = v]
         \/ info' = [info EXCEPT ![o].n_written = v]
         \/ info' = [info EXCEPT ![o].completed = v]
         \/ info' = [info EXCEPT ![o].sent = v]
         \/ info' = [info EXCEPT ![o].freed = v]
  PROVE  AnnouncedAll
<1>1. o \in Objects => info[o] \in InfoType(Len(queue)) BY DEF TypeOK, Objects
<1>2. PICK rec : /\ info' = [info EXCEPT ![o] = rec]
                 /\ \/ rec = [info[o] EXCEPT !.next_tag = v]
                    \/ rec = [info[o] EXCEPT !.waiting_queue = v]
                    \/ rec = [info[o] EXCEPT !.written = v]
                    \/ rec = [info[o] EXCEPT !.n_written = v]
                    \/ rec = [info[o] EXCEPT !.completed = v]
                    \/ rec = [info[o] EXCEPT !.sent = v]
                    \/ rec = [info[o] EXCEPT !.freed = v]
  OBVIOUS
<1>3. o \in Objects => Announced(info[o], rec) BY <1>1, <1>2 DEF Announced, InfoType
<1>4. QED BY <1>2, <1>3, OneWritten

LEMMA Pointers ==
  ASSUME TypeOK
  PROVE  /\ 0 .. Len(info) = {Null} \cup Objects
         /\ Null \notin Objects /\ Null \notin Objects'
         /\ \A s \in Readers : /\ th[s].buffer \in {Null} \cup Objects
                              /\ th[s].dummy \in {Null} \cup Objects
                              /\ th[s].new_buf \in {Null} \cup Objects
                              /\ th[s].repeat \in {Null} \cup Objects
                              /\ th[s].done \in {Null} \cup Objects
<1>1. 0 .. Len(info) = {Null} \cup Objects BY Sizes DEF Objects, Null
<1>2. QED BY <1>1, ThreadType DEF Objects, Null

(* With the init blocks on one connection in the order of their tags, the   *)
(* object an init block has found is not filled while the block is handled. *)
LEMMA FillsFirst ==
  ASSUME TypeOK, OrderInv, InitsInv, ~ub, NEW r \in Readers,
         pc[r] \in {"init_valid", "init_fill"}
  PROVE  ~info[th[r].new_buf].valid /\ info[th[r].new_buf].written = {}
<1>1. HasTag(th[r].new_buf, th[r].block.tag) BY OrderParts DEF ThreadOK, InitOK
<1>2. th[r].new_buf \in Objects BY <1>1, Pointers DEF HasTag
<1>3. th[r].block.tag \in Int BY BlockType DEF InitSteps, Tags
<1>4. ~info[th[r].new_buf].valid BY <1>1, <1>2, <1>3 DEF InitsInv, InitSteps, HasTag, Valid
<1>5. QED BY <1>2, <1>4, OrderParts DEF TagsOK

LEMMA InitAnnounced ==
  ASSUME TypeOK, OrderInv, InitsInv, ~ub, NEW r \in Readers, InitBlockStep(r)
  PROVE  AnnouncedAll
<1>1. CASE InitFill(r) BY <1>1, FillsFirst, OneWritten DEF InitFill, At, Announced
<1>2. CASE InitInsert(r) BY <1>2, OneAllocated DEF InitInsert
<1>3. CASE InitAdopt(r) BY <1>3, FieldWritten DEF InitAdopt
<1>4. CASE DrainClear(r) BY <1>4, FieldWritten DEF DrainClear
<1>5. CASE FreeRepeat(r) BY <1>5, FieldWritten DEF FreeRepeat
<1>6. CASE InitLookup(r) \/ DuplicateExit(r) \/ InitNotValid(r)
  BY <1>6, NoneWritten DEF InitLookup, DuplicateExit, InitNotValid, heap
<1>7. CASE DrainNothing(r) \/ DrainLoop(r) \/ DrainMore(r) \/ DrainEmpty(r)
           \/ DrainBlock(r) \/ DrainStale(r) \/ DrainFree(r)
  BY <1>7, NoneWritten DEF DrainNothing, DrainLoop, DrainMore, DrainEmpty, DrainBlock,
     DrainStale, DrainFree, heap
<1>8. QED BY <1>1, <1>2, <1>3, <1>4, <1>5, <1>6, <1>7 DEF InitBlockStep

LEMMA DataAnnounced ==
  ASSUME TypeOK, NEW r \in Readers, DataBlockStep(r)
  PROVE  AnnouncedAll
<1>1. CASE DataInsert(r) BY <1>1, OneAllocated DEF DataInsert
<1>2. CASE Attach(r) BY <1>2, FieldWritten DEF Attach
<1>3. CASE PutBack(r) \/ Copy(r) \/ Count(r) \/ Complete(r)
  BY <1>3, FieldWritten, NoneWritten DEF PutBack, Copy, Count, Complete
<1>4. CASE DataLookup(r) \/ CheckValid(r) \/ Park(r) \/ Enqueue(r)
  BY <1>4, NoneWritten DEF DataLookup, CheckValid, Park, Enqueue, env, heap
<1>5. QED BY <1>1, <1>2, <1>3, <1>4 DEF DataBlockStep

LEMMA FinishedAnnounced ==
  ASSUME TypeOK, NEW r \in Readers, FinishedStep(r)
  PROVE  AnnouncedAll
<1>1. CASE HandlerReturns(r)
 <2> DEFINE d == th[r].done
            rec == [info[d] EXCEPT !.buffer = IF @ = "null" THEN @ ELSE "freed"]
 <2>1. info' = [info EXCEPT ![d] = rec] BY <1>1 DEF HandlerReturns
 <2>2. d \in Objects => info[d] \in InfoType(Len(queue)) BY DEF TypeOK, Objects
 <2>3. d \in Objects => Announced(info[d], rec) BY <2>2 DEF Announced, InfoType
 <2>4. QED BY <2>1, <2>3, OneWritten
<1>2. CASE PrevInsert(r) BY <1>2, OneAllocated DEF PrevInsert
<1>3. CASE PrevPutBack(r) \/ SetNext(r) \/ FreePrev(r) \/ Zombie(r)
  BY <1>3, FieldWritten DEF PrevPutBack, SetNext, FreePrev, Zombie
<1>4. CASE PrevLookup(r) \/ PrevSent(r) \/ CallHandler(r) \/ NextLookup(r)
           \/ NextCompleted(r) \/ DoneRemove(r)
  BY <1>4, NoneWritten DEF PrevLookup, PrevSent, CallHandler, NextLookup, NextCompleted, DoneRemove, heap, env
<1>5. QED BY <1>1, <1>2, <1>3, <1>4 DEF FinishedStep

(* WholeBuffers: four invariants.  OnceInv: a block is in one place, on its *)
(* connection, in a thread's hands, in a waiting queue or in a buffer.      *)
(* CountInv: n_written is the number of blocks written and counted.         *)
(* Known: every block is one that was sent.  WholeInv: so a full count is a *)
(* full buffer.                                                             *)

(* Where a block is.  Everything here is relative to a guess e of the       *)
(* object that the init block of a tag is going to find in the table:       *)
(* while it has not been looked up, nobody knows which of several dummies   *)
(* of its tag it will be.                                                   *)

(* A thing that is in one place stays so when it leaves it or moves on.     *)

LEMMA SoleShrinks ==
  ASSUME NEW W, NEW H, NEW P, NEW C, Sole(W, H, P, C),
         NEW W2, NEW H2, NEW P2, NEW C2,
         W2 \subseteq W, H2 \subseteq H, P2 \subseteq P, C2 \subseteq C
  PROVE  Sole(W2, H2, P2, C2)
<1>1. AtMostOne(W2) /\ AtMostOne(H2) /\ AtMostOne(P2) /\ AtMostOne(C2) BY DEF Sole, AtMostOne
<1>2. /\ W2 # {} => W # {}
      /\ H2 # {} => H # {}
      /\ P2 # {} => P # {}
  OBVIOUS
<1>3. /\ H = {} => H2 = {}
      /\ P = {} => P2 = {}
      /\ C = {} => C2 = {}
  OBVIOUS
<1>4. QED BY <1>1, <1>2, <1>3 DEF Sole

LEMMA SoleRead ==
  ASSUME NEW W, NEW H, NEW P, NEW C, Sole(W, H, P, C),
         NEW W2, NEW H2, NEW P2, NEW C2, NEW x \in W, NEW y,
         W2 \subseteq W \ {x}, H2 \subseteq H \cup {y}, P2 \subseteq P, C2 \subseteq C
  PROVE  Sole(W2, H2, P2, C2)
<1>1. H = {} /\ P = {} /\ C = {} /\ W \subseteq {x} BY DEF Sole, AtMostOne
<1>2. W2 = {} /\ P2 = {} /\ C2 = {} /\ H2 \subseteq {y} BY <1>1
<1>3. QED BY <1>2 DEF Sole, AtMostOne

LEMMA SoleParks ==
  ASSUME NEW W, NEW H, NEW P, NEW C, Sole(W, H, P, C),
         NEW W2, NEW H2, NEW P2, NEW C2, NEW x \in H, NEW Y, AtMostOne(Y),
         W2 \subseteq W, H2 \subseteq H \ {x}, P2 \subseteq P \cup Y, C2 \subseteq C
  PROVE  Sole(W2, H2, P2, C2)
<1>1. W = {} /\ P = {} /\ C = {} /\ H \subseteq {x} BY DEF Sole, AtMostOne
<1>2. W2 = {} /\ H2 = {} /\ C2 = {} /\ P2 \subseteq Y BY <1>1
<1>3. QED BY <1>2 DEF Sole, AtMostOne

LEMMA SoleCopies ==
  ASSUME NEW W, NEW H, NEW P, NEW C, Sole(W, H, P, C),
         NEW W2, NEW H2, NEW P2, NEW C2, NEW x \in H, NEW y,
         W2 \subseteq W, H2 \subseteq H \ {x}, P2 \subseteq P, C2 \subseteq C \cup {y}
  PROVE  Sole(W2, H2, P2, C2)
<1>1. W = {} /\ P = {} /\ C = {} /\ H \subseteq {x} BY DEF Sole, AtMostOne
<1>2. W2 = {} /\ H2 = {} /\ P2 = {} /\ C2 \subseteq {y} BY <1>1
<1>3. QED BY <1>2 DEF Sole, AtMostOne

LEMMA SoleDrains ==
  ASSUME NEW W, NEW H, NEW P, NEW C, Sole(W, H, P, C),
         NEW W2, NEW H2, NEW P2, NEW C2, NEW x \in P, NEW y,
         W2 \subseteq W, H2 \subseteq H \cup {y}, P2 \subseteq P \ {x}, C2 \subseteq C
  PROVE  Sole(W2, H2, P2, C2)
<1>1. W = {} /\ H = {} /\ C = {} /\ P \subseteq {x} BY DEF Sole, AtMostOne
<1>2. W2 = {} /\ P2 = {} /\ C2 = {} /\ H2 \subseteq {y} BY <1>1
<1>3. QED BY <1>2 DEF Sole, AtMostOne

(* Steps that move no block *)

LEMMA StillWire ==
  ASSUME TypeOK, Reads, NEW k
  PROVE  OnWire(k)' \subseteq OnWire(k)
<1> SUFFICES ASSUME NEW p \in Readers \X Nat, Waits(p[1], p[2], k)'
             PROVE  Waits(p[1], p[2], k)
  BY DEF OnWire
<1>1. conn'[p[1]] = conn[p[1]] \/ conn'[p[1]] = <<>> BY DEF Reads
<1>2. QED BY <1>1 DEF Waits

(* What a calm step leaves of the facts that places are made of. *)
LEMMA StillAwaited ==
  ASSUME TypeOK, NEW r \in Readers, Still(r)
  PROVE  /\ \A s \in Readers : \A k : Coming(s, k)' => Coming(s, k)
         /\ Awaited' \subseteq Awaited
         /\ \A o \in Objects : o \in Taken' => o \in Taken
         /\ \A o \in Taken' : o \in Objects
<1>1. \A s \in Readers : \A k : Coming(s, k)' => Coming(s, k) BY DEF Still, Others, Steady, Coming
<1>2. \A k : OnWire(k)' \subseteq OnWire(k) BY StillWire DEF Still
<1>3. Awaited' \subseteq Awaited BY <1>1, <1>2 DEF Awaited
<1>4. \A s \in Readers : /\ th'[s].new_buf \in {Null, th[s].new_buf}
                         /\ th'[s].repeat \in {Null, th[s].repeat}
  BY DEF Still, Others, Steady
<1>5. \A s \in Readers : /\ th'[s].new_buf \in {Null} \cup Objects
                         /\ th'[s].repeat \in {Null} \cup Objects
 <2>1. \A s \in Readers : th[s].new_buf \in 0 .. Len(info) /\ th[s].repeat \in 0 .. Len(info) BY ThreadType
 <2>2. 0 .. Len(info) = {Null} \cup Objects BY Sizes DEF Objects, Null
 <2>3. QED BY <1>4, <2>1, <2>2
<1>6. \A o \in Taken' : o \in Objects BY <1>5 DEF Taken, Objects, Null
<1>7. \A o \in Objects : o \in Taken' => o \in Taken BY <1>4 DEF Taken, Objects, Null
<1>8. QED BY <1>1, <1>3, <1>6, <1>7

LEMMA StillFillable ==
  ASSUME TypeOK, NEW r \in Readers, Still(r), NEW e
  PROVE  \A o \in Objects : o \in Fillable(e)' => o \in Fillable(e)
<1> SUFFICES ASSUME NEW o \in Objects, o \in Fillable(e)'
             PROVE  o \in Fillable(e)
  OBVIOUS
<1>1. /\ ~info'[o].freed
      /\ info'[o].valid \/ o \in Taken' \/ (info'[o].tag \in Awaited' /\ o = e[info'[o].tag])
  BY DEF Fillable
<1>2. ~info[o].freed /\ info'[o].tag = info[o].tag BY <1>1 DEF Still, CalmHeap, Calm
<1>3. info'[o].valid => info[o].valid \/ o \in Taken BY DEF Still, CalmHeap
<1>4. o \in Taken' => o \in Taken BY StillAwaited
<1>5. Awaited' \subseteq Awaited BY StillAwaited
<1>6. QED BY <1>1, <1>2, <1>3, <1>4, <1>5 DEF Fillable

LEMMA StillHands ==
  ASSUME TypeOK, NEW r \in Readers, Still(r), NEW e
  PROVE  /\ \A o \in Objects : o \in Beside(e)' => o \in Beside(e)
         /\ \A k : InHands(k, e)' \subseteq InHands(k, e)
<1>1. \A o \in Objects : o \in Fillable(e)' => o \in Fillable(e) BY StillFillable
<1>2. Fillable(e)' \subseteq Objects' BY DEF Fillable
<1>3. ASSUME NEW o \in Objects, o \in Beside(e)' PROVE o \in Beside(e)
 <2>1. PICK s \in Readers : pc'[s] = "put_back" /\ th'[s].dummy = o /\ th'[s].buffer \in Fillable(e)'
   BY <1>3 DEF Beside
 <2>2. s # r /\ pc[s] = "put_back" /\ th'[s] = th[s] BY <2>1 DEF Still, Steady, Others
 <2>3. th[s].buffer \in Objects BY <1>2, <2>1, <2>2, Pointers
 <2>4. QED BY <1>1, <2>1, <2>2, <2>3 DEF Beside
<1>4. Beside(e)' \subseteq Objects' BY DEF Beside
<1>5. ASSUME NEW k, NEW s \in Readers, Bound(s, k, e)', ~Coming(s, k)
      PROVE  Bound(s, k, e)
 <2>1. /\ pc'[s] \in Placed /\ BlockName(th'[s].block) = k
       /\ th'[s].buffer \in Fillable(e)' \cup Beside(e)'
   BY <1>5 DEF Bound
 <2>2. /\ th'[s].block = th[s].block /\ pc[s] \in Unplaced \cup Placed
       /\ pc[s] \in Placed => th'[s].buffer = th[s].buffer
   BY <2>1 DEF Still, Steady, Others
 <2>3. pc[s] \in Placed BY <1>5, <2>1, <2>2 DEF Coming
 <2>4. th[s].buffer \in Objects BY <1>2, <1>4, <2>1, <2>2, <2>3, Pointers
 <2>5. QED BY <1>1, <1>3, <2>1, <2>2, <2>3, <2>4 DEF Bound
<1>6. \A k : InHands(k, e)' \subseteq InHands(k, e) BY <1>5, StillAwaited DEF InHands
<1>7. QED BY <1>3, <1>6

LEMMA StillQueues ==
  ASSUME TypeOK, NEW r \in Readers, Still(r), NEW e
  PROVE  /\ \A q, i, k : Lies(q, i, k)' <=> Lies(q, i, k)
         /\ \A s \in Readers : \A q \in 1 .. Len(queue) :
              Holds(s, q, e)' => Holds(s, q, e) /\ th'[s].block = th[s].block
         /\ \A k : InQueues(k, e)' \subseteq InQueues(k, e)
<1>1. \A o \in Objects : o \in Fillable(e)' => o \in Fillable(e) BY StillFillable
<1>2. \A q, i, k : Lies(q, i, k)' <=> Lies(q, i, k) BY DEF Still, CalmHeap, Lies
<1>3. ASSUME NEW s \in Readers, NEW q \in 1 .. Len(queue), Holds(s, q, e)'
      PROVE  Holds(s, q, e) /\ th'[s].block = th[s].block
 <2>1. th'[s].waiting_queue = q /\ q # Null /\ th'[s].buffer \in Fillable(e)' BY <1>3 DEF Holds, Null
 <2>2. th[s].waiting_queue = q /\ th'[s].buffer = th[s].buffer /\ th'[s].block = th[s].block
   BY <2>1 DEF Still, Steady, Others
 <2>3. th[s].buffer \in Objects BY <2>1, <2>2, Pointers DEF Fillable
 <2>4. QED BY <1>1, <2>1, <2>2, <2>3 DEF Holds
<1>4. ASSUME NEW q \in 1 .. Len(queue), NEW k, Drains(q, k, e)' PROVE Drains(q, k, e)
 <2>1. CASE \E o \in Fillable(e)' : info'[o].waiting_queue = q
  <3>1. PICK o \in Fillable(e)' : info'[o].waiting_queue = q BY <2>1
  <3>2. o \in Objects' /\ q # Null BY DEF Fillable, Null
  <3>3. o \in Objects BY <3>1, <3>2 DEF Still, CalmHeap, Blank
  <3>4. info[o].waiting_queue = q BY <3>1, <3>2, <3>3 DEF Still, CalmHeap, Calm
  <3>5. QED BY <1>1, <3>3, <3>4 DEF Drains
 <2>2. CASE \E s \in Readers : Holds(s, q, e)' /\ BlockName(th'[s].block) # k BY <1>3, <2>2 DEF Drains
 <2>3. QED BY <1>4, <2>1, <2>2 DEF Drains
<1>5. ASSUME NEW k, NEW p \in Nat \X Nat, Lies(p[1], p[2], k)', Drains(p[1], k, e)'
      PROVE  Lies(p[1], p[2], k) /\ Drains(p[1], k, e)
 <2>1. Lies(p[1], p[2], k) BY <1>2, <1>5
 <2>2. p[1] \in 1 .. Len(queue) BY <2>1 DEF Lies
 <2>3. QED BY <1>4, <1>5, <2>1, <2>2
<1>6. \A k : InQueues(k, e)' \subseteq InQueues(k, e) BY <1>5 DEF InQueues
<1>7. QED BY <1>2, <1>3, <1>6

LEMMA StillBuffers ==
  ASSUME TypeOK, NEW r \in Readers, Still(r), NEW k
  PROVE  InBuffers(k)' \subseteq InBuffers(k)
BY DEF InBuffers, Still, CalmHeap, Calm, Blank

LEMMA StillOnce ==
  ASSUME TypeOK, NEW r \in Readers, Still(r), OnceInv
  PROVE  OnceInv'
<1> SUFFICES ASSUME NEW k \in Names, NEW e PROVE Places(k, e)' /\ Paired(k, e)' BY DEF OnceInv
<1>1. Places(k, e) /\ Paired(k, e) BY DEF OnceInv
<1>2. Places(k, e)'
 <2>1. OnWire(k)' \subseteq OnWire(k) BY StillWire DEF Still
 <2>2. InHands(k, e)' \subseteq InHands(k, e) BY StillHands
 <2>3. InQueues(k, e)' \subseteq InQueues(k, e) BY StillQueues
 <2>4. InBuffers(k)' \subseteq InBuffers(k) BY StillBuffers
 <2>5. QED BY <1>1, <2>1, <2>2, <2>3, <2>4, SoleShrinks DEF Places
<1>3. Paired(k, e)'
 <2> SUFFICES ASSUME NEW s \in Readers, NEW q \in 1 .. Len(queue)',
                     Holds(s, q, e)', BlockName(th'[s].block) = k,
                     NEW i \in Nat, NEW j \in Nat, Lies(q, i, k)', Lies(q, j, k)'
              PROVE  i = j
   BY DEF Paired, AtMostOne
 <2>1. q \in 1 .. Len(queue) BY DEF Still, CalmHeap
 <2>2. Holds(s, q, e) /\ BlockName(th[s].block) = k BY <2>1, StillQueues
 <2>3. Lies(q, i, k) /\ Lies(q, j, k) BY StillQueues
 <2>4. QED BY <1>1, <2>1, <2>2, <2>3 DEF Paired, AtMostOne
<1>4. QED BY <1>2, <1>3

(* A calm step brings no object into use and gives none a queue. *)
LEMMA StillOwned ==
  ASSUME TypeOK, NEW r \in Readers, Still(r)
  PROVE  /\ \A o \in Objects' : ~info'[o].freed /\ info'[o].waiting_queue # Null =>
              /\ o \in Objects /\ ~info[o].freed /\ info[o].waiting_queue = info'[o].waiting_queue
         /\ \A s \in Readers : th'[s].waiting_queue # Null =>
              th[s].waiting_queue = th'[s].waiting_queue
<1>1. ASSUME NEW o \in Objects', ~info'[o].freed, info'[o].waiting_queue # Null
      PROVE  o \in Objects /\ ~info[o].freed /\ info[o].waiting_queue = info'[o].waiting_queue
 <2>1. o \in Objects BY <1>1 DEF Still, CalmHeap, Blank
 <2>2. QED BY <1>1, <2>1 DEF Still, CalmHeap, Calm
<1>2. \A s \in Readers : th'[s].waiting_queue # Null => th[s].waiting_queue = th'[s].waiting_queue
  BY DEF Still, Others, Steady
<1>3. QED BY <1>1, <1>2

LEMMA StillHold ==
  ASSUME TypeOK, NEW r \in Readers, Still(r), HoldInv
  PROVE  HoldInv'
<1>1. ASSUME NEW s \in Readers PROVE HandOK(s)'
 <2>1. HandOK(s) BY DEF HoldInv
 <2>2. ASSUME th'[s].waiting_queue # Null PROVE pc'[s] \in Holding
   BY <2>1, <2>2 DEF HandOK, Still, Others, Steady
 <2>3. ASSUME pc'[s] \in Placed \cup {"count"} PROVE HasTag(th[s].buffer, th[s].block.tag)'
  <3>1. CASE s = r BY <2>3, <3>1 DEF Still, Steady
  <3>2. CASE s # r
   <4>1. pc[s] = pc'[s] /\ th'[s] = th[s] BY <3>2 DEF Still, Others
   <4>2. HasTag(th[s].buffer, th[s].block.tag) BY <2>1, <2>3, <4>1 DEF HandOK
   <4>3. th[s].buffer \in Objects BY <4>2, Pointers DEF HasTag
   <4>4. QED BY <4>1, <4>2, <4>3 DEF HasTag, Still, CalmHeap, Calm
  <3>3. QED BY <3>1, <3>2
 <2>4. ASSUME pc'[s] = "put_back" PROVE HasTag(th[s].dummy, th[s].block.tag)'
  <3>1. pc[s] = pc'[s] /\ th'[s] = th[s] BY <2>4 DEF Still, Others, Steady
  <3>2. HasTag(th[s].dummy, th[s].block.tag) BY <2>1, <2>4, <3>1 DEF HandOK
  <3>3. th[s].dummy \in Objects BY <3>2, Pointers DEF HasTag
  <3>4. QED BY <3>1, <3>2, <3>3 DEF HasTag, Still, CalmHeap, Calm
 <2>5. ASSUME NEW o \in Objects', ~info'[o].freed, info'[o].waiting_queue # Null,
              info'[o].waiting_queue = th'[s].waiting_queue
       PROVE  pc'[s] = "put_back" /\ o = th'[s].dummy
  <3>1. /\ o \in Objects /\ ~info[o].freed /\ info[o].waiting_queue # Null
        /\ info[o].waiting_queue = th[s].waiting_queue
    BY <2>5, StillOwned
  <3>2. pc[s] = "put_back" /\ o = th[s].dummy BY <2>1, <3>1 DEF HandOK
  <3>3. s # r BY <2>5, <3>2 DEF Still, Steady
  <3>4. QED BY <3>2, <3>3 DEF Still, Others
 <2>6. QED BY <2>2, <2>3, <2>4, <2>5 DEF HandOK
<1>2. ASSUME NEW s \in Readers, NEW q \in Readers, s # q,
             th'[s].waiting_queue = th'[q].waiting_queue
      PROVE  th'[s].waiting_queue = Null
  BY <1>2, StillOwned DEF HoldInv
<1>3. ASSUME NEW o \in Objects', NEW p \in Objects', ~info'[o].freed, ~info'[p].freed,
             info'[o].waiting_queue = info'[p].waiting_queue, o # p
      PROVE  info'[o].waiting_queue = Null
  BY <1>3, StillOwned DEF HoldInv
<1>4. ASSUME NEW o \in Objects' PROVE Untouched(o)'
 <2> SUFFICES ASSUME info'[o].tag \in Awaited' PROVE ~info'[o].valid /\ o \notin Taken' BY DEF Untouched
 <2>1. CASE o \in Objects
  <3>1. info[o].tag \in Awaited BY <2>1, StillAwaited DEF Still, CalmHeap, Calm
  <3>2. ~info[o].valid /\ o \notin Taken BY <2>1, <3>1 DEF HoldInv, Untouched
  <3>3. QED BY <2>1, <3>2, StillAwaited DEF Still, CalmHeap
 <2>2. CASE o \notin Objects
  <3>1. ~info'[o].valid BY <2>2 DEF Still, CalmHeap, Blank
  <3>2. QED BY <2>2, <3>1, StillAwaited
 <2>3. QED BY <2>1, <2>2
<1>5. QED BY <1>1, <1>2, <1>3, <1>4 DEF HoldInv

(* Which steps are calm *)

LEMMA CalmSame ==
  ASSUME TypeOK, UNCHANGED <<info, queue>>
  PROVE  CalmHeap
<1>1. \A o \in Objects : Calm(info[o], info'[o]) BY DEF Calm
<1>2. Objects' = Objects BY DEF Objects
<1>3. QED BY <1>1, <1>2, Sizes DEF CalmHeap

LEMMA CalmWrite ==
  ASSUME TypeOK, queue' = queue, NEW o \in Objects, NEW rec,
         info' = [info EXCEPT ![o] = rec], Calm(info[o], rec),
         rec.valid => info[o].valid \/ o \in Taken
  PROVE  CalmHeap
<1>1. Objects' = Objects /\ Len(info') = Len(info) BY Sizes DEF Objects, TypeOK
<1>2. \A x \in Objects : info'[x] = IF x = o THEN rec ELSE info[x] BY DEF Objects, TypeOK
<1>3. \A x \in Objects : Calm(info[x], info'[x]) BY <1>2 DEF Calm
<1>4. \A x \in Objects : info'[x].valid => info[x].valid \/ x \in Taken BY <1>2
<1>5. QED BY <1>1, <1>3, <1>4, Sizes DEF CalmHeap

LEMMA CalmAlloc ==
  ASSUME TypeOK, queue' = queue, NEW rec, info' = Append(info, rec), Blank(rec)
  PROVE  CalmHeap
<1>1. /\ Len(info) \in Nat /\ Len(info') = Len(info) + 1
      /\ \A x \in Objects' : info'[x] = IF x \in Objects THEN info[x] ELSE rec
  BY Sizes DEF Objects, TypeOK
<1>2. Objects \subseteq Objects' BY <1>1 DEF Objects
<1>3. \A x \in Objects : Calm(info[x], info'[x]) /\ info'[x].valid = info[x].valid BY <1>1, <1>2 DEF Calm
<1>4. \A x \in Objects' \ Objects : Blank(info'[x]) BY <1>1
<1>5. Len(info) <= Len(info') BY <1>1
<1>6. QED BY <1>3, <1>4, <1>5 DEF CalmHeap

LEMMA CalmFree ==
  ASSUME TypeOK, info' = info, NEW q, queue' = [queue EXCEPT ![q].freed = TRUE]
  PROVE  CalmHeap
<1>1. \A o \in Objects : Calm(info[o], info'[o]) BY DEF Calm
<1>2. Objects' = Objects BY DEF Objects
<1>3. Len(queue') = Len(queue) /\ \A x \in 1 .. Len(queue) : queue'[x].blocks = queue[x].blocks
 <2>1. queue \in [1 .. Len(queue) -> QueueType] /\ Len(queue) \in Nat BY Sizes DEF TypeOK
 <2>2. DOMAIN queue' = 1 .. Len(queue) /\ Len(queue') = Len(queue) BY <2>1
 <2>3. ASSUME NEW x \in 1 .. Len(queue) PROVE queue'[x].blocks = queue[x].blocks
  <3>1. queue'[x] = IF x = q THEN [queue[q] EXCEPT !.freed = TRUE] ELSE queue[x] BY <2>1
  <3>2. queue[x] \in QueueType BY <2>1
  <3>3. QED BY <3>1, <3>2 DEF QueueType
 <2>4. QED BY <2>2, <2>3
<1>4. QED BY <1>1, <1>2, <1>3, Sizes DEF CalmHeap

(* One field of an object that says nothing of the blocks. *)
LEMMA CalmField ==
  ASSUME NEW q, NEW x \in InfoType(q)
  PROVE  /\ \A v : Calm(x, [x EXCEPT !.next_tag = v]) /\ [x EXCEPT !.next_tag = v].valid = x.valid
         /\ \A v : Calm(x, [x EXCEPT !.sent = v]) /\ [x EXCEPT !.sent = v].valid = x.valid
         /\ \A v : Calm(x, [x EXCEPT !.completed = v]) /\ [x EXCEPT !.completed = v].valid = x.valid
         /\ \A v : Calm(x, [x EXCEPT !.n_written = v]) /\ [x EXCEPT !.n_written = v].valid = x.valid
         /\ \A v : Calm(x, [x EXCEPT !.buffer = v]) /\ [x EXCEPT !.buffer = v].valid = x.valid
         /\ Calm(x, [x EXCEPT !.freed = TRUE]) /\ [x EXCEPT !.freed = TRUE].valid = x.valid
         /\ Calm(x, [x EXCEPT !.waiting_queue = Null])
         /\ [x EXCEPT !.waiting_queue = Null].valid = x.valid
BY DEF InfoType, Calm

(* The thread goes on with its block, or has none.                          *)
LEMMA SteadyGoto ==
  ASSUME TypeOK, HoldInv, NEW r \in Readers, NEW s, Goto(r, s), th' = th, CalmHeap,
         s \notin Unplaced \/ pc[r] \in Unplaced,
         s \in Placed \cup {"count"} => pc[r] \in Placed /\ pc[r] # "put_back",
         th[r].waiting_queue # Null => s \in Holding,
         s # "put_back"
  PROVE  Others(r) /\ Steady(r)
<1>1. pc' = [pc EXCEPT ![r] = s] BY DEF Goto
<1>2. pc'[r] = s /\ Others(r) BY <1>1 DEF Others, TypeOK
<1>3. HandOK(r) BY DEF HoldInv
<1>4. s \in Placed \cup {"count"} => HasTag(th[r].buffer, th[r].block.tag)'
 <2> SUFFICES ASSUME s \in Placed \cup {"count"}
              PROVE  HasTag(th[r].buffer, th[r].block.tag)'
   OBVIOUS
 <2>1. HasTag(th[r].buffer, th[r].block.tag) BY <1>3 DEF HandOK
 <2>2. th[r].buffer \in Objects BY <2>1, Pointers DEF HasTag
 <2>3. QED BY <2>1, <2>2 DEF HasTag, CalmHeap, Calm
<1>5. s \in Placed => pc[r] \in Placed OBVIOUS
<1>6. th[r].waiting_queue # Null => pc[r] \in Holding /\ s \in Placed BY <1>3 DEF HandOK, Holding, Placed
<1>7. QED BY <1>2, <1>4, <1>5, <1>6 DEF Steady

LEMMA SteadyReturn ==
  ASSUME TypeOK, NEW r \in Readers, Return(r)
  PROVE  Others(r) /\ Steady(r)
<1>1. pc'[r] \in {"drain_test", "read"} /\ th'[r] = Fresh(th[r]) /\ Others(r)
  BY DEF Return, Goto, Locals, Others, TypeOK
<1>2. Fresh(th[r]).waiting_queue = Null BY ThreadType DEF Fresh, LocalsType
<1>3. QED BY <1>1, <1>2, FreshFields DEF Steady, Unplaced, Placed

LEMMA SteadyAway ==
  ASSUME TypeOK, NEW r \in Readers, NEW s, NEW l, Goto(r, s), Locals(r, l),
         s \notin Unplaced, s \notin Placed, s # "count", l.waiting_queue = Null,
         l.new_buf \in {Null, th[r].new_buf}, l.repeat \in {Null, th[r].repeat}
  PROVE  Others(r) /\ Steady(r)
<1>1. pc'[r] = s /\ th'[r] = l /\ Others(r) BY DEF Goto, Locals, Others, TypeOK
<1>2. s # "put_back" BY DEF Placed
<1>3. QED BY <1>1, <1>2 DEF Steady

LEMMA StillReads ==
  ASSUME TypeOK, UNCHANGED env
  PROVE  Reads /\ ub' = ub
BY DEF Reads, env

LEMMA NoQueue ==
  ASSUME HoldInv, NEW r \in Readers, pc[r] \notin Holding
  PROVE  th[r].waiting_queue = Null
BY DEF HoldInv, HandOK

(* An init block, but for the lookup and the insertion, which decide what   *)
(* is filled, and the draining of its queue.                                *)
LEMMA InitStill ==
  ASSUME TypeOK, OrderInv, HoldInv, InitsInv, ~ub, NEW r \in Readers,
         \/ InitNotValid(r) \/ InitFill(r) \/ InitAdopt(r) \/ DrainNothing(r)
         \/ DrainLoop(r) \/ DrainMore(r) \/ DrainEmpty(r)
         \/ DrainFree(r) \/ DrainClear(r) \/ FreeRepeat(r)
  PROVE  Still(r)
<1> USE Sizes DEF Null
<1>0. Reads BY StillReads DEF InitNotValid, InitFill, InitAdopt, DrainNothing, DrainLoop, DrainMore,
                    DrainEmpty, DrainFree, DrainClear, FreeRepeat
<1>a. /\ pc[r] \notin Holding /\ pc[r] \notin Placed
  BY DEF InitNotValid, InitFill, InitAdopt, DrainNothing, DrainLoop, DrainMore, DrainEmpty,
         DrainFree, DrainClear, FreeRepeat, At, Holding, Placed
<1>b. th[r].waiting_queue = Null BY <1>a, NoQueue
<1> DEFINE Quiet == Draining \cup {"init_fill", "free_repeat", "read"}
<1>c. Quiet \cap (Unplaced \cup Placed \cup Holding \cup {"count"}) = {}
  BY DEF Unplaced, Placed, Holding, Draining
<1>d. /\ [Fresh(th[r]) EXCEPT !.new_buf = Null].waiting_queue = Null
      /\ [Fresh(th[r]) EXCEPT !.new_buf = Null].new_buf = Null
      /\ [Fresh(th[r]) EXCEPT !.new_buf = Null].repeat = th[r].repeat
      /\ [Fresh(th[r]) EXCEPT !.new_buf = Null, !.repeat = Null].waiting_queue = Null
      /\ [Fresh(th[r]) EXCEPT !.new_buf = Null, !.repeat = Null].new_buf = Null
      /\ [Fresh(th[r]) EXCEPT !.new_buf = Null, !.repeat = Null].repeat = Null
  BY ThreadType DEF Fresh, LocalsType
<1>e. ASSUME CalmHeap, NEW s \in Quiet, Goto(r, s), th' = th
      PROVE  Others(r) /\ Steady(r)
 <2>1. s # "put_back" BY DEF Draining
 <2>2. s \notin Unplaced /\ s \notin Placed \cup {"count"} BY <1>c
 <2>3. QED BY <1>b, <1>e, <2>1, <2>2, SteadyGoto
<1> HIDE DEF Quiet
<1>g. Draining \cup {"init_fill", "free_repeat", "read"} \subseteq Quiet BY DEF Quiet
<1>f. ASSUME CalmHeap, DrainDone(r) PROVE Others(r) /\ Steady(r)
 <2>1. CASE Goto(r, "free_repeat") /\ th' = th BY <1>e, <1>f, <1>g, <2>1
 <2>2. CASE Goto(r, "read") /\ Locals(r, [Fresh(th[r]) EXCEPT !.new_buf = Null])
   BY <1>c, <1>d, <1>g, <2>2, SteadyAway
 <2>3. QED BY <1>f, <2>1, <2>2 DEF DrainDone
<1>1. CASE InitFill(r)
 <2> DEFINE o == th[r].new_buf
            rec == Filled(info[o], th[r].block)
 <2>0. o \in Objects
  <3>1. InfoUsed(r) = {o} /\ Safe(r) BY <1>1 DEF InitFill, At, InfoUsed
  <3>2. o # Null BY <3>1 DEF Safe
  <3>3. QED BY <3>2, Pointers
 <2>1. /\ Goto(r, "drain") /\ th' = th /\ pc[r] = "init_fill" /\ o \in Objects
       /\ info' = [info EXCEPT ![o] = rec] /\ queue' = queue
   BY <1>1, <2>0 DEF InitFill, At
 <2>2. info[o].tag = th[r].block.tag BY <2>1, OrderParts DEF ThreadOK, InitOK, HasTag
 <2>3. Calm(info[o], rec) BY <2>1, <2>2, FillsFirst DEF Calm, Filled, InfoType, Objects
 <2>4. o \in Taken BY <2>1 DEF Taken
 <2> HIDE DEF rec
 <2>5. CalmHeap BY <2>1, <2>3, <2>4, CalmWrite
 <2>6. QED BY <1>0, <1>e, <1>g, <2>1, <2>5 DEF Still, Draining
<1>2. CASE InitAdopt(r)
 <2> DEFINE o == th[r].new_buf
            rec == [info[o] EXCEPT !.next_tag = info[th[r].repeat].next_tag]
 <2>0. o \in Objects
  <3>1. InfoUsed(r) = {o, th[r].repeat} /\ Safe(r) BY <1>2 DEF InitAdopt, At, InfoUsed
  <3>2. o # Null BY <3>1 DEF Safe
  <3>3. QED BY <3>2, Pointers
 <2>1. /\ Goto(r, "drain") /\ th' = th /\ o \in Objects
       /\ info' = [info EXCEPT ![o] = rec] /\ queue' = queue
   BY <1>2, <2>0 DEF InitAdopt, At
 <2>2. Calm(info[o], rec) /\ rec.valid = info[o].valid BY <2>1, CalmField DEF Objects
 <2> HIDE DEF rec
 <2>3. CalmHeap BY <2>1, <2>2, CalmWrite
 <2>4. QED BY <1>0, <1>e, <1>g, <2>1, <2>3 DEF Still, Draining
<1>3. CASE DrainNothing(r)
 <2>1. CalmHeap BY <1>3, CalmSame DEF DrainNothing, heap
 <2>2. QED BY <1>0, <1>3, <1>f, <2>1 DEF Still, DrainNothing
<1>4. CASE InitNotValid(r) \/ DrainMore(r) \/ DrainEmpty(r)
 <2>1. CalmHeap BY <1>4, CalmSame DEF InitNotValid, DrainMore, DrainEmpty, heap
 <2>2. QED BY <1>0, <1>4, <1>e, <1>g, <2>1 DEF Still, InitNotValid, DrainMore, DrainEmpty, Draining
<1>9. CASE DrainLoop(r)
 <2> DEFINE l == [th[r] EXCEPT !.set = FALSE]
 <2>1. CalmHeap BY <1>9, CalmSame DEF DrainLoop, heap
 <2>2. Goto(r, "drain_test") /\ Locals(r, l) BY <1>9 DEF DrainLoop
 <2>3. l.waiting_queue = Null /\ l.new_buf = th[r].new_buf /\ l.repeat = th[r].repeat
   BY <1>b, ThreadType DEF LocalsType
 <2> HIDE DEF l
 <2>4. QED BY <1>0, <1>c, <1>g, <2>1, <2>2, <2>3, SteadyAway DEF Still, Draining
<1>5. CASE DrainFree(r)
 <2>1. CalmHeap BY <1>5, CalmFree DEF DrainFree
 <2>2. QED BY <1>0, <1>5, <1>e, <1>g, <2>1 DEF Still, DrainFree, Draining
<1>6. CASE DrainClear(r)
 <2> DEFINE o == Owner(r)
            rec == [info[o] EXCEPT !.waiting_queue = 0]
 <2>1. /\ DrainDone(r) /\ o \in 0 .. Len(info) /\ o # Null
       /\ info' = [info EXCEPT ![o] = rec] /\ queue' = queue
   BY <1>6, OwnerType DEF DrainClear, At, Safe, InfoUsed, Draining
 <2>2. o \in Objects BY <2>1 DEF Objects
 <2>3. Calm(info[o], rec) /\ rec.valid = info[o].valid BY <2>2, CalmField DEF Objects
 <2> HIDE DEF rec, o
 <2>4. CalmHeap BY <2>1, <2>2, <2>3, CalmWrite
 <2>5. QED BY <1>0, <1>f, <2>1, <2>4 DEF Still
<1>7. CASE FreeRepeat(r)
 <2> DEFINE o == th[r].repeat
            rec == [info[o] EXCEPT !.freed = TRUE]
            l == [Fresh(th[r]) EXCEPT !.new_buf = Null, !.repeat = Null]
 <2>1. /\ Goto(r, "read") /\ Locals(r, l) /\ o \in Objects
       /\ info' = [info EXCEPT ![o] = rec] /\ queue' = queue
   BY <1>7, ThreadType DEF FreeRepeat, At, Safe, InfoUsed, Objects
 <2>2. Calm(info[o], rec) /\ rec.valid = info[o].valid BY <2>1, CalmField DEF Objects
 <2>3. l.waiting_queue = Null /\ l.new_buf = Null /\ l.repeat = Null BY <1>d
 <2> HIDE DEF rec, l
 <2>4. CalmHeap BY <2>1, <2>2, CalmWrite
 <2>5. Others(r) /\ Steady(r) BY <1>c, <1>g, <2>1, <2>3, SteadyAway
 <2>6. QED BY <1>0, <2>4, <2>5 DEF Still
<1>8. QED BY <1>1, <1>2, <1>3, <1>4, <1>5, <1>6, <1>7, <1>9

(* An object a step dereferences is one that was allocated. *)
LEMMA Used ==
  ASSUME TypeOK, NEW r \in Readers, Safe(r), NEW o \in InfoUsed(r), o \in 0 .. Len(info)
  PROVE  o \in Objects /\ ~info[o].freed
BY Pointers DEF Safe

LEMMA Step ==
  ASSUME TypeOK, NEW r \in Readers, NEW s, NEW l, Goto(r, s), Locals(r, l)
  PROVE  pc'[r] = s /\ th'[r] = l /\ Others(r)
BY DEF Goto, Locals, Others, TypeOK

(* A data block on its way, but for the steps that move it *)
LEMMA DataStill ==
  ASSUME TypeOK, OrderInv, HoldInv, ~ub, NEW r \in Readers,
         DataLookup(r) \/ PutBack(r) \/ CheckValid(r) \/ Park(r) \/ Count(r) \/ Complete(r)
  PROVE  Still(r)
<1> USE Sizes DEF Null
<1> DEFINE b == th[r].block
<1>a. HandOK(r) /\ TagsOK BY OrderParts DEF HoldInv
<1>1. CASE DataLookup(r)
 <2> DEFINE o == table[b.tag]
            l == [th[r] EXCEPT !.kv[Frame(r)] = o, !.buffer = o, !.found = TRUE]
 <2>1. /\ \/ o # Null /\ Goto(r, "check_valid") /\ Locals(r, l)
          \/ Goto(r, "data_insert") /\ th' = th
       /\ pc[r] = "data_lookup" /\ UNCHANGED env /\ UNCHANGED <<table, info, queue>>
   BY <1>1 DEF DataLookup, At, heap
 <2>2. /\ l.new_buf = th[r].new_buf /\ l.repeat = th[r].repeat
       /\ l.waiting_queue = th[r].waiting_queue /\ l.buffer = o /\ l.block = b
   BY ThreadType DEF LocalsType
 <2>3. th[r].waiting_queue = Null BY <2>1, NoQueue DEF Holding
 <2>4. Reads /\ CalmHeap BY <2>1, CalmSame, StillReads
 <2>5. b.tag \in Tags BY <2>1, BlockType DEF DataSteps
 <2>6. CASE o # Null /\ Goto(r, "check_valid") /\ Locals(r, l)
  <3>1. info[o].tag = b.tag BY <1>a, <2>5, <2>6 DEF TagsOK
  <3> HIDE DEF l, o
  <3>2. pc'[r] = "check_valid" /\ th'[r] = l /\ Others(r) BY <2>6, Step
  <3>3. HasTag(th[r].buffer, th[r].block.tag)' BY <2>1, <2>2, <2>6, <3>1, <3>2 DEF HasTag
  <3>4. Steady(r) BY <2>1, <2>2, <2>3, <3>2, <3>3 DEF Steady, Unplaced, Placed
  <3>5. QED BY <2>4, <3>2, <3>4 DEF Still
 <2>7. CASE Goto(r, "data_insert") /\ th' = th
  <3>1. Others(r) /\ Steady(r) BY <2>1, <2>3, <2>4, <2>7, SteadyGoto DEF Unplaced, Placed
  <3>2. QED BY <2>4, <3>1 DEF Still
 <2>8. QED BY <2>1, <2>6, <2>7
<1>2. CASE PutBack(r)
 <2> DEFINE o == th[r].dummy
            rec == [info[o] EXCEPT !.freed = TRUE]
            l == [th[r] EXCEPT !.dummy = Null]
 <2>1. /\ pc[r] = "put_back" /\ info' = [info EXCEPT ![o] = rec]
       /\ Locals(r, l) /\ Goto(r, "check_valid") /\ UNCHANGED env /\ queue' = queue
   BY <1>2 DEF PutBack, At
 <2>2. o \in Objects /\ HasTag(th[r].buffer, b.tag) /\ th[r].buffer \in Objects
   BY <1>a, <2>1, Pointers DEF HandOK, HasTag, Placed
 <2>3. /\ l.new_buf = th[r].new_buf /\ l.repeat = th[r].repeat
       /\ l.waiting_queue = th[r].waiting_queue /\ l.buffer = th[r].buffer /\ l.block = b
   BY ThreadType DEF LocalsType
 <2>4. Calm(info[o], rec) /\ rec.valid = info[o].valid /\ rec.freed BY <2>2, CalmField DEF Objects, InfoType
 <2>5. info'[o].freed BY <2>1, <2>2, <2>4 DEF Objects, TypeOK
 <2> HIDE DEF rec, l
 <2>6. Reads /\ CalmHeap BY <2>1, <2>2, <2>4, CalmWrite, StillReads
 <2>7. pc'[r] = "check_valid" /\ th'[r] = l /\ Others(r) BY <2>1, Step
 <2>8. HasTag(th[r].buffer, th[r].block.tag)' BY <2>2, <2>3, <2>6, <2>7 DEF HasTag, CalmHeap, Calm
 <2>9. Steady(r) BY <2>1, <2>3, <2>5, <2>7, <2>8 DEF Steady, Unplaced, Placed, Holding
 <2>10. QED BY <2>6, <2>7, <2>9 DEF Still
<1>3. CASE CheckValid(r)
 <2> DEFINE l == [th[r] EXCEPT !.waiting_queue = Null]
 <2>1. /\ pc[r] = "check_valid" /\ UNCHANGED env /\ info' = info
       /\ \/ queue' = FreeLocalQueue(r, queue) /\ Locals(r, l) /\ Goto(r, "copy")
          \/ queue' = queue /\ th' = th /\ Goto(r, "park")
   BY <1>3 DEF CheckValid, At
 <2>2. /\ l.new_buf = th[r].new_buf /\ l.repeat = th[r].repeat
       /\ l.waiting_queue = Null /\ l.buffer = th[r].buffer /\ l.block = b
   BY ThreadType DEF LocalsType
 <2> HIDE DEF l
 <2>3. Reads /\ CalmHeap BY <2>1, CalmFree, CalmSame, StillReads DEF FreeLocalQueue
 <2>4. CASE Locals(r, l) /\ Goto(r, "copy")
  <3>1. pc'[r] = "copy" /\ th'[r] = l /\ Others(r) BY <2>4, Step
  <3>2. HasTag(th[r].buffer, b.tag) /\ th[r].buffer \in Objects
    BY <1>a, <2>1, Pointers DEF HandOK, HasTag, Placed
  <3>3. HasTag(th[r].buffer, th[r].block.tag)' BY <2>2, <2>3, <3>1, <3>2 DEF HasTag, CalmHeap, Calm
  <3>4. Steady(r) BY <2>1, <2>2, <3>1, <3>3 DEF Steady, Unplaced, Placed
  <3>5. QED BY <2>3, <3>1, <3>4 DEF Still
 <2>5. CASE th' = th /\ Goto(r, "park")
  <3>1. Others(r) /\ Steady(r) BY <2>1, <2>3, <2>5, SteadyGoto DEF Unplaced, Placed, Holding
  <3>2. QED BY <2>3, <3>1 DEF Still
 <2>6. QED BY <2>1, <2>4, <2>5
<1>4. CASE Park(r)
 <2>1. PICK s \in {"attach", "enqueue"} : Goto(r, s) BY <1>4 DEF Park
 <2>2. pc[r] = "park" /\ th' = th /\ UNCHANGED env /\ UNCHANGED <<info, queue>> BY <1>4 DEF Park, At, heap
 <2>3. Reads /\ CalmHeap BY <2>2, CalmSame, StillReads
 <2>4. Others(r) /\ Steady(r) BY <2>1, <2>2, <2>3, SteadyGoto DEF Unplaced, Placed, Holding
 <2>5. QED BY <2>3, <2>4 DEF Still
<1>5. CASE Count(r)
 <2> DEFINE o == th[r].buffer
            rec == [info[o] EXCEPT !.n_written = @ + 1]
 <2>1. /\ pc[r] = "count" /\ info' = [info EXCEPT ![o] = rec] /\ UNCHANGED env /\ queue' = queue
       /\ \/ Goto(r, "complete") /\ th' = th
          \/ Return(r)
   BY <1>5 DEF Count, At
 <2>2. o \in Objects BY <1>a, <2>1, Pointers DEF HandOK, HasTag
 <2>3. Calm(info[o], rec) /\ rec.valid = info[o].valid BY <2>2, CalmField DEF Objects
 <2> HIDE DEF rec, o
 <2>4. Reads /\ CalmHeap BY <2>1, <2>2, <2>3, CalmWrite, StillReads
 <2>5. th[r].waiting_queue = Null BY <2>1, NoQueue DEF Holding
 <2>6. Others(r) /\ Steady(r) BY <2>1, <2>4, <2>5, SteadyGoto, SteadyReturn DEF Unplaced, Placed
 <2>7. QED BY <2>4, <2>6 DEF Still
<1>6. CASE Complete(r)
 <2> DEFINE o == th[r].buffer
            rec == [info[o] EXCEPT !.completed = TRUE]
 <2>1. /\ pc[r] = "complete" /\ info' = [info EXCEPT ![o] = rec]
       /\ conn' = conn /\ queue' = queue /\ Goto(r, "prev_lookup")
   BY <1>6 DEF Complete, At
 <2>2. PICK d : Locals(r, [th[r] EXCEPT !.done = d]) BY <1>6 DEF Complete
 <2>3. o \in Objects
  <3>1. InfoUsed(r) = {o} /\ Safe(r) BY <1>6 DEF Complete, At, InfoUsed
  <3>2. QED BY <3>1, Used, ThreadType
 <2>4. Calm(info[o], rec) /\ rec.valid = info[o].valid BY <2>3, CalmField DEF Objects
 <2> HIDE DEF rec, o
 <2>5. Reads /\ CalmHeap BY <2>1, <2>3, <2>4, CalmWrite DEF Reads
 <2>6. th[r].waiting_queue = Null BY <2>1, NoQueue DEF Holding
 <2>7. Others(r) /\ Steady(r)
  <3> DEFINE l == [th[r] EXCEPT !.done = d]
  <3>1. /\ l.new_buf = th[r].new_buf /\ l.repeat = th[r].repeat
        /\ l.waiting_queue = th[r].waiting_queue
    BY ThreadType DEF LocalsType
  <3> HIDE DEF l
  <3>2. Locals(r, l) BY <2>2 DEF l
  <3>3. QED BY <2>1, <2>6, <3>1, <3>2, SteadyAway DEF Unplaced, Placed
 <2>8. QED BY <2>5, <2>7 DEF Still
<1>7. QED BY <1>1, <1>2, <1>3, <1>4, <1>5, <1>6

(* The end of a connection, and a finished buffer on its way to the handler. *)
LEMMA FinishStill ==
  ASSUME TypeOK, HoldInv, NEW r \in Readers, Close(r) \/ FinishedStep(r)
  PROVE  Still(r)
<1> USE Sizes DEF Null
<1> DEFINE Away == {"closed", "prev_sent", "prev_insert", "prev_put_back", "deliver",
                    "set_next", "free_prev", "in_handler", "next_lookup", "next_completed",
                    "remove", "zombie"}
<1>a. Away \cap (Unplaced \cup Placed \cup Holding \cup {"count"}) = {} BY DEF Unplaced, Placed, Holding
<1>b. pc[r] \in Away \cup {"read", "prev_lookup"}
  BY DEF Close, FinishedStep, At, PrevLookup, PrevInsert, PrevPutBack, PrevSent, SetNext,
         FreePrev, CallHandler, HandlerReturns, NextLookup, NextCompleted, DoneRemove, Zombie
<1>c. th[r].waiting_queue = Null BY <1>a, <1>b, NoQueue DEF Holding
<1> DEFINE Kept(l) == l.waiting_queue = Null /\ l.new_buf = th[r].new_buf /\ l.repeat = th[r].repeat
<1>d. \A v : Kept([th[r] EXCEPT !.prev = v]) /\ Kept([th[r] EXCEPT !.next = v]) /\ Kept([th[r] EXCEPT !.dummy = v])
  BY <1>c, ThreadType DEF LocalsType
<1>e. ASSUME CalmHeap, NEW s \in Away, Goto(r, s), th' = th
      PROVE  Others(r) /\ Steady(r)
 <2>1. s # "put_back" OBVIOUS
 <2>2. s \notin Unplaced /\ s \notin Placed \cup {"count"} BY <1>a
 <2>3. QED BY <1>c, <1>e, <2>1, <2>2, SteadyGoto
<1>f. ASSUME NEW s \in Away, NEW l, Goto(r, s), Locals(r, l), Kept(l)
      PROVE  Others(r) /\ Steady(r)
 <2>1. s \notin Unplaced /\ s \notin Placed /\ s # "count" BY <1>a
 <2>2. QED BY <1>f, <2>1, SteadyAway
<1> HIDE DEF Away
<1>g. {"closed", "prev_sent", "prev_insert", "prev_put_back", "deliver",
       "set_next", "free_prev", "in_handler", "next_lookup", "next_completed",
       "remove", "zombie"} \subseteq Away
  BY DEF Away
<1>1. CASE Close(r)
 <2>1. Reads /\ CalmHeap
  <3>1. conn' = [conn EXCEPT ![r] = <<>>] /\ UNCHANGED <<info, queue>> BY <1>1 DEF Close, heap
  <3>2. \A s \in Readers : conn'[s] \in {conn[s], <<>>} BY <3>1 DEF TypeOK
  <3>3. QED BY <3>1, <3>2, CalmSame DEF Reads
 <2>2. QED BY <1>1, <1>e, <1>g, <2>1 DEF Close, Still
<1>2. CASE PrevLookup(r) \/ PrevSent(r) \/ CallHandler(r) \/ NextLookup(r)
           \/ NextCompleted(r) \/ DoneRemove(r)
 <2>1. Reads /\ CalmHeap
  <3>1. UNCHANGED <<info, queue>> /\ conn' = conn
    BY <1>2 DEF PrevLookup, PrevSent, CallHandler, NextLookup, NextCompleted, DoneRemove,
                heap, env
  <3>2. QED BY <3>1, CalmSame DEF Reads
 <2>2. CASE PrevLookup(r) BY <1>d, <1>e, <1>f, <1>g, <2>1, <2>2 DEF PrevLookup, Still
 <2>3. CASE PrevSent(r) \/ CallHandler(r) \/ DoneRemove(r)
   BY <1>e, <1>g, <2>1, <2>3 DEF PrevSent, CallHandler, DoneRemove, Still
 <2>4. CASE NextLookup(r) BY <1>d, <1>e, <1>f, <1>g, <2>1, <2>4 DEF NextLookup, Still
 <2>5. CASE NextCompleted(r)
  <3> DEFINE l == [th[r] EXCEPT !.calls = Append(@, th[r].done), !.done = th[r].next, !.next = Null]
  <3>1. Kept(l) BY <1>c, ThreadType DEF LocalsType
  <3> HIDE DEF l
  <3>2. \/ Locals(r, l) /\ Goto(r, "deliver")
        \/ Goto(r, "zombie") /\ th' = th
    BY <2>5 DEF NextCompleted, l
  <3>3. QED BY <1>e, <1>f, <1>g, <2>1, <3>1, <3>2 DEF Still
 <2>6. QED BY <1>2, <2>2, <2>3, <2>4, <2>5
<1>3. CASE PrevInsert(r)
 <2> DEFINE rec == Dummy(info[th[r].done].prev_tag, info[th[r].done].tag, 0)
            t == info[th[r].done].prev_tag
            d == Len(info) + 1
            l1 == [th[r] EXCEPT !.prev = d]
            l2 == [th[r] EXCEPT !.prev = table[t], !.dummy = d]
 <2>1. Blank(rec) BY DEF Blank, Dummy, Calloc
 <2>2. /\ info' = Append(info, rec) /\ queue' = queue /\ UNCHANGED env
       /\ \/ Locals(r, l1) /\ Goto(r, "prev_sent")
          \/ Locals(r, l2) /\ Goto(r, "prev_put_back")
   BY <1>3 DEF PrevInsert
 <2>3. Kept(l2) BY <1>c, ThreadType DEF LocalsType
 <2>4. Kept(l1) BY <1>d
 <2> HIDE DEF rec, l1, l2
 <2>5. Reads /\ CalmHeap BY <2>1, <2>2, CalmAlloc, StillReads
 <2>6. Others(r) /\ Steady(r) BY <1>f, <1>g, <2>2, <2>3, <2>4
 <2>7. QED BY <2>5, <2>6 DEF Still
<1>4. CASE PrevPutBack(r)
 <2> DEFINE o == th[r].dummy
            rec == [info[o] EXCEPT !.freed = TRUE]
            l == [th[r] EXCEPT !.dummy = 0]
 <2>1. /\ Goto(r, "prev_sent") /\ Locals(r, l) /\ UNCHANGED env
       /\ info' = [info EXCEPT ![o] = rec] /\ queue' = queue
   BY <1>4 DEF PrevPutBack
 <2>2. o \in Objects
  <3>1. InfoUsed(r) = {o} /\ Safe(r) BY <1>4 DEF PrevPutBack, At, InfoUsed
  <3>2. QED BY <3>1, Used, ThreadType
 <2>3. Calm(info[o], rec) /\ rec.valid = info[o].valid BY <2>2, CalmField DEF Objects
 <2>4. Kept(l) BY <1>d
 <2> HIDE DEF rec, o, l
 <2>5. Reads /\ CalmHeap BY <2>1, <2>2, <2>3, CalmWrite, StillReads
 <2>6. QED BY <1>f, <1>g, <2>1, <2>4, <2>5 DEF Still
<1>5. CASE SetNext(r) \/ FreePrev(r)
 <2> DEFINE o == th[r].prev
            next == [info[o] EXCEPT !.next_tag = info[th[r].done].tag]
            free == [info[o] EXCEPT !.freed = TRUE]
 <2>1. /\ queue' = queue /\ UNCHANGED env
       /\ \/ info' = [info EXCEPT ![o] = next] /\ Return(r)
          \/ info' = [info EXCEPT ![o] = free] /\ Goto(r, "deliver") /\ th' = th
   BY <1>5 DEF SetNext, FreePrev
 <2>2. o \in Objects
  <3>1. InfoUsed(r) = {o, th[r].done} /\ Safe(r) BY <1>5 DEF SetNext, FreePrev, At, InfoUsed
  <3>2. QED BY <3>1, Used, ThreadType
 <2>3. /\ Calm(info[o], next) /\ next.valid = info[o].valid
       /\ Calm(info[o], free) /\ free.valid = info[o].valid
   BY <2>2, CalmField DEF Objects
 <2> HIDE DEF next, free, o
 <2>4. Reads /\ CalmHeap BY <2>1, <2>2, <2>3, CalmWrite, StillReads
 <2>5. QED BY <1>e, <1>g, <2>1, <2>4, SteadyReturn DEF Still
<1>6. CASE HandlerReturns(r)
 <2> DEFINE o == th[r].done
            rec == [info[o] EXCEPT !.buffer = IF @ = "null" THEN @ ELSE "freed"]
 <2>1. /\ queue' = queue /\ conn' = conn /\ Goto(r, "next_lookup") /\ th' = th
       /\ info' = [info EXCEPT ![o] = rec]
   BY <1>6 DEF HandlerReturns
 <2>2. o \in Objects
  <3>1. InfoUsed(r) = {o} /\ Safe(r) BY <1>6 DEF HandlerReturns, At, InfoUsed
  <3>2. QED BY <3>1, Used, ThreadType
 <2>3. Calm(info[o], rec) /\ rec.valid = info[o].valid BY <2>2 DEF Objects, Calm, InfoType
 <2> HIDE DEF rec, o
 <2>4. Reads /\ CalmHeap BY <2>1, <2>2, <2>3, CalmWrite DEF Reads
 <2>5. QED BY <1>e, <1>g, <2>1, <2>4 DEF Still
<1>7. CASE Zombie(r)
 <2> DEFINE o == th[r].done
            n == Len(th[r].calls)
            rec == [info[o] EXCEPT !.sent = TRUE]
            l == [th[r] EXCEPT !.done = th[r].calls[n], !.next = 0,
                               !.calls = SubSeq(th[r].calls, 1, n - 1)]
 <2>1. /\ queue' = queue /\ UNCHANGED env /\ info' = [info EXCEPT ![o] = rec]
       /\ Return(r) \/ (Locals(r, l) /\ Goto(r, "remove"))
   BY <1>7 DEF Zombie
 <2>2. o \in Objects
  <3>1. InfoUsed(r) = {o} /\ Safe(r) BY <1>7 DEF Zombie, At, InfoUsed
  <3>2. QED BY <3>1, Used, ThreadType
 <2>3. Calm(info[o], rec) /\ rec.valid = info[o].valid BY <2>2, CalmField DEF Objects
 <2>4. Kept(l) BY <1>c, ThreadType DEF LocalsType
 <2> HIDE DEF rec, o, l
 <2>5. Reads /\ CalmHeap BY <2>1, <2>2, <2>3, CalmWrite, StillReads
 <2>6. QED BY <1>f, <1>g, <2>1, <2>4, <2>5, SteadyReturn DEF Still
<1>8. QED BY <1>1, <1>2, <1>3, <1>4, <1>5, <1>6, <1>7 DEF FinishedStep

(* Steps that move a block, or decide what is filled: thread r alone acts,  *)
(* and e2 is the guess before the step that the guess e after it comes from.*)

LEMMA OthersHands ==
  ASSUME TypeOK, NEW r \in Readers, Others(r), NEW e, NEW e2,
         \A o \in Objects : o \in Fillable(e)' => o \in Fillable(e2),
         pc'[r] = "put_back" => th'[r].dummy \notin Objects
  PROVE  /\ \A o \in Objects : o \in Beside(e)' => o \in Beside(e2)
         /\ \A s \in Readers \ {r} : \A k : Coming(s, k)' => Coming(s, k)
         /\ \A s \in Readers \ {r} : \A k : Bound(s, k, e)' => Bound(s, k, e2)
<1>1. Fillable(e)' \subseteq Objects' /\ Beside(e)' \subseteq Objects' BY DEF Fillable, Beside
<1>2. ASSUME NEW o \in Objects, o \in Beside(e)' PROVE o \in Beside(e2)
 <2>1. PICK s \in Readers : pc'[s] = "put_back" /\ th'[s].dummy = o /\ th'[s].buffer \in Fillable(e)'
   BY <1>2 DEF Beside
 <2>2. s # r /\ pc[s] = "put_back" /\ th'[s] = th[s] BY <2>1 DEF Others
 <2>3. th[s].buffer \in Objects BY <1>1, <2>1, <2>2, Pointers
 <2>4. QED BY <2>1, <2>2, <2>3 DEF Beside
<1>3. \A s \in Readers \ {r} : \A k : Coming(s, k)' => Coming(s, k) BY DEF Others, Coming
<1>4. ASSUME NEW s \in Readers \ {r}, NEW k, Bound(s, k, e)' PROVE Bound(s, k, e2)
 <2>1. /\ pc'[s] \in Placed /\ BlockName(th'[s].block) = k
       /\ th'[s].buffer \in Fillable(e)' \cup Beside(e)'
   BY <1>4 DEF Bound
 <2>2. th'[s] = th[s] /\ pc'[s] = pc[s] BY DEF Others
 <2>3. th[s].buffer \in Objects BY <1>1, <2>1, <2>2, Pointers
 <2>4. QED BY <1>2, <2>1, <2>2, <2>3 DEF Bound
<1>5. QED BY <1>2, <1>3, <1>4

LEMMA OthersHold ==
  ASSUME TypeOK, NEW r \in Readers, Others(r), NEW e, NEW e2,
         \A o \in Objects : o \in Fillable(e)' => o \in Fillable(e2),
         NEW s \in Readers \ {r}, NEW q, Holds(s, q, e)'
  PROVE  Holds(s, q, e2) /\ th'[s] = th[s]
<1>1. th'[s].waiting_queue = q /\ th'[s].buffer \in Fillable(e)' BY DEF Holds
<1>2. th'[s] = th[s] BY DEF Others
<1>3. th[s].buffer \in Objects BY <1>1, <1>2, Pointers DEF Fillable
<1>4. QED BY <1>1, <1>2, <1>3 DEF Holds

(* No object takes over a queue, and r holds none but as before. *)
LEMMA OthersDrain ==
  ASSUME TypeOK, NEW r \in Readers, Others(r), NEW e, NEW e2,
         \A o \in Objects : o \in Fillable(e)' => o \in Fillable(e2),
         NEW q, NEW k, Drains(q, k, e)',
         \A o \in Objects' : info'[o].waiting_queue = q =>
           o \in Objects /\ info[o].waiting_queue = q,
         Holds(r, q, e)' => FALSE
  PROVE  Drains(q, k, e2)
<1>1. CASE \E o \in Fillable(e)' : info'[o].waiting_queue = q
 <2>1. PICK o \in Fillable(e)' : info'[o].waiting_queue = q BY <1>1
 <2>2. o \in Objects' BY DEF Fillable
 <2>3. o \in Objects /\ info[o].waiting_queue = q BY <2>1, <2>2
 <2>4. QED BY <2>3 DEF Drains
<1>2. CASE \E s \in Readers : Holds(s, q, e)' /\ BlockName(th'[s].block) # k
 <2>1. PICK s \in Readers : Holds(s, q, e)' /\ BlockName(th'[s].block) # k BY <1>2
 <2>2. s \in Readers \ {r} BY <2>1
 <2>3. Holds(s, q, e2) /\ th'[s] = th[s] BY <2>1, <2>2, OthersHold
 <2>4. QED BY <2>1, <2>3 DEF Drains
<1>3. QED BY <1>1, <1>2 DEF Drains

LEMMA AwaitedShrinks ==
  ASSUME TypeOK, NEW r \in Readers, Others(r),
         \A k : OnWire(k)' \subseteq OnWire(k),
         \A t \in Tags : Coming(r, <<t, -1>>)' => t \in Awaited
  PROVE  Awaited' \subseteq Awaited
<1>1. \A s \in Readers \ {r} : \A k : Coming(s, k)' => Coming(s, k) BY DEF Others, Coming
<1>2. QED BY <1>1 DEF Awaited

LEMMA TakenSame ==
  ASSUME TypeOK, NEW r \in Readers, Others(r),
         th'[r].new_buf \in {Null, th[r].new_buf}, th'[r].repeat \in {Null, th[r].repeat}
  PROVE  Taken' \subseteq Taken
<1>1. \A s \in Readers : /\ th'[s].new_buf \in {Null, th[s].new_buf}
                         /\ th'[s].repeat \in {Null, th[s].repeat}
  BY DEF Others
<1>2. \A s \in Readers : /\ th[s].new_buf \in {Null} \cup Objects
                         /\ th[s].repeat \in {Null} \cup Objects
  BY Pointers
<1>3. Null \notin Objects' BY Pointers
<1>4. QED BY <1>1, <1>2, <1>3 DEF Taken

LEMMA FillableKept ==
  ASSUME TypeOK, Firm, Awaited' \subseteq Awaited, \A o \in Objects : o \in Taken' => o \in Taken, NEW e
  PROVE  \A o \in Objects : o \in Fillable(e)' => o \in Fillable(e)
BY DEF Firm, Fillable

LEMMA UntouchedKept ==
  ASSUME HoldInv, Firm, Awaited' \subseteq Awaited, \A o \in Objects : o \in Taken' => o \in Taken
  PROVE  \A o \in Objects : Untouched(o)'
BY DEF HoldInv, Untouched, Firm

(* At most the object d gets a queue, w, that nobody else has. *)
LEMMA HoldMove ==
  ASSUME TypeOK, HoldInv, NEW r \in Readers, Others(r), r \in Handed',
         \A o \in Objects : o \in Objects' /\ info'[o].tag = info[o].tag,
         NEW d, NEW w, Gets(r, d, w),
         AllUntouched'
  PROVE  HoldInv'
<1>1. ASSUME NEW s \in Readers PROVE HandOK(s)'
 <2>1. CASE s = r BY <2>1 DEF Handed
 <2>2. CASE s # r
  <3>1. th'[s] = th[s] /\ pc'[s] = pc[s] /\ HandOK(s) /\ th[s].waiting_queue # w
    BY <2>2 DEF Others, HoldInv, Gets
  <3>2. th'[s].waiting_queue # Null => pc'[s] \in Holding BY <3>1 DEF HandOK
  <3>3. pc'[s] \in Placed \cup {"count"} => HasTag(th[s].buffer, th[s].block.tag)'
    BY <3>1, Pointers DEF HandOK, HasTag
  <3>4. pc'[s] = "put_back" => HasTag(th[s].dummy, th[s].block.tag)' BY <3>1, Pointers DEF HandOK, HasTag
  <3>5. ASSUME NEW o \in Objects', ~info'[o].freed, info'[o].waiting_queue # Null,
               info'[o].waiting_queue = th'[s].waiting_queue
        PROVE  pc'[s] = "put_back" /\ o = th'[s].dummy
    BY <3>1, <3>5 DEF HandOK, Gets
  <3>6. QED BY <3>2, <3>3, <3>4, <3>5 DEF HandOK
 <2>3. QED BY <2>1, <2>2
<1>2. ASSUME NEW s \in Readers, NEW q \in Readers, s # q,
             th'[s].waiting_queue = th'[q].waiting_queue
      PROVE  th'[s].waiting_queue = Null
 <2>1. /\ s # r => th'[s] = th[s] /\ th[s].waiting_queue # w
       /\ q # r => th'[q] = th[q] /\ th[q].waiting_queue # w
   BY DEF Others, Gets
 <2>2. th[s].waiting_queue = th[q].waiting_queue => th[s].waiting_queue = Null BY <1>2 DEF HoldInv
 <2>3. QED BY <1>2, <2>1, <2>2 DEF Gets
<1>3. ASSUME NEW o \in Objects', NEW p \in Objects', ~info'[o].freed, ~info'[p].freed,
             info'[o].waiting_queue = info'[p].waiting_queue, o # p
      PROVE  info'[o].waiting_queue = Null
  BY <1>3 DEF HoldInv, Gets
<1>4. QED BY <1>1, <1>2, <1>3 DEF HoldInv, AllUntouched

LEMMA HoldStays ==
  ASSUME TypeOK, HoldInv, NEW r \in Readers, Others(r), r \in Handed',
         \A o \in Objects : o \in Objects' /\ info'[o].tag = info[o].tag,
         \A o \in Objects' : ~info'[o].freed /\ info'[o].waiting_queue # Null =>
           o \in Objects /\ ~info[o].freed /\ info[o].waiting_queue = info'[o].waiting_queue,
         th'[r].waiting_queue \in {Null, th[r].waiting_queue},
         AllUntouched'
  PROVE  HoldInv'
<1>1. Gets(r, Null, -1)
 <2>1. \A s \in Readers \ {r} : th[s].waiting_queue # -1 BY ThreadType
 <2>2. \A o \in Objects : info[o].waiting_queue # -1 BY Sizes DEF Objects, InfoType
 <2>3. QED BY <2>1, <2>2 DEF Gets
<1>2. QED BY <1>1, HoldMove

LEMMA SoleMoves ==
  ASSUME NEW W, NEW H, NEW P, NEW C, Sole(W, H, P, C),
         NEW W2, NEW H2, NEW P2, NEW C2,
         W2 \subseteq W, H2 \subseteq H, C2 \subseteq C,
         AtMostOne(P2), P2 # {} => P # {}
  PROVE  Sole(W2, H2, P2, C2)
<1>1. AtMostOne(W2) /\ AtMostOne(H2) /\ AtMostOne(C2) BY DEF Sole, AtMostOne
<1>2. QED BY <1>1 DEF Sole

LEMMA NameOf ==
  ASSUME NEW b \in Blocks
  PROVE  /\ BlockName(b) \in Names /\ BlockName(b)[1] = b.tag
         /\ b \in InitBlocks => BlockName(b) = <<b.tag, -1>>
         /\ b \in DataBlocks => BlockName(b) = <<b.tag, b.seq_number>> /\ b.seq_number \in 0 .. MaxSize - 1
<1>1. ASSUME b \in InitBlocks
      PROVE  BlockName(b) = <<b.tag, -1>> /\ b.tag \in Tags
  BY <1>1 DEF BlockName, InitBlocks
<1>2. ASSUME b \in DataBlocks
      PROVE  /\ BlockName(b) = <<b.tag, b.seq_number>> /\ b.tag \in Tags
             /\ b.seq_number \in 0 .. MaxSize - 1
  BY <1>2 DEF BlockName, DataBlocks
<1>3. MaxSize \in Int BY StandardsAssumption
<1>4. QED BY <1>1, <1>2, <1>3 DEF Blocks, Names

(* A block comes in. *)

LEMMA ReadWire ==
  ASSUME TypeOK, NEW r \in Readers, conn[r] # <<>>, conn' = [conn EXCEPT ![r] = Tail(@)],
         NEW m, m = BlockName(Head(conn[r])), NEW x, x = <<r, Len(conn[r]) - 1>>
  PROVE  /\ x \in OnWire(m) /\ x \notin OnWire(m)'
         /\ \A k : OnWire(k)' \subseteq OnWire(k)
<1> DEFINE c == conn[r]
<1>1. /\ Len(c) \in Nat \ {0} /\ Head(c) = c[1] /\ Len(Tail(c)) = Len(c) - 1
      /\ \A i \in 1 .. Len(c) - 1 : Tail(c)[i] = c[i + 1]
  BY DEF TypeOK
<1>2. /\ Len(conn'[r]) = Len(c) - 1
      /\ \A i \in 1 .. Len(c) - 1 : conn'[r][i] = c[i + 1]
      /\ \A s \in Readers \ {r} : conn'[s] = conn[s]
  BY <1>1 DEF TypeOK
<1>3. x \in OnWire(m)
 <2>1. Len(c) - 1 \in Nat /\ Len(c) - 1 < Len(c) /\ Len(c) - (Len(c) - 1) = 1 BY <1>1
 <2>2. Waits(r, Len(c) - 1, m) BY <1>1, <2>1 DEF Waits
 <2>3. x \in Readers \X Nat /\ x[1] = r /\ x[2] = Len(c) - 1 BY <2>1
 <2>4. QED BY <2>2, <2>3 DEF OnWire
<1>4. x \notin OnWire(m)'
 <2>1. ~(Len(c) - 1 < Len(conn'[r])) BY <1>1, <1>2
 <2>2. QED BY <2>1 DEF OnWire, Waits
<1>5. ASSUME NEW k, NEW p \in Readers \X Nat, Waits(p[1], p[2], k)'
      PROVE  Waits(p[1], p[2], k)
 <2>1. CASE p[1] # r BY <1>2, <1>5, <2>1 DEF Waits
 <2>2. CASE p[1] = r
  <3> DEFINE j == p[2]
  <3>0. j < Len(conn'[r]) /\ BlockName(conn'[r][Len(conn'[r]) - j]) = k BY <1>5, <2>2 DEF Waits
  <3>1. j \in Nat /\ j < Len(c) - 1 /\ BlockName(conn'[r][Len(c) - 1 - j]) = k BY <1>2, <3>0
  <3>2. Len(c) - 1 - j \in 1 .. Len(c) - 1 /\ Len(c) - 1 - j + 1 = Len(c) - j BY <1>1, <3>1
  <3>3. conn'[r][Len(c) - 1 - j] = c[Len(c) - j] BY <1>2, <3>2
  <3>4. j < Len(c) BY <1>1, <3>1
  <3>5. QED BY <2>2, <3>1, <3>3, <3>4 DEF Waits
 <2>3. QED BY <2>1, <2>2
<1>6. \A k : OnWire(k)' \subseteq OnWire(k) BY <1>5 DEF OnWire
<1>7. QED BY <1>3, <1>4, <1>6

LEMMA ReadMove ==
  ASSUME TypeOK, OrderInv, HoldInv, OnceInv, ~ub, NEW r \in Readers, Read(r)
  PROVE  OnceInv' /\ HoldInv'
<1> USE Sizes DEF Null
<1> DEFINE b == Head(conn[r])
           l == [th[r] EXCEPT !.block = b]
<1>m. PICK m : m = BlockName(b) OBVIOUS
<1>x. PICK x : x = <<r, Len(conn[r]) - 1>> OBVIOUS
<1>1. /\ pc[r] = "read" /\ conn[r] # <<>> /\ conn' = [conn EXCEPT ![r] = Tail(@)]
      /\ Locals(r, l) /\ UNCHANGED <<table, info, queue>>
      /\ \E s \in {"init_lookup", "data_lookup"} : Goto(r, s)
  BY DEF Read, At, heap
<1>2. /\ l.block = b /\ l.new_buf = th[r].new_buf /\ l.repeat = th[r].repeat
      /\ l.waiting_queue = th[r].waiting_queue
  BY ThreadType DEF LocalsType
<1>3. th[r].waiting_queue = Null BY <1>1, NoQueue DEF Holding
<1>4. b \in Blocks BY <1>1 DEF TypeOK
<1>5. m \in Names BY <1>4, <1>m, NameOf
<1> HIDE DEF l
<1>6. /\ pc'[r] \in {"init_lookup", "data_lookup"} /\ th'[r] = l /\ Others(r) BY <1>1, Step
<1>7. x \in OnWire(m) /\ x \notin OnWire(m)' /\ \A k : OnWire(k)' \subseteq OnWire(k)
  BY <1>1, <1>m, <1>x, ReadWire
<1> HIDE DEF b
<1>8. \A k : Coming(r, k)' => k = m BY <1>m, <1>2, <1>6 DEF Coming
<1>9. Awaited' \subseteq Awaited
 <2>1. \A t \in Tags : Coming(r, <<t, -1>>)' => t \in Awaited BY <1>7, <1>8 DEF Awaited
 <2>2. QED BY <1>6, <1>7, <2>1, AwaitedShrinks
<1>10. Taken' \subseteq Taken BY <1>2, <1>6, TakenSame
<1>11. Firm /\ Objects' = Objects BY <1>1 DEF Firm, Objects
<1>12. \A e : \A o \in Objects : o \in Fillable(e)' => o \in Fillable(e) BY <1>9, <1>10, <1>11, FillableKept
<1>13. pc'[r] \notin Placed /\ pc'[r] \notin Holding /\ pc'[r] # "count" BY <1>6 DEF Placed, Holding
<1>14. th'[r].waiting_queue = Null BY <1>2, <1>3, <1>6
<1>15. \A e : \A q \in 1 .. Len(queue) : ~Holds(r, q, e)' BY <1>14 DEF Holds
<1>16. OnceInv'
 <2> SUFFICES ASSUME NEW k \in Names, NEW e PROVE Places(k, e)' /\ Paired(k, e)' BY DEF OnceInv
 <2>1. Places(k, e) /\ Paired(k, e) BY DEF OnceInv
 <2>2. \A s \in Readers \ {r} : /\ Coming(s, k)' => Coming(s, k)
                                /\ Bound(s, k, e)' => Bound(s, k, e)
   BY <1>6, <1>12, OthersHands
 <2>3. InHands(k, e)' \subseteq InHands(k, e) \cup (IF k = m THEN {r} ELSE {})
  <3>1. ~Bound(r, k, e)' BY <1>13 DEF Bound
  <3>2. QED BY <1>8, <2>2, <3>1 DEF InHands
 <2>4. InQueues(k, e)' \subseteq InQueues(k, e)
  <3>1. ASSUME NEW p \in Nat \X Nat, Lies(p[1], p[2], k)', Drains(p[1], k, e)'
        PROVE  Lies(p[1], p[2], k) /\ Drains(p[1], k, e)
   <4>1. Lies(p[1], p[2], k) BY <1>1, <3>1 DEF Lies
   <4>2. p[1] \in 1 .. Len(queue) BY <4>1 DEF Lies
   <4>3. Drains(p[1], k, e) BY <1>1, <1>6, <1>11, <1>12, <1>15, <3>1, <4>2, OthersDrain
   <4>4. QED BY <4>1, <4>3
  <3>2. QED BY <3>1 DEF InQueues
 <2>5. InBuffers(k)' \subseteq InBuffers(k) BY <1>1, <1>11 DEF InBuffers
 <2>6. Places(k, e)'
  <3>1. CASE k = m
   <4>1. OnWire(k)' \subseteq OnWire(k) \ {x} /\ x \in OnWire(k) BY <1>7, <3>1
   <4>2. InHands(k, e)' \subseteq InHands(k, e) \cup {r} BY <2>3
   <4>3. QED BY <2>1, <2>4, <2>5, <4>1, <4>2, SoleRead DEF Places
  <3>2. CASE k # m
   <4>1. InHands(k, e)' \subseteq InHands(k, e) BY <2>3, <3>2
   <4>2. OnWire(k)' \subseteq OnWire(k) BY <1>7
   <4>3. QED BY <2>1, <2>4, <2>5, <4>1, <4>2, SoleShrinks DEF Places
  <3>3. QED BY <3>1, <3>2
 <2>7. Paired(k, e)'
  <3> SUFFICES ASSUME NEW s \in Readers, NEW q \in 1 .. Len(queue)',
                      Holds(s, q, e)', BlockName(th'[s].block) = k,
                      NEW i \in Nat, NEW j \in Nat, Lies(q, i, k)', Lies(q, j, k)'
               PROVE  i = j
    BY DEF Paired, AtMostOne
  <3>1. q \in 1 .. Len(queue) /\ Lies(q, i, k) /\ Lies(q, j, k) BY <1>1 DEF Lies
  <3>2. s # r BY <1>15, <3>1
  <3>3. Holds(s, q, e) /\ th'[s] = th[s] BY <1>6, <1>12, <3>2, OthersHold
  <3>4. QED BY <2>1, <3>1, <3>3 DEF Paired, AtMostOne
 <2>8. QED BY <2>6, <2>7
<1>17. HoldInv'
 <2>1. r \in Handed' BY <1>13, <1>14, <1>6 DEF HandOK, Handed
 <2>2. AllUntouched' BY <1>9, <1>10, <1>11, UntouchedKept DEF AllUntouched
 <2>3. \A o \in Objects' : o \in Objects /\ info'[o] = info[o] BY <1>1, <1>11
 <2>4. \A o \in Objects : o \in Objects' /\ info'[o].tag = info[o].tag BY <1>1, <1>11
 <2>5. QED BY <1>6, <1>14, <2>1, <2>2, <2>3, <2>4, HoldStays
<1>18. QED BY <1>16, <1>17

(* An init block meets its object. *)

(* Thread r has neither block nor queue after the step. *)
LEMMA EmptyHanded ==
  ASSUME TypeOK, OnceInv, NEW r \in Readers, Others(r),
         pc'[r] \notin Unplaced \cup Placed, th'[r].waiting_queue = Null,
         \A k : OnWire(k)' \subseteq OnWire(k),
         \A k : InBuffers(k)' \subseteq InBuffers(k),
         \A q, i, k : Lies(q, i, k)' => Lies(q, i, k),
         \A o \in Objects' : info'[o].waiting_queue # Null =>
           o \in Objects /\ info[o].waiting_queue = info'[o].waiting_queue,
         \A e : \E e2 : From(e, e2)
  PROVE  OnceInv'
<1> SUFFICES ASSUME NEW k \in Names, NEW e PROVE Places(k, e)' /\ Paired(k, e)' BY DEF OnceInv
<1>1. PICK e2 : From(e, e2) OBVIOUS
<1>2. Places(k, e2) /\ Paired(k, e2) BY DEF OnceInv
<1>3. \A o \in Objects : o \in Fillable(e)' => o \in Fillable(e2) BY <1>1 DEF From
<1>4. pc'[r] # "put_back" BY DEF Placed
<1>5. InHands(k, e)' \subseteq InHands(k, e2)
 <2>1. \A s \in Readers \ {r} : /\ Coming(s, k)' => Coming(s, k)
                                /\ Bound(s, k, e)' => Bound(s, k, e2)
   BY <1>3, <1>4, OthersHands
 <2>2. ~Coming(r, k)' /\ ~Bound(r, k, e)' BY DEF Coming, Bound
 <2>3. QED BY <2>1, <2>2 DEF InHands
<1>6. \A q \in 1 .. Len(queue) : ~Holds(r, q, e)' /\ q # Null BY DEF Holds, Null
<1>7. InQueues(k, e)' \subseteq InQueues(k, e2)
 <2>1. ASSUME NEW p \in Nat \X Nat, Lies(p[1], p[2], k)', Drains(p[1], k, e)'
       PROVE  Lies(p[1], p[2], k) /\ Drains(p[1], k, e2)
  <3>1. Lies(p[1], p[2], k) BY <2>1
  <3>2. p[1] \in 1 .. Len(queue) BY <3>1 DEF Lies
  <3>3. ~Holds(r, p[1], e)' /\ p[1] # Null BY <1>6, <3>2
  <3>4. Drains(p[1], k, e2) BY <1>3, <2>1, <3>3, OthersDrain
  <3>5. QED BY <3>1, <3>4
 <2>2. QED BY <2>1 DEF InQueues
<1>8. Places(k, e)'
 <2>1. OnWire(k)' \subseteq OnWire(k) /\ InBuffers(k)' \subseteq InBuffers(k) OBVIOUS
 <2>2. QED BY <1>2, <1>5, <1>7, <2>1, SoleShrinks DEF Places
<1>9. Paired(k, e)'
 <2> SUFFICES ASSUME NEW s \in Readers, NEW q \in 1 .. Len(queue)',
                     Holds(s, q, e)', BlockName(th'[s].block) = k,
                     NEW i \in Nat, NEW j \in Nat, Lies(q, i, k)', Lies(q, j, k)'
              PROVE  i = j
   BY DEF Paired, AtMostOne
 <2>1. Lies(q, i, k) /\ Lies(q, j, k) OBVIOUS
 <2>2. q \in 1 .. Len(queue) BY <2>1 DEF Lies
 <2>3. s # r BY <1>6, <2>2
 <2>4. Holds(s, q, e2) /\ th'[s] = th[s] BY <1>3, <2>3, OthersHold
 <2>5. QED BY <1>2, <2>1, <2>2, <2>4 DEF Paired, AtMostOne
<1>10. QED BY <1>8, <1>9

(* Once the only init block of a tag is being handled, none is awaited. *)
LEMMA Announces ==
  ASSUME TypeOK, OnceInv, NEW r \in Readers, Others(r), conn' = conn,
         NEW t \in Tags, Coming(r, <<t, -1>>), pc'[r] \notin Unplaced
  PROVE  /\ Awaited' \subseteq Awaited \ {t} /\ t \in Awaited
         /\ \A k : OnWire(k)' \subseteq OnWire(k)
<1>1. \A k : OnWire(k)' = OnWire(k) BY DEF OnWire, Waits
<1>2. <<t, -1>> \in Names BY DEF Names
<1>3. Places(<<t, -1>>, 0) BY <1>2 DEF OnceInv
<1>4. r \in InHands(<<t, -1>>, 0) BY DEF InHands
<1>5. OnWire(<<t, -1>>) = {} /\ InHands(<<t, -1>>, 0) \subseteq {r} BY <1>3, <1>4 DEF Places, Sole, AtMostOne
<1>6. \A s \in Readers \ {r} : ~Coming(s, <<t, -1>>) BY <1>5 DEF InHands
<1>7. \A s \in Readers \ {r} : \A k : Coming(s, k)' => Coming(s, k) BY DEF Others, Coming
<1>8. \A k : ~Coming(r, k)' BY DEF Coming
<1>9. Awaited' \subseteq Awaited BY <1>1, <1>7, <1>8 DEF Awaited
<1>10. t \notin Awaited' BY <1>1, <1>5, <1>6, <1>7, <1>8 DEF Awaited
<1>11. QED BY <1>1, <1>9, <1>10 DEF Awaited

LEMMA InitLookupMove ==
  ASSUME TypeOK, OrderInv, HoldInv, OnceInv, ~ub, NEW r \in Readers, InitLookup(r)
  PROVE  OnceInv' /\ HoldInv'
<1> USE Sizes DEF Null
<1>t. PICK t : t = th[r].block.tag OBVIOUS
<1>o. PICK o : o = table[t] OBVIOUS
<1> DEFINE l == [th[r] EXCEPT !.new_buf = o]
<1>1. /\ pc[r] = "init_lookup" /\ conn' = conn /\ ub' = ub
      /\ Locals(r, l) /\ UNCHANGED <<table, info, queue>>
      /\ Goto(r, IF o = Null THEN "init_insert" ELSE "init_valid")
  BY <1>t, <1>o DEF InitLookup, At, heap, env
<1>2. /\ l.block = th[r].block /\ l.new_buf = o /\ l.repeat = th[r].repeat
      /\ l.waiting_queue = th[r].waiting_queue
  BY ThreadType DEF LocalsType
<1>3. th[r].waiting_queue = Null BY <1>1, NoQueue DEF Holding
<1>4. th[r].block \in InitBlocks /\ t \in Tags BY <1>1, <1>t, BlockType DEF TypeOK, InitSteps
<1> HIDE DEF l
<1>5. /\ pc'[r] = (IF o = Null THEN "init_insert" ELSE "init_valid")
      /\ th'[r] = l /\ Others(r)
  BY <1>1, Step
<1>6. CASE o = Null
 <2>1. Reads /\ CalmHeap BY <1>1, CalmSame DEF Reads
 <2>2. pc'[r] = "init_insert" BY <1>5, <1>6
 <2>3. Steady(r) BY <1>1, <1>2, <1>3, <1>5, <1>6, <2>2 DEF Steady, Unplaced, Placed
 <2>4. Still(r) BY <1>5, <2>1, <2>3 DEF Still
 <2>5. QED BY <2>4, StillOnce, StillHold
<1>7. CASE o # Null
 <2>1. pc'[r] = "init_valid" BY <1>5, <1>7
 <2>2. pc'[r] \notin Unplaced \cup Placed /\ pc'[r] \notin Holding /\ pc'[r] # "count"
   BY <2>1 DEF Unplaced, Placed, Holding
 <2>3. Coming(r, <<t, -1>>) BY <1>1, <1>4, <1>t, NameOf DEF Coming, Unplaced, Blocks
 <2>4. /\ Awaited' \subseteq Awaited \ {t} /\ t \in Awaited
       /\ \A k : OnWire(k)' \subseteq OnWire(k)
   BY <1>1, <1>4, <1>5, <2>2, <2>3, Announces
 <2>5. info[o].tag = t BY <1>4, <1>7, <1>o, OrderParts DEF TagsOK
 <2>6. \A p \in Objects : p \in Taken' => p \in Taken \cup {o}
  <3>1. \A s \in Readers : /\ th'[s].new_buf \in {th[s].new_buf, o}
                           /\ th'[s].repeat = th[s].repeat
    BY <1>2, <1>5 DEF Others
  <3>2. QED BY <3>1 DEF Taken
 <2>7. Firm /\ Objects' = Objects BY <1>1 DEF Firm, Objects
 <2>8. ASSUME NEW e PROVE \E e2 : From(e, e2)
  <3>1. PICK e2 : e2 = [x \in Tags |-> IF x = t THEN o ELSE e[x]] OBVIOUS
  <3>2. ASSUME NEW p \in Objects, p \in Fillable(e)' PROVE p \in Fillable(e2)
   <4>1. /\ ~info[p].freed
         /\ info[p].valid \/ p \in Taken' \/ (info[p].tag \in Awaited' /\ p = e[info[p].tag])
     BY <1>1, <3>2 DEF Fillable
   <4>2. CASE info[p].valid BY <4>1, <4>2 DEF Fillable
   <4>3. CASE p \in Taken' BY <1>4, <2>4, <2>5, <2>6, <3>1, <4>1, <4>3 DEF Fillable
   <4>4. CASE info[p].tag \in Awaited' /\ p = e[info[p].tag]
    <5>1. info[p].tag \in Awaited /\ info[p].tag # t /\ info[p].tag \in Tags BY <2>4, <4>4 DEF Awaited
    <5>2. e2[info[p].tag] = p BY <3>1, <4>4, <5>1
    <5>3. QED BY <4>1, <5>1, <5>2 DEF Fillable
   <4>5. QED BY <4>1, <4>2, <4>3, <4>4
  <3>3. QED BY <3>2 DEF From
 <2>9. th'[r].waiting_queue = Null BY <1>2, <1>3, <1>5
 <2>10. OnceInv'
  <3>1. \A k : InBuffers(k)' \subseteq InBuffers(k) BY <1>1, <2>7 DEF InBuffers
  <3>2. \A q, i, k : Lies(q, i, k)' => Lies(q, i, k) BY <1>1 DEF Lies
  <3>3. \A p \in Objects' : info'[p].waiting_queue # Null =>
          p \in Objects /\ info[p].waiting_queue = info'[p].waiting_queue
    BY <1>1, <2>7
  <3>4. \A e : \E e2 : From(e, e2) BY <2>8
  <3>5. QED BY <1>5, <2>2, <2>4, <2>9, <3>1, <3>2, <3>3, <3>4, EmptyHanded
 <2>11. HoldInv'
  <3>1. r \in Handed' BY <2>2, <2>9, <2>1 DEF HandOK, Handed
  <3>2. AllUntouched'
   <4>1. ASSUME NEW p \in Objects, info[p].tag \in Awaited'
         PROVE  ~info[p].valid /\ p \notin Taken'
    <5>1. info[p].tag \in Awaited /\ info[p].tag # t BY <2>4, <4>1
    <5>2. ~info[p].valid /\ p \notin Taken BY <5>1 DEF HoldInv, Untouched
    <5>3. QED BY <2>5, <2>6, <5>1, <5>2
   <4>2. QED BY <1>1, <2>7, <4>1 DEF AllUntouched, Untouched
  <3>3. \A p \in Objects' : p \in Objects /\ info'[p] = info[p] BY <1>1, <2>7
  <3>4. \A p \in Objects : p \in Objects' /\ info'[p].tag = info[p].tag BY <1>1, <2>7
  <3>5. QED BY <1>5, <2>9, <3>1, <3>2, <3>3, <3>4, HoldStays
 <2>12. QED BY <2>10, <2>11
<1>8. QED BY <1>6, <1>7

LEMMA InitInsertMove ==
  ASSUME TypeOK, OrderInv, HoldInv, OnceInv, ~ub, NEW r \in Readers, InitInsert(r)
  PROVE  OnceInv' /\ HoldInv'
<1> USE Sizes DEF Null
<1>t. PICK t : t = th[r].block.tag OBVIOUS
<1>o. PICK o : o = table[t] OBVIOUS
<1>n. PICK n : n = Len(info) + 1 OBVIOUS
<1>c. PICK rec : rec = Filled([Calloc EXCEPT !.next_tag = NO_TAG], th[r].block) OBVIOUS
<1> DEFINE l == [th[r] EXCEPT !.new_buf = n, !.repeat = o]
<1>1. /\ pc[r] = "init_insert" /\ conn' = conn /\ ub' = ub /\ queue' = queue
      /\ info' = Append(info, rec)
      /\ \/ Return(r)
         \/ Locals(r, l) /\ Goto(r, "init_adopt")
  BY <1>t, <1>o, <1>n, <1>c DEF InitInsert, At, env
<1>2. /\ l.new_buf = n /\ l.repeat = o /\ l.waiting_queue = th[r].waiting_queue
  BY ThreadType DEF LocalsType
<1>3. th[r].waiting_queue = Null BY <1>1, NoQueue DEF Holding
<1>4. th[r].block \in InitBlocks /\ t \in Tags BY <1>1, <1>t, BlockType DEF TypeOK, InitSteps
<1> HIDE DEF l
<1>5. /\ pc'[r] \in {"drain_test", "read", "init_adopt"} /\ Others(r) /\ th'[r].waiting_queue = Null
      /\ th'[r].new_buf \in {th[r].new_buf, n} /\ th'[r].repeat \in {th[r].repeat, o}
 <2>1. CASE Return(r)
  <3>1. pc'[r] \in {"drain_test", "read"} /\ th'[r] = Fresh(th[r]) /\ Others(r)
    BY <2>1 DEF Return, Goto, Locals, Others, TypeOK
  <3>2. Fresh(th[r]).waiting_queue = Null BY ThreadType DEF Fresh, LocalsType
  <3>3. QED BY <3>1, <3>2, FreshFields
 <2>2. CASE Locals(r, l) /\ Goto(r, "init_adopt") BY <1>2, <1>3, <2>2, Step
 <2>3. QED BY <1>1, <2>1, <2>2
<1>6. pc'[r] \notin Unplaced \cup Placed /\ pc'[r] \notin Holding /\ pc'[r] # "count" /\ pc'[r] # "put_back"
  BY <1>5 DEF Unplaced, Placed, Holding
<1>7. Coming(r, <<t, -1>>) BY <1>1, <1>4, <1>t, NameOf DEF Coming, Unplaced, Blocks
<1>8. /\ Awaited' \subseteq Awaited \ {t} /\ t \in Awaited
      /\ \A k : OnWire(k)' \subseteq OnWire(k)
  BY <1>1, <1>4, <1>5, <1>6, <1>7, Announces
<1>9. /\ Len(info) \in Nat /\ Objects \subseteq Objects' /\ Objects' \subseteq Objects \cup {n}
      /\ \A p \in Objects : info'[p] = info[p]
      /\ info'[n] = rec
  BY <1>1, <1>n DEF Objects, TypeOK
<1>10. rec.tag = t /\ rec.waiting_queue = Null /\ rec.written = {} BY <1>c, <1>t DEF Filled, Calloc
<1>11. o \in Objects => info[o].tag = t BY <1>4, <1>o, OrderParts DEF TagsOK, Objects
<1>12. \A p \in Objects : p \in Taken' => p \in Taken \cup {o}
 <2>1. \A s \in Readers : /\ th'[s].new_buf \in {th[s].new_buf, n}
                          /\ th'[s].repeat \in {th[s].repeat, o}
   BY <1>5 DEF Others
 <2>2. n \notin Objects BY <1>n DEF Objects
 <2>3. QED BY <2>1, <2>2 DEF Taken
<1>13. ASSUME NEW e PROVE \E e2 : From(e, e2)
 <2>1. PICK e2 : e2 = [x \in Tags |-> IF x = t THEN o ELSE e[x]] OBVIOUS
 <2>2. ASSUME NEW p \in Objects, p \in Fillable(e)' PROVE p \in Fillable(e2)
  <3>1. /\ ~info[p].freed
        /\ info[p].valid \/ p \in Taken' \/ (info[p].tag \in Awaited' /\ p = e[info[p].tag])
    BY <1>9, <2>2 DEF Fillable
  <3>2. CASE info[p].valid BY <3>1, <3>2 DEF Fillable
  <3>3. CASE p \in Taken' BY <1>4, <1>8, <1>11, <1>12, <2>1, <3>1, <3>3 DEF Fillable
  <3>4. CASE info[p].tag \in Awaited' /\ p = e[info[p].tag]
   <4>1. info[p].tag \in Awaited /\ info[p].tag # t /\ info[p].tag \in Tags BY <1>8, <3>4 DEF Awaited
   <4>2. e2[info[p].tag] = p BY <2>1, <3>4, <4>1
   <4>3. QED BY <3>1, <4>1, <4>2 DEF Fillable
  <3>5. QED BY <3>1, <3>2, <3>3, <3>4
 <2>3. QED BY <2>2 DEF From
<1>14. OnceInv'
 <2>1. \A k : InBuffers(k)' \subseteq InBuffers(k) BY <1>9, <1>10 DEF InBuffers
 <2>2. \A q, i, k : Lies(q, i, k)' => Lies(q, i, k) BY <1>1 DEF Lies
 <2>3. \A p \in Objects' : info'[p].waiting_queue # Null =>
         p \in Objects /\ info[p].waiting_queue = info'[p].waiting_queue
   BY <1>9, <1>10
 <2>4. \A e : \E e2 : From(e, e2) BY <1>13
 <2>5. QED BY <1>5, <1>6, <1>8, <2>1, <2>2, <2>3, <2>4, EmptyHanded
<1>15. HoldInv'
 <2>1. r \in Handed' BY <1>5, <1>6 DEF HandOK, Handed
 <2>2. AllUntouched'
  <3>1. ASSUME NEW p \in Objects, info[p].tag \in Awaited'
        PROVE  ~info[p].valid /\ p \notin Taken'
   <4>1. info[p].tag \in Awaited /\ info[p].tag # t BY <1>8, <3>1
   <4>2. ~info[p].valid /\ p \notin Taken BY <4>1 DEF HoldInv, Untouched
   <4>3. QED BY <1>11, <1>12, <4>1, <4>2
  <3>2. \A p \in Objects : info'[p].tag \in Awaited' => ~info'[p].valid /\ p \notin Taken' BY <1>9, <3>1
  <3>3. info'[n].tag \notin Awaited' BY <1>8, <1>9, <1>10
  <3>4. \A p \in Objects' : info'[p].tag \in Awaited' => ~info'[p].valid /\ p \notin Taken'
    BY <1>9, <3>2, <3>3
  <3>5. QED BY <3>4 DEF AllUntouched, Untouched
 <2>3. \A p \in Objects' : ~info'[p].freed /\ info'[p].waiting_queue # Null =>
         p \in Objects /\ ~info[p].freed /\ info[p].waiting_queue = info'[p].waiting_queue
   BY <1>9, <1>10
 <2>4. \A p \in Objects : p \in Objects' /\ info'[p].tag = info[p].tag BY <1>9
 <2>5. QED BY <1>5, <2>1, <2>2, <2>3, <2>4, HoldStays
<1>16. QED BY <1>14, <1>15

(* A parked block is taken up again. *)

LEMMA DrainLies ==
  ASSUME TypeOK, NEW q \in 1 .. Len(queue), queue[q].blocks # <<>>,
         queue' = [queue EXCEPT ![q].blocks = Tail(@)],
         NEW b, b = Head(queue[q].blocks)
  PROVE  /\ b \in DataBlocks /\ Lies(q, 1, BlockName(b))
         /\ \A i \in Nat : \A k : Lies(q, i, k)' => Lies(q, i + 1, k)
         /\ \A p, i, k : p # q /\ Lies(p, i, k)' => Lies(p, i, k)
<1> DEFINE c == queue[q].blocks
<1>1. queue \in [1 .. Len(queue) -> QueueType] /\ Len(queue) \in Nat /\ queue[q] \in QueueType
  BY Sizes DEF TypeOK
<1>2. c \in Seq(DataBlocks) BY <1>1, QueueField
<1>3. /\ Len(c) \in Nat \ {0} /\ Head(c) = c[1] /\ c[1] \in DataBlocks /\ Len(Tail(c)) = Len(c) - 1
      /\ \A i \in 1 .. Len(c) - 1 : Tail(c)[i] = c[i + 1]
  BY <1>2
<1>4. Len(queue') = Len(queue) /\ \A p \in 1 .. Len(queue) : p # q => queue'[p] = queue[p] BY <1>1
<1>5. queue'[q].blocks = Tail(c)
 <2>1. queue'[q] = [queue[q] EXCEPT !.blocks = Tail(c)] BY <1>1
 <2>2. QED BY <1>1, <2>1 DEF QueueType
<1>6. /\ Len(queue'[q].blocks) = Len(c) - 1
      /\ \A i \in 1 .. Len(c) - 1 : queue'[q].blocks[i] = c[i + 1]
  BY <1>3, <1>5
<1>7. b \in DataBlocks /\ Lies(q, 1, BlockName(b)) BY <1>3 DEF Lies
<1>8. ASSUME NEW i \in Nat, NEW k, Lies(q, i, k)' PROVE Lies(q, i + 1, k)
 <2>1. i \in 1 .. Len(queue'[q].blocks) /\ BlockName(queue'[q].blocks[i]) = k BY <1>8 DEF Lies
 <2>2. i \in 1 .. Len(c) - 1 /\ BlockName(c[i + 1]) = k BY <1>6, <2>1
 <2>3. i + 1 \in 1 .. Len(c) BY <1>3, <2>2
 <2>4. QED BY <2>2, <2>3 DEF Lies
<1>9. \A p, i, k : p # q /\ Lies(p, i, k)' => Lies(p, i, k) BY <1>4 DEF Lies
<1>10. QED BY <1>7, <1>8, <1>9

LEMMA DrainMove ==
  ASSUME TypeOK, OrderInv, HoldInv, OnceInv, ~ub, NEW r \in Readers, DrainBlock(r)
  PROVE  OnceInv' /\ HoldInv'
<1> USE Sizes DEF Null
<1>o. PICK o : o = Owner(r) OBVIOUS
<1>q. PICK q : q = info[o].waiting_queue OBVIOUS
<1>b. PICK b : b = Head(queue[q].blocks) OBVIOUS
<1>m. PICK m : m = BlockName(b) OBVIOUS
<1> DEFINE l == [th[r] EXCEPT !.block = b, !.old_block = b, !.set = TRUE]
<1>1. /\ pc[r] = "drain_take" /\ q # Null /\ queue[q].blocks # <<>>
      /\ queue' = [queue EXCEPT ![q].blocks = Tail(@)]
      /\ Locals(r, l) /\ Goto(r, "data_lookup") /\ UNCHANGED <<table, info, conn>>
 <2>1. QueueUsed(r) = {q} /\ Safe(r) BY <1>o, <1>q DEF DrainBlock, At, QueueUsed
 <2>2. QED BY <1>o, <1>q, <1>b, <2>1 DEF DrainBlock, At, Safe, env
<1>2. /\ l.block = b /\ l.new_buf = th[r].new_buf /\ l.repeat = th[r].repeat
      /\ l.waiting_queue = th[r].waiting_queue
  BY ThreadType DEF LocalsType
<1>3. th[r].waiting_queue = Null BY <1>1, NoQueue DEF Holding
<1>4. o \in Objects /\ ~info[o].freed
 <2>1. InfoUsed(r) = {o} /\ Safe(r) BY <1>o DEF DrainBlock, At, InfoUsed
 <2>2. o \in 0 .. Len(info) BY <1>o, ThreadType DEF Owner
 <2>3. QED BY <2>1, <2>2, Used
<1>5. q \in 1 .. Len(queue) BY <1>1, <1>4, <1>q DEF Objects, InfoType
<1>6. o \in Taken BY <1>4, <1>o DEF Taken, Owner
<1> HIDE DEF l
<1>7. pc'[r] = "data_lookup" /\ th'[r] = l /\ Others(r) BY <1>1, Step
<1>8. /\ b \in DataBlocks /\ Lies(q, 1, m)
      /\ \A i \in Nat : \A k : Lies(q, i, k)' => Lies(q, i + 1, k)
      /\ \A p, i, k : p # q /\ Lies(p, i, k)' => Lies(p, i, k)
  BY <1>1, <1>5, <1>b, <1>m, DrainLies
<1>9. m \in Names /\ m[2] # -1
 <2>1. b \in Blocks /\ MaxSize \in Int BY <1>8, StandardsAssumption DEF Blocks
 <2>2. QED BY <1>8, <1>m, <2>1, NameOf
<1>10. \A k : Coming(r, k)' => k = m BY <1>2, <1>7, <1>m DEF Coming
<1>11. \A k : OnWire(k)' = OnWire(k) BY <1>1 DEF OnWire, Waits
<1>12. Awaited' \subseteq Awaited
 <2>1. \A t \in Tags : Coming(r, <<t, -1>>)' => t \in Awaited BY <1>9, <1>10
 <2>2. QED BY <1>7, <1>11, <2>1, AwaitedShrinks
<1>13. Taken' \subseteq Taken BY <1>2, <1>7, TakenSame
<1>14. Firm /\ Objects' = Objects BY <1>1 DEF Firm, Objects
<1>15. \A e : \A p \in Objects : p \in Fillable(e)' => p \in Fillable(e) BY <1>12, <1>13, <1>14, FillableKept
<1>16. pc'[r] \notin Placed /\ pc'[r] \notin Holding /\ pc'[r] # "count" /\ pc'[r] # "put_back"
  BY <1>7 DEF Placed, Holding
<1>17. th'[r].waiting_queue = Null BY <1>2, <1>3, <1>7
<1>18. \A e : \A p \in 1 .. Len(queue) : ~Holds(r, p, e)' BY <1>17 DEF Holds
<1>19. OnceInv'
 <2> SUFFICES ASSUME NEW k \in Names, NEW e PROVE Places(k, e)' /\ Paired(k, e)' BY DEF OnceInv
 <2>1. Places(k, e) /\ Paired(k, e) BY DEF OnceInv
 <2>2. InHands(k, e)' \subseteq InHands(k, e) \cup (IF k = m THEN {r} ELSE {})
  <3>1. \A s \in Readers \ {r} : /\ Coming(s, k)' => Coming(s, k)
                                 /\ Bound(s, k, e)' => Bound(s, k, e)
    BY <1>7, <1>15, <1>16, OthersHands
  <3>2. ~Bound(r, k, e)' BY <1>16 DEF Bound
  <3>3. QED BY <1>10, <3>1, <3>2 DEF InHands
 <2>3. InBuffers(k)' \subseteq InBuffers(k) BY <1>1, <1>14 DEF InBuffers
 <2>4. ASSUME NEW p \in Nat \X Nat, p \in InQueues(k, e)'
       PROVE  \E j \in Nat : /\ <<p[1], j>> \in InQueues(k, e)
                             /\ j = IF p[1] = q THEN p[2] + 1 ELSE p[2]
  <3>1. Lies(p[1], p[2], k)' /\ Drains(p[1], k, e)' BY <2>4 DEF InQueues
  <3>2. PICK j \in Nat : j = IF p[1] = q THEN p[2] + 1 ELSE p[2] OBVIOUS
  <3>3. Lies(p[1], j, k)
   <4>1. CASE p[1] = q
    <5>1. j = p[2] + 1 /\ p[2] \in Nat BY <3>2, <4>1
    <5>2. Lies(q, p[2], k)' BY <3>1, <4>1
    <5>3. QED BY <1>8, <4>1, <5>1, <5>2
   <4>2. CASE p[1] # q BY <1>8, <3>1, <3>2, <4>2
   <4>3. QED BY <4>1, <4>2
  <3>4. p[1] \in 1 .. Len(queue) BY <3>3 DEF Lies
  <3>5. Drains(p[1], k, e) BY <1>1, <1>7, <1>14, <1>15, <1>18, <3>1, <3>4, OthersDrain
  <3>6. <<p[1], j>> \in InQueues(k, e) BY <3>3, <3>5 DEF InQueues
  <3>7. QED BY <3>2, <3>6
 <2>5. InQueues(k, e)' \subseteq Nat \X Nat BY DEF InQueues
 <2>6. AtMostOne(InQueues(k, e)) BY <2>1 DEF Places, Sole
 <2>7. AtMostOne(InQueues(k, e)') /\ (InQueues(k, e)' # {} => InQueues(k, e) # {})
  <3>1. ASSUME NEW p \in InQueues(k, e)', NEW s \in InQueues(k, e)' PROVE p = s
   <4>1. p \in Nat \X Nat /\ s \in Nat \X Nat BY <2>5
   <4>2. PICK i \in Nat : <<p[1], i>> \in InQueues(k, e) /\ i = IF p[1] = q THEN p[2] + 1 ELSE p[2]
     BY <2>4, <4>1
   <4>3. PICK j \in Nat : <<s[1], j>> \in InQueues(k, e) /\ j = IF s[1] = q THEN s[2] + 1 ELSE s[2]
     BY <2>4, <4>1
   <4>4. <<p[1], i>> = <<s[1], j>> BY <2>6, <4>2, <4>3 DEF AtMostOne
   <4>5. p[1] = s[1] /\ p[2] = s[2] BY <4>1, <4>2, <4>3, <4>4
   <4>6. QED BY <4>1, <4>5
  <3>2. InQueues(k, e)' # {} => InQueues(k, e) # {} BY <2>4, <2>5
  <3>3. QED BY <3>1, <3>2 DEF AtMostOne
 <2>8. Places(k, e)'
  <3>1. CASE k = m
   <4>1. <<q, 1>> \in InQueues(k, e)
    <5>1. o \in Fillable(e) BY <1>4, <1>6 DEF Fillable
    <5>2. Drains(q, k, e) BY <1>q, <5>1 DEF Drains
    <5>3. q \in Nat BY <1>5
    <5>4. QED BY <1>8, <3>1, <5>2, <5>3 DEF InQueues
   <4>2. InQueues(k, e)' = {}
    <5> SUFFICES ASSUME NEW p \in InQueues(k, e)' PROVE FALSE OBVIOUS
    <5>1. p \in Nat \X Nat BY <2>5
    <5>2. PICK i \in Nat : <<p[1], i>> \in InQueues(k, e) /\ i = IF p[1] = q THEN p[2] + 1 ELSE p[2]
      BY <2>4, <5>1
    <5>3. <<p[1], i>> = <<q, 1>> BY <2>6, <4>1, <5>2 DEF AtMostOne
    <5>4. p[2] = 0 BY <5>1, <5>2, <5>3
    <5>5. Lies(p[1], p[2], k)' BY DEF InQueues
    <5>6. QED BY <5>4, <5>5 DEF Lies
   <4>3. InHands(k, e)' \subseteq InHands(k, e) \cup {r} BY <2>2
   <4>4. OnWire(k)' \subseteq OnWire(k) /\ InQueues(k, e)' \subseteq InQueues(k, e) \ {<<q, 1>>}
     BY <1>11, <4>2
   <4>5. QED BY <2>1, <2>3, <4>1, <4>3, <4>4, SoleDrains DEF Places
  <3>2. CASE k # m
   <4>1. InHands(k, e)' \subseteq InHands(k, e) /\ OnWire(k)' \subseteq OnWire(k) BY <1>11, <2>2, <3>2
   <4>2. QED BY <2>1, <2>3, <2>7, <4>1, SoleMoves DEF Places
  <3>3. QED BY <3>1, <3>2
 <2>9. Paired(k, e)'
  <3> SUFFICES ASSUME NEW s \in Readers, NEW p \in 1 .. Len(queue)',
                      Holds(s, p, e)', BlockName(th'[s].block) = k,
                      NEW i \in Nat, NEW j \in Nat, Lies(p, i, k)', Lies(p, j, k)'
               PROVE  i = j
    BY DEF Paired, AtMostOne
  <3>1. p \in 1 .. Len(queue) BY <1>1, <1>5 DEF TypeOK
  <3>2. s # r BY <1>18, <3>1
  <3>3. Holds(s, p, e) /\ th'[s] = th[s] BY <1>7, <1>15, <3>2, OthersHold
  <3>4. AtMostOne({x \in Nat : Lies(p, x, k)}) BY <2>1, <3>1, <3>3 DEF Paired
  <3>5. CASE p = q
   <4>1. Lies(q, i + 1, k) /\ Lies(q, j + 1, k) BY <1>8, <3>5
   <4>2. i + 1 = j + 1 BY <3>4, <3>5, <4>1 DEF AtMostOne
   <4>3. QED BY <4>2
  <3>6. CASE p # q BY <1>8, <3>4, <3>6 DEF AtMostOne
  <3>7. QED BY <3>5, <3>6
 <2>10. QED BY <2>8, <2>9
<1>20. HoldInv'
 <2>1. r \in Handed' BY <1>16, <1>17 DEF HandOK, Handed
 <2>2. AllUntouched' BY <1>12, <1>13, <1>14, UntouchedKept DEF AllUntouched
 <2>3. \A p \in Objects' : p \in Objects /\ info'[p] = info[p] BY <1>1, <1>14
 <2>4. \A p \in Objects : p \in Objects' /\ info'[p].tag = info[p].tag BY <1>1, <1>14
 <2>5. QED BY <1>7, <1>17, <2>1, <2>2, <2>3, <2>4, HoldStays
<1>21. QED BY <1>19, <1>20

(* A block gets to its buffer. *)

(* Everything but r's hands stays as it is. *)
LEMMA OthersPlaces ==
  ASSUME TypeOK, NEW r \in Readers, Others(r), conn' = conn,
         pc'[r] \notin Unplaced, pc'[r] # "put_back",
         th'[r].new_buf = th[r].new_buf, th'[r].repeat = th[r].repeat, Firm
  PROVE  /\ \A k : OnWire(k)' = OnWire(k)
         /\ Awaited' \subseteq Awaited /\ Taken' \subseteq Taken
         /\ \A e : \A o \in Objects : o \in Fillable(e)' => o \in Fillable(e)
         /\ \A k, e : \A s \in Readers \ {r} : /\ Coming(s, k)' => Coming(s, k)
                                               /\ Bound(s, k, e)' => Bound(s, k, e)
         /\ \A k : ~Coming(r, k)'
<1>1. \A k : OnWire(k)' = OnWire(k) BY DEF OnWire, Waits
<1>2. \A k : ~Coming(r, k)' BY DEF Coming
<1>3. Awaited' \subseteq Awaited BY <1>1, <1>2, AwaitedShrinks
<1>4. Taken' \subseteq Taken BY TakenSame
<1>5. \A e : \A o \in Objects : o \in Fillable(e)' => o \in Fillable(e) BY <1>3, <1>4, FillableKept
<1>6. \A k, e : \A s \in Readers \ {r} : /\ Coming(s, k)' => Coming(s, k)
                                         /\ Bound(s, k, e)' => Bound(s, k, e)
  BY <1>5, OthersHands
<1>7. QED BY <1>1, <1>2, <1>3, <1>4, <1>5, <1>6

LEMMA CopyMove ==
  ASSUME TypeOK, OrderInv, HoldInv, OnceInv, ~ub, NEW r \in Readers, Copy(r)
  PROVE  /\ OnceInv' /\ HoldInv'
         /\ th[r].block.seq_number \notin info[th[r].buffer].written
<1> USE Sizes DEF Null
<1>o. PICK o : o = th[r].buffer OBVIOUS
<1>b. PICK b : b = th[r].block OBVIOUS
<1>m. PICK m : m = BlockName(b) OBVIOUS
<1> DEFINE rec == [info[o] EXCEPT !.written = @ \cup {b.seq_number}]
<1>1. /\ pc[r] = "copy" /\ info' = [info EXCEPT ![o] = rec] /\ queue' = queue /\ conn' = conn
      /\ Goto(r, "count") /\ th' = th
  BY <1>o, <1>b DEF Copy, At, env
<1>2. o \in Objects /\ ~info[o].freed /\ info[o].valid
 <2>1. InfoUsed(r) = {o} /\ Safe(r) BY <1>o DEF Copy, At, InfoUsed
 <2>2. o \in Objects /\ ~info[o].freed BY <1>o, <2>1, Used, ThreadType
 <2>3. QED BY <1>1, <1>o, <2>2, OrderParts DEF ThreadOK, DataOK
<1>3. info[o].tag = b.tag BY <1>1, <1>o, <1>b DEF HoldInv, HandOK, Placed, HasTag
<1>4. b \in DataBlocks /\ b \in Blocks BY <1>1, <1>b DEF TypeOK, DataSteps, Blocks
<1>5. m = <<b.tag, b.seq_number>> /\ m \in Names BY <1>4, <1>m, NameOf
<1>6. /\ rec.tag = info[o].tag /\ rec.valid = info[o].valid /\ rec.freed = info[o].freed
      /\ rec.waiting_queue = info[o].waiting_queue
      /\ rec.written = info[o].written \cup {b.seq_number}
  BY <1>2 DEF Objects, InfoType
<1> HIDE DEF rec
<1>7. Objects' = Objects /\ \A p \in Objects : info'[p] = IF p = o THEN rec ELSE info[p]
  BY <1>1, <1>2 DEF Objects, TypeOK
<1>8. Firm BY <1>6, <1>7 DEF Firm
<1>9. pc'[r] = "count" /\ Others(r) BY <1>1 DEF Goto, Others, TypeOK
<1>10. /\ pc'[r] \notin Unplaced /\ pc'[r] \notin Placed /\ pc'[r] \notin Holding
       /\ pc'[r] # "put_back"
  BY <1>9 DEF Unplaced, Placed, Holding
<1>11. /\ \A k : OnWire(k)' = OnWire(k)
       /\ Awaited' \subseteq Awaited /\ Taken' \subseteq Taken
       /\ \A e : \A p \in Objects : p \in Fillable(e)' => p \in Fillable(e)
       /\ \A k, e : \A s \in Readers \ {r} : /\ Coming(s, k)' => Coming(s, k)
                                             /\ Bound(s, k, e)' => Bound(s, k, e)
       /\ \A k : ~Coming(r, k)'
  BY <1>1, <1>8, <1>9, <1>10, OthersPlaces
<1>12. th[r].waiting_queue = Null BY <1>1, NoQueue DEF Holding
<1>13. \A e : \A q \in 1 .. Len(queue) : ~Holds(r, q, e)' BY <1>1, <1>12 DEF Holds
<1>14. \A e : r \in InHands(m, e)
 <2>1. \A e : o \in Fillable(e) BY <1>2 DEF Fillable
 <2>2. \A e : Bound(r, m, e) BY <1>1, <1>o, <1>b, <1>m, <2>1 DEF Bound, Placed
 <2>3. QED BY <2>2 DEF InHands
<1>15. b.seq_number \notin info[o].written
 <2>1. Places(m, 0) BY <1>5 DEF OnceInv
 <2>2. InBuffers(m) = {} BY <1>14, <2>1 DEF Places, Sole
 <2>3. QED BY <1>2, <1>3, <1>5, <2>2 DEF InBuffers
<1>16. OnceInv'
 <2> SUFFICES ASSUME NEW k \in Names, NEW e PROVE Places(k, e)' /\ Paired(k, e)' BY DEF OnceInv
 <2>1. Places(k, e) /\ Paired(k, e) BY DEF OnceInv
 <2>2. InHands(k, e)' \subseteq InHands(k, e) \ {r}
  <3>1. ~Bound(r, k, e)' BY <1>10 DEF Bound
  <3>2. QED BY <1>11, <3>1 DEF InHands
 <2>3. InQueues(k, e)' \subseteq InQueues(k, e)
  <3>1. ASSUME NEW p \in Nat \X Nat, Lies(p[1], p[2], k)', Drains(p[1], k, e)'
        PROVE  Lies(p[1], p[2], k) /\ Drains(p[1], k, e)
   <4>1. Lies(p[1], p[2], k) BY <1>1, <3>1 DEF Lies
   <4>2. p[1] \in 1 .. Len(queue) BY <4>1 DEF Lies
   <4>3. \A x \in Objects' : info'[x].waiting_queue = p[1] =>
           x \in Objects /\ info[x].waiting_queue = p[1]
     BY <1>6, <1>7
   <4>4. Drains(p[1], k, e) BY <1>9, <1>11, <1>13, <3>1, <4>2, <4>3, OthersDrain
   <4>5. QED BY <4>1, <4>4
  <3>2. QED BY <3>1 DEF InQueues
 <2>4. OnWire(k)' \subseteq OnWire(k) BY <1>11
 <2>5. k = <<k[1], k[2]>> BY DEF Names
 <2>6. InBuffers(k)' \subseteq InBuffers(k) \cup (IF k = m THEN {o} ELSE {})
  <3> SUFFICES ASSUME NEW p \in Objects, info'[p].tag = k[1], k[2] \in info'[p].written,
                      p \notin InBuffers(k)
               PROVE  k = m /\ p = o
    BY <1>7 DEF InBuffers
  <3>1. p = o BY <1>7 DEF InBuffers
  <3>2. k[1] = b.tag /\ k[2] = b.seq_number BY <1>2, <1>3, <1>6, <1>7, <3>1 DEF InBuffers
  <3>3. QED BY <1>5, <2>5, <3>1, <3>2
 <2>7. Places(k, e)'
  <3>1. CASE k = m
   <4>1. r \in InHands(k, e) /\ InBuffers(k)' \subseteq InBuffers(k) \cup {o} BY <1>14, <2>6, <3>1
   <4>2. QED BY <2>1, <2>2, <2>3, <2>4, <4>1, SoleCopies DEF Places
  <3>2. CASE k # m
   <4>1. InBuffers(k)' \subseteq InBuffers(k) /\ InHands(k, e)' \subseteq InHands(k, e) BY <2>2, <2>6, <3>2
   <4>2. QED BY <2>1, <2>3, <2>4, <4>1, SoleShrinks DEF Places
  <3>3. QED BY <3>1, <3>2
 <2>8. Paired(k, e)'
  <3> SUFFICES ASSUME NEW s \in Readers, NEW q \in 1 .. Len(queue)',
                      Holds(s, q, e)', BlockName(th'[s].block) = k,
                      NEW i \in Nat, NEW j \in Nat, Lies(q, i, k)', Lies(q, j, k)'
               PROVE  i = j
    BY DEF Paired, AtMostOne
  <3>1. q \in 1 .. Len(queue) /\ Lies(q, i, k) /\ Lies(q, j, k) BY <1>1 DEF Lies
  <3>2. s # r BY <1>13, <3>1
  <3>3. Holds(s, q, e) /\ th'[s] = th[s] BY <1>9, <1>11, <3>2, OthersHold
  <3>4. QED BY <2>1, <3>1, <3>3 DEF Paired, AtMostOne
 <2>9. QED BY <2>7, <2>8
<1>17. HoldInv'
 <2>1. HasTag(th[r].buffer, th[r].block.tag)' BY <1>1, <1>2, <1>3, <1>6, <1>7, <1>o, <1>b DEF HasTag, Objects
 <2>2. r \in Handed' BY <1>1, <1>10, <1>12, <2>1 DEF HandOK, Handed
 <2>3. AllUntouched' BY <1>7, <1>8, <1>11, UntouchedKept DEF AllUntouched
 <2>4. \A p \in Objects' : ~info'[p].freed /\ info'[p].waiting_queue # Null =>
         p \in Objects /\ ~info[p].freed /\ info[p].waiting_queue = info'[p].waiting_queue
   BY <1>6, <1>7
 <2>5. \A p \in Objects : p \in Objects' /\ info'[p].tag = info[p].tag BY <1>6, <1>7
 <2>6. th'[r].waiting_queue \in {Null, th[r].waiting_queue} BY <1>1
 <2>7. QED BY <1>9, <2>2, <2>3, <2>4, <2>5, <2>6, HoldStays
<1>18. QED BY <1>15, <1>16, <1>17, <1>o, <1>b

(* A block is parked. *)

LEMMA EnqueueLies ==
  ASSUME TypeOK, NEW r \in Readers, NEW q \in 1 .. Len(queue), NEW b,
         queue' = FreeLocalQueue(r, [queue EXCEPT ![q].blocks = Append(@, b)])
  PROVE  \A p, i, k : Lies(p, i, k)' =>
           Lies(p, i, k) \/ (p = q /\ i = Len(queue[q].blocks) + 1 /\ k = BlockName(b))
<1> DEFINE c == queue[q].blocks
           mid == [queue EXCEPT ![q].blocks = Append(@, b)]
           w == th[r].waiting_queue
<1>1. /\ queue \in [1 .. Len(queue) -> QueueType] /\ Len(queue) \in Nat /\ queue[q] \in QueueType
      /\ \A p \in 1 .. Len(queue) : queue[p] \in QueueType
  BY Sizes DEF TypeOK
<1>2. c \in Seq(DataBlocks) /\ Len(c) \in Nat BY <1>1, QueueField
<1>3. /\ Len(Append(c, b)) = Len(c) + 1
      /\ \A i \in 1 .. Len(c) : Append(c, b)[i] = c[i]
      /\ Append(c, b)[Len(c) + 1] = b
  BY <1>2
<1>4. /\ DOMAIN mid = 1 .. Len(queue) /\ mid[q] = [queue[q] EXCEPT !.blocks = Append(c, b)]
      /\ \A p \in 1 .. Len(queue) : p # q => mid[p] = queue[p]
  BY <1>1
<1>5. mid[q].blocks = Append(c, b) /\ mid[q].freed = queue[q].freed
      /\ mid[q] = [blocks |-> Append(c, b), freed |-> queue[q].freed]
  BY <1>1, <1>4 DEF QueueType
<1> HIDE DEF mid
<1>6. /\ DOMAIN queue' = 1 .. Len(queue)
      /\ \A p \in 1 .. Len(queue) : queue'[p].blocks = mid[p].blocks
 <2>0. queue' = FreeLocalQueue(r, mid) BY DEF mid
 <2>1. CASE w = Null BY <1>4, <2>0, <2>1 DEF FreeLocalQueue
 <2>2. CASE w # Null
  <3>1. queue' = [mid EXCEPT ![w].freed = TRUE] BY <2>0, <2>2 DEF FreeLocalQueue
  <3>2. DOMAIN queue' = 1 .. Len(queue) BY <1>4, <3>1
  <3>3. ASSUME NEW p \in 1 .. Len(queue) PROVE queue'[p].blocks = mid[p].blocks
   <4>1. queue'[p] = IF p = w THEN [mid[w] EXCEPT !.freed = TRUE] ELSE mid[p] BY <1>4, <3>1
   <4>2. CASE p = q BY <1>5, <4>1, <4>2
   <4>3. CASE p # q
    <5>1. mid[p] \in QueueType BY <1>1, <1>4, <4>3
    <5>2. QED BY <4>1, <5>1 DEF QueueType
   <4>4. QED BY <4>2, <4>3
  <3>4. QED BY <3>2, <3>3
 <2>3. QED BY <2>1, <2>2
<1>7. Len(queue') = Len(queue) BY <1>1, <1>6
<1>8. ASSUME NEW p, NEW i, NEW k, Lies(p, i, k)'
      PROVE  Lies(p, i, k) \/ (p = q /\ i = Len(c) + 1 /\ k = BlockName(b))
 <2>1. /\ p \in 1 .. Len(queue) /\ i \in 1 .. Len(mid[p].blocks) /\ BlockName(mid[p].blocks[i]) = k
   BY <1>6, <1>7, <1>8 DEF Lies
 <2>2. CASE p # q BY <1>4, <2>1, <2>2 DEF Lies
 <2>3. CASE p = q
  <3>1. i \in 1 .. Len(c) + 1 /\ BlockName(Append(c, b)[i]) = k BY <1>3, <1>5, <2>1, <2>3
  <3>2. CASE i = Len(c) + 1 BY <1>3, <2>3, <3>1, <3>2
  <3>3. CASE i # Len(c) + 1
   <4>1. i \in 1 .. Len(c) BY <1>2, <3>1, <3>3
   <4>2. BlockName(c[i]) = k BY <1>3, <3>1, <4>1
   <4>3. QED BY <2>1, <2>3, <4>1, <4>2 DEF Lies
  <3>4. QED BY <3>2, <3>3
 <2>4. QED BY <2>2, <2>3
<1>9. QED BY <1>8

LEMMA Returned ==
  ASSUME TypeOK, NEW r \in Readers, Return(r)
  PROVE  /\ pc'[r] \notin Unplaced /\ pc'[r] \notin Placed /\ pc'[r] \notin Holding
         /\ pc'[r] # "put_back" /\ pc'[r] # "count" /\ Others(r) /\ th'[r].waiting_queue = Null
         /\ th'[r].new_buf = th[r].new_buf /\ th'[r].repeat = th[r].repeat
<1>1. pc'[r] \in {"drain_test", "read"} /\ th'[r] = Fresh(th[r]) /\ Others(r)
  BY DEF Return, Goto, Locals, Others, TypeOK
<1>2. Fresh(th[r]).waiting_queue = Null BY ThreadType DEF Fresh, LocalsType
<1>3. pc'[r] \notin Unplaced /\ pc'[r] \notin Placed /\ pc'[r] \notin Holding
  BY <1>1 DEF Unplaced, Placed, Holding
<1>4. QED BY <1>1, <1>2, <1>3, FreshFields

LEMMA EnqueueMove ==
  ASSUME TypeOK, OrderInv, HoldInv, OnceInv, ~ub, NEW r \in Readers, Enqueue(r)
  PROVE  OnceInv' /\ HoldInv'
<1> USE Sizes DEF Null
<1>o. PICK o : o = th[r].buffer OBVIOUS
<1>b. PICK b : b = th[r].block OBVIOUS
<1>m. PICK m : m = BlockName(b) OBVIOUS
<1>q. PICK q : q = info[o].waiting_queue OBVIOUS
<1>l. PICK last : last = Len(queue[q].blocks) + 1 OBVIOUS
<1>1. /\ pc[r] = "enqueue" /\ info' = info /\ conn' = conn /\ Return(r)
      /\ queue' = FreeLocalQueue(r, [queue EXCEPT ![q].blocks = Append(@, b)])
  BY <1>o, <1>b, <1>q DEF Enqueue, At, env
<1>2. o \in Objects /\ ~info[o].freed /\ q # Null
 <2>1. InfoUsed(r) = {o} /\ Safe(r) /\ q \in QueueUsed(r) BY <1>o, <1>q DEF Enqueue, At, InfoUsed, QueueUsed
 <2>2. QED BY <1>o, <2>1, Used, ThreadType DEF Safe
<1>3. q \in 1 .. Len(queue) BY <1>2, <1>q DEF Objects, InfoType
<1>4. \A p, i, k : Lies(p, i, k)' => Lies(p, i, k) \/ (p = q /\ i = last /\ k = m)
  BY <1>1, <1>3, <1>m, <1>l, EnqueueLies
<1>5. /\ pc'[r] \notin Unplaced /\ pc'[r] \notin Placed /\ pc'[r] \notin Holding
      /\ pc'[r] # "put_back" /\ pc'[r] # "count" /\ Others(r) /\ th'[r].waiting_queue = Null
      /\ th'[r].new_buf = th[r].new_buf /\ th'[r].repeat = th[r].repeat
  BY <1>1, Returned
<1>6. Firm /\ Objects' = Objects BY <1>1 DEF Firm, Objects
<1>7. /\ \A k : OnWire(k)' = OnWire(k)
      /\ Awaited' \subseteq Awaited /\ Taken' \subseteq Taken
      /\ \A e : \A p \in Objects : p \in Fillable(e)' => p \in Fillable(e)
      /\ \A k, e : \A s \in Readers \ {r} : /\ Coming(s, k)' => Coming(s, k)
                                            /\ Bound(s, k, e)' => Bound(s, k, e)
      /\ \A k : ~Coming(r, k)'
  BY <1>1, <1>5, <1>6, OthersPlaces
<1>8. \A e : \A p \in 1 .. Len(queue) : ~Holds(r, p, e)' BY <1>5 DEF Holds
<1>9. ASSUME NEW e, o \in Fillable(e) \cup Beside(e) PROVE r \in InHands(m, e)
  BY <1>1, <1>9, <1>o, <1>b, <1>m DEF InHands, Bound, Placed
<1>10. ASSUME NEW e, NEW s \in Readers, Holds(s, q, e)
       PROVE  pc[s] = "put_back" /\ o \in Beside(e)
 <2>1. th[s].waiting_queue = q /\ th[s].buffer \in Fillable(e) BY <1>10 DEF Holds
 <2>2. pc[s] = "put_back" /\ o = th[s].dummy BY <1>2, <1>q, <2>1 DEF HoldInv, HandOK
 <2>3. QED BY <1>2, <2>1, <2>2 DEF Beside
<1>11. ASSUME NEW k, NEW e, NEW p \in 1 .. Len(queue), Drains(p, k, e)' PROVE Drains(p, k, e)
  BY <1>1, <1>5, <1>6, <1>7, <1>8, <1>11, OthersDrain
<1>12. OnceInv'
 <2> SUFFICES ASSUME NEW k \in Names, NEW e PROVE Places(k, e)' /\ Paired(k, e)' BY DEF OnceInv
 <2>1. Places(k, e) /\ Paired(k, e) BY DEF OnceInv
 <2>2. InHands(k, e)' \subseteq InHands(k, e) \ {r}
  <3>1. ~Bound(r, k, e)' BY <1>5 DEF Bound
  <3>2. QED BY <1>7, <3>1 DEF InHands
 <2>3. InBuffers(k)' \subseteq InBuffers(k) /\ OnWire(k)' \subseteq OnWire(k)
   BY <1>1, <1>6, <1>7 DEF InBuffers
 <2>4. ASSUME NEW p \in Nat \X Nat, p \in InQueues(k, e)'
       PROVE  p \in InQueues(k, e) \/ (k = m /\ p = <<q, last>> /\ Drains(q, k, e))
  <3>1. Lies(p[1], p[2], k)' /\ Drains(p[1], k, e)' BY <2>4 DEF InQueues
  <3>2. p[1] \in 1 .. Len(queue) BY <1>3, <1>4, <3>1 DEF Lies
  <3>3. Drains(p[1], k, e) BY <1>11, <3>1, <3>2
  <3>4. CASE Lies(p[1], p[2], k) BY <3>3, <3>4 DEF InQueues
  <3>5. CASE p[1] = q /\ p[2] = last /\ k = m BY <3>3, <3>5
  <3>6. QED BY <1>4, <3>1, <3>4, <3>5
 <2>5. InQueues(k, e)' \subseteq InQueues(k, e) \cup {p \in {<<q, last>>} : k = m /\ Drains(q, k, e)}
  <3>1. InQueues(k, e)' \subseteq Nat \X Nat BY DEF InQueues
  <3>2. QED BY <2>4, <3>1
 <2>6. ASSUME k = m, Drains(q, k, e) PROVE r \in InHands(k, e)
  <3>1. CASE \E p \in Fillable(e) : info[p].waiting_queue = q
   <4>1. PICK p \in Fillable(e) : info[p].waiting_queue = q BY <3>1
   <4>2. p \in Objects /\ ~info[p].freed BY DEF Fillable
   <4>3. p = o BY <1>2, <1>q, <4>1, <4>2 DEF HoldInv
   <4>4. QED BY <1>9, <2>6, <4>3
  <3>2. CASE \E s \in Readers : Holds(s, q, e) /\ BlockName(th[s].block) # k BY <1>9, <1>10, <2>6, <3>2
  <3>3. QED BY <2>6, <3>1, <3>2 DEF Drains
 <2>7. Places(k, e)'
  <3>1. CASE k = m /\ Drains(q, k, e)
   <4>1. r \in InHands(k, e) /\ AtMostOne({<<q, last>>}) BY <2>6, <3>1 DEF AtMostOne
   <4>2. InQueues(k, e)' \subseteq InQueues(k, e) \cup {<<q, last>>} BY <2>5
   <4>3. QED BY <2>1, <2>2, <2>3, <4>1, <4>2, SoleParks DEF Places
  <3>2. CASE ~(k = m /\ Drains(q, k, e))
   <4>1. InQueues(k, e)' \subseteq InQueues(k, e) /\ InHands(k, e)' \subseteq InHands(k, e)
     BY <2>2, <2>5, <3>2
   <4>2. QED BY <2>1, <2>3, <4>1, SoleShrinks DEF Places
  <3>3. QED BY <3>1, <3>2
 <2>8. Paired(k, e)'
  <3> SUFFICES ASSUME NEW s \in Readers, NEW p \in 1 .. Len(queue)',
                      Holds(s, p, e)', BlockName(th'[s].block) = k,
                      NEW i \in Nat, NEW j \in Nat, Lies(p, i, k)', Lies(p, j, k)'
               PROVE  i = j
    BY DEF Paired, AtMostOne
  <3>1. p \in 1 .. Len(queue) BY <1>3, <1>4 DEF Lies
  <3>2. s \in Readers \ {r} BY <1>8, <3>1
  <3>3. Holds(s, p, e) /\ th'[s] = th[s] /\ BlockName(th[s].block) = k BY <1>5, <1>7, <3>2, OthersHold
  <3>4. ~(p = q /\ k = m)
   <4> SUFFICES ASSUME p = q, k = m PROVE FALSE OBVIOUS
   <4>1. pc[s] = "put_back" /\ o \in Beside(e) BY <1>10, <3>3
   <4>2. r \in InHands(k, e) BY <1>9, <4>1
   <4>3. s \in InHands(k, e) BY <3>3, <4>1 DEF InHands, Bound, Placed, Holds
   <4>4. QED BY <2>1, <3>2, <4>2, <4>3 DEF Places, Sole, AtMostOne
  <3>5. Lies(p, i, k) /\ Lies(p, j, k) BY <1>4, <3>4
  <3>6. QED BY <2>1, <3>1, <3>3, <3>5 DEF Paired, AtMostOne
 <2>9. QED BY <2>7, <2>8
<1>13. HoldInv'
 <2>1. r \in Handed' BY <1>5 DEF HandOK, Handed
 <2>2. AllUntouched' BY <1>6, <1>7, UntouchedKept DEF AllUntouched
 <2>3. \A p \in Objects' : p \in Objects /\ info'[p] = info[p] BY <1>1, <1>6
 <2>4. \A p \in Objects : p \in Objects' /\ info'[p].tag = info[p].tag BY <1>1, <1>6
 <2>5. QED BY <1>5, <2>1, <2>2, <2>3, <2>4, HoldStays
<1>14. QED BY <1>12, <1>13

(* attach, common to a queue of its own and a new one *)
LEMMA AttachObject ==
  ASSUME TypeOK, HoldInv, NEW r \in Readers, Attach(r), NEW o, NEW w, Attaches(r, o, w)
  PROVE  /\ o \in Objects /\ ~info[o].freed /\ info[o].tag = th[r].block.tag
         /\ Objects' = Objects /\ Firm
         /\ info'[o].waiting_queue = w /\ info'[o].written = info[o].written
         /\ \A p \in Objects : p # o => info'[p] = info[p]
<1> USE Sizes DEF Null, Attaches
<1>1. o \in Objects /\ ~info[o].freed
 <2>1. InfoUsed(r) = {o} /\ Safe(r) BY DEF Attach, At, InfoUsed
 <2>2. QED BY <2>1, Used, ThreadType
<1>2. info[o].tag = th[r].block.tag BY DEF Attach, At, HoldInv, HandOK, Placed, HasTag
<1> DEFINE rec == [info[o] EXCEPT !.waiting_queue = w]
<1>3. /\ rec.tag = info[o].tag /\ rec.valid = info[o].valid /\ rec.freed = info[o].freed
      /\ rec.waiting_queue = w /\ rec.written = info[o].written
  BY <1>1 DEF Objects, InfoType
<1> HIDE DEF rec
<1>4. info' = [info EXCEPT ![o] = rec] BY DEF rec
<1>5. Objects' = Objects /\ \A p \in Objects : info'[p] = IF p = o THEN rec ELSE info[p]
  BY <1>1, <1>4 DEF Objects, TypeOK
<1>6. QED BY <1>1, <1>2, <1>3, <1>5 DEF Firm

LEMMA AttachOwn ==
  ASSUME TypeOK, HoldInv, OnceInv, NEW r \in Readers, Attach(r),
         th[r].waiting_queue # Null, Return(r), queue' = queue,
         info' = [info EXCEPT ![th[r].buffer].waiting_queue = th[r].waiting_queue]
  PROVE  OnceInv' /\ HoldInv'
<1> USE Sizes DEF Null
<1>o. PICK o : o = th[r].buffer OBVIOUS
<1>m. PICK m : m = BlockName(th[r].block) OBVIOUS
<1>w. PICK w : w = th[r].waiting_queue OBVIOUS
<1>1. pc[r] = "attach" /\ conn' = conn /\ Attaches(r, o, w) BY <1>o, <1>w DEF Attach, At, env, Attaches
<1>2. /\ o \in Objects /\ ~info[o].freed /\ info[o].tag = th[r].block.tag
      /\ Objects' = Objects /\ Firm
      /\ info'[o].waiting_queue = w /\ info'[o].written = info[o].written
      /\ \A p \in Objects : p # o => info'[p] = info[p]
  BY <1>1, AttachObject
<1>3. w \in 1 .. Len(queue) BY <1>w, ThreadType
<1>4. /\ pc'[r] \notin Unplaced /\ pc'[r] \notin Placed /\ pc'[r] \notin Holding
      /\ pc'[r] # "put_back" /\ pc'[r] # "count" /\ Others(r) /\ th'[r].waiting_queue = Null
      /\ th'[r].new_buf = th[r].new_buf /\ th'[r].repeat = th[r].repeat
  BY Returned
<1>5. /\ \A k : OnWire(k)' = OnWire(k)
      /\ Awaited' \subseteq Awaited /\ Taken' \subseteq Taken
      /\ \A e : \A p \in Objects : p \in Fillable(e)' => p \in Fillable(e)
      /\ \A k, e : \A s \in Readers \ {r} : /\ Coming(s, k)' => Coming(s, k)
                                            /\ Bound(s, k, e)' => Bound(s, k, e)
      /\ \A k : ~Coming(r, k)'
  BY <1>1, <1>2, <1>4, OthersPlaces
<1>6. \A q, i, k : Lies(q, i, k)' => Lies(q, i, k) BY DEF Lies
<1>7. \A e : \A p \in 1 .. Len(queue) : ~Holds(r, p, e)' BY <1>4 DEF Holds
<1>8. ASSUME NEW k, NEW e, NEW p \in 1 .. Len(queue), Drains(p, k, e)'
      PROVE  Drains(p, k, e) \/ (k = m /\ p = w /\ o \in Fillable(e))
 <2>1. CASE \E x \in Fillable(e)' : info'[x].waiting_queue = p
  <3>1. PICK x \in Fillable(e)' : info'[x].waiting_queue = p BY <2>1
  <3>2. x \in Objects BY <1>2 DEF Fillable
  <3>3. x \in Fillable(e) BY <1>5, <3>1, <3>2
  <3>4. CASE x # o BY <1>2, <3>1, <3>2, <3>3, <3>4 DEF Drains
  <3>5. CASE x = o /\ k # m
   <4>1. p = w /\ Holds(r, w, e) BY <1>2, <1>o, <1>w, <3>1, <3>3, <3>5 DEF Holds
   <4>2. QED BY <1>m, <3>5, <4>1 DEF Drains
  <3>6. CASE x = o /\ k = m BY <1>2, <3>1, <3>3, <3>6
  <3>7. QED BY <3>4, <3>5, <3>6
 <2>2. CASE \E s \in Readers : Holds(s, p, e)' /\ BlockName(th'[s].block) # k
  <3>1. PICK s \in Readers : Holds(s, p, e)' /\ BlockName(th'[s].block) # k BY <2>2
  <3>2. s \in Readers \ {r} BY <1>7, <3>1
  <3>3. Holds(s, p, e) /\ th'[s] = th[s] BY <1>4, <1>5, <3>1, <3>2, OthersHold
  <3>4. QED BY <3>1, <3>3 DEF Drains
 <2>3. QED BY <1>8, <2>1, <2>2 DEF Drains
<1>9. OnceInv'
 <2> SUFFICES ASSUME NEW k \in Names, NEW e PROVE Places(k, e)' /\ Paired(k, e)' BY DEF OnceInv
 <2>1. Places(k, e) /\ Paired(k, e) BY DEF OnceInv
 <2>2. InHands(k, e)' \subseteq InHands(k, e) \ {r}
  <3>1. ~Bound(r, k, e)' BY <1>4 DEF Bound
  <3>2. QED BY <1>5, <3>1 DEF InHands
 <2>3. InBuffers(k)' \subseteq InBuffers(k) /\ OnWire(k)' \subseteq OnWire(k)
   BY <1>2, <1>5 DEF InBuffers, Firm
 <2>4. PICK Y : Y = {p \in Nat \X Nat : p[1] = w /\ Lies(w, p[2], m)} OBVIOUS
 <2>5. ASSUME NEW p \in Nat \X Nat, p \in InQueues(k, e)'
       PROVE  p \in InQueues(k, e) \/ (k = m /\ o \in Fillable(e) /\ p \in Y)
  <3>1. Lies(p[1], p[2], k) /\ Drains(p[1], k, e)' BY <1>6, <2>5 DEF InQueues
  <3>2. p[1] \in 1 .. Len(queue) BY <3>1 DEF Lies
  <3>3. CASE Drains(p[1], k, e) BY <3>1, <3>3 DEF InQueues
  <3>4. CASE k = m /\ p[1] = w /\ o \in Fillable(e) BY <2>4, <3>1, <3>4
  <3>5. QED BY <1>8, <3>1, <3>2, <3>3, <3>4
 <2>6. InQueues(k, e)' \subseteq Nat \X Nat BY DEF InQueues
 <2>7. Places(k, e)'
  <3>1. CASE k = m /\ o \in Fillable(e)
   <4>1. r \in InHands(k, e) BY <1>1, <1>o, <1>m, <3>1 DEF InHands, Bound, Placed
   <4>2. AtMostOne(Y)
    <5>1. Holds(r, w, e) /\ BlockName(th[r].block) = k BY <1>o, <1>w, <1>m, <3>1 DEF Holds
    <5>2. AtMostOne({i \in Nat : Lies(w, i, k)}) BY <1>3, <2>1, <5>1 DEF Paired
    <5>3. ASSUME NEW x \in Y, NEW y \in Y PROVE x = y
     <6>1. /\ x \in Nat \X Nat /\ x[1] = w /\ Lies(w, x[2], k)
           /\ y \in Nat \X Nat /\ y[1] = w /\ Lies(w, y[2], k)
       BY <2>4, <3>1
     <6>2. x[2] = y[2] BY <5>2, <6>1 DEF AtMostOne
     <6>3. QED BY <6>1, <6>2
    <5>4. QED BY <5>3 DEF AtMostOne
   <4>3. InQueues(k, e)' \subseteq InQueues(k, e) \cup Y BY <2>5, <2>6
   <4>4. QED BY <2>1, <2>2, <2>3, <4>1, <4>2, <4>3, SoleParks DEF Places
  <3>2. CASE ~(k = m /\ o \in Fillable(e))
   <4>1. InQueues(k, e)' \subseteq InQueues(k, e) /\ InHands(k, e)' \subseteq InHands(k, e)
     BY <2>2, <2>5, <2>6, <3>2
   <4>2. QED BY <2>1, <2>3, <4>1, SoleShrinks DEF Places
  <3>3. QED BY <3>1, <3>2
 <2>8. Paired(k, e)'
  <3> SUFFICES ASSUME NEW s \in Readers, NEW q \in 1 .. Len(queue)',
                      Holds(s, q, e)', BlockName(th'[s].block) = k,
                      NEW i \in Nat, NEW j \in Nat, Lies(q, i, k)', Lies(q, j, k)'
               PROVE  i = j
    BY DEF Paired, AtMostOne
  <3>1. q \in 1 .. Len(queue) /\ Lies(q, i, k) /\ Lies(q, j, k) BY <1>6
  <3>2. s \in Readers \ {r} BY <1>7, <3>1
  <3>3. Holds(s, q, e) /\ th'[s] = th[s] BY <1>4, <1>5, <3>2, OthersHold
  <3>4. QED BY <2>1, <3>1, <3>3 DEF Paired, AtMostOne
 <2>9. QED BY <2>7, <2>8
<1>10. HoldInv'
 <2>1. r \in Handed' BY <1>4 DEF HandOK, Handed
 <2>2. AllUntouched' BY <1>2, <1>5, UntouchedKept DEF AllUntouched
 <2>3. Gets(r, o, w)
  <3>1. \A s \in Readers \ {r} : th[s].waiting_queue # w BY <1>w DEF HoldInv
  <3>2. \A p \in Objects : ~info[p].freed /\ info[p].waiting_queue = w => p = o
    BY <1>1, <1>w DEF HoldInv, HandOK
  <3>3. QED BY <1>2, <1>4, <3>1, <3>2 DEF Gets, Firm
 <2>4. \A p \in Objects : p \in Objects' /\ info'[p].tag = info[p].tag BY <1>2 DEF Firm
 <2>5. QED BY <1>4, <2>1, <2>2, <2>3, <2>4, HoldMove
<1>11. QED BY <1>9, <1>10

LEMMA NewQueue ==
  ASSUME TypeOK, NEW c, queue' = Append(queue, [blocks |-> c, freed |-> FALSE])
  PROVE  /\ Len(queue) \in Nat /\ Len(queue') = Len(queue) + 1
         /\ \A p, i, k : Lies(p, i, k)' =>
              \/ Lies(p, i, k)
              \/ p = Len(queue) + 1 /\ i \in 1 .. Len(c) /\ BlockName(c[i]) = k
<1>1. /\ Len(queue) \in Nat /\ Len(queue') = Len(queue) + 1
      /\ \A p \in 1 .. Len(queue) : queue'[p] = queue[p]
      /\ queue'[Len(queue) + 1].blocks = c
  BY Sizes DEF TypeOK
<1>2. 1 .. Len(queue') = (1 .. Len(queue)) \cup {Len(queue) + 1} BY <1>1
<1>3. QED BY <1>1, <1>2 DEF Lies

LEMMA AttachNew ==
  ASSUME TypeOK, HoldInv, OnceInv, NEW r \in Readers, Attach(r),
         th[r].waiting_queue = Null, Goto(r, "enqueue"), th' = th,
         queue' = Append(queue, [blocks |-> <<>>, freed |-> FALSE]),
         info' = [info EXCEPT ![th[r].buffer].waiting_queue = Len(queue) + 1]
  PROVE  OnceInv' /\ HoldInv'
<1> USE Sizes DEF Null
<1>o. PICK o : o = th[r].buffer OBVIOUS
<1>w. PICK w : w = Len(queue) + 1 OBVIOUS
<1>1. pc[r] = "attach" /\ conn' = conn /\ Attaches(r, o, w) BY <1>o, <1>w DEF Attach, At, env, Attaches
<1>2. /\ o \in Objects /\ ~info[o].freed /\ info[o].tag = th[r].block.tag
      /\ Objects' = Objects /\ Firm
      /\ info'[o].waiting_queue = w /\ info'[o].written = info[o].written
      /\ \A p \in Objects : p # o => info'[p] = info[p]
  BY <1>1, AttachObject
<1>3. Len(queue) \in Nat /\ Len(queue') = Len(queue) + 1 BY NewQueue
<1>4. \A q, i, k : Lies(q, i, k)' => Lies(q, i, k)
 <2>1. \A q, i, k : Lies(q, i, k)' =>
         Lies(q, i, k) \/ (q = Len(queue) + 1 /\ i \in 1 .. Len(<< >>) /\ BlockName(<< >>[i]) = k)
   BY NewQueue
 <2>2. QED BY <2>1
<1>5. /\ pc'[r] = "enqueue" /\ Others(r)
      /\ pc'[r] \notin Unplaced /\ pc'[r] # "put_back" /\ pc'[r] # "count"
  BY DEF Goto, Others, TypeOK, Unplaced
<1>6. /\ \A k : OnWire(k)' = OnWire(k)
      /\ Awaited' \subseteq Awaited /\ Taken' \subseteq Taken
      /\ \A e : \A p \in Objects : p \in Fillable(e)' => p \in Fillable(e)
      /\ \A k, e : \A s \in Readers \ {r} : /\ Coming(s, k)' => Coming(s, k)
                                            /\ Bound(s, k, e)' => Bound(s, k, e)
      /\ \A k : ~Coming(r, k)'
  BY <1>1, <1>2, <1>5, OthersPlaces
<1>7. \A e : \A p \in 1 .. Len(queue) : ~Holds(r, p, e)' BY DEF Holds
<1>8. ASSUME NEW k, NEW e, NEW p \in 1 .. Len(queue), Drains(p, k, e)'
      PROVE  Drains(p, k, e)
 <2>1. \A x \in Objects' : info'[x].waiting_queue = p => x \in Objects /\ info[x].waiting_queue = p
  <3>1. w # p BY <1>3, <1>w
  <3>2. QED BY <1>2, <3>1
 <2>2. QED BY <1>5, <1>6, <1>7, <1>8, <2>1, OthersDrain
<1>9. OnceInv'
 <2> SUFFICES ASSUME NEW k \in Names, NEW e PROVE Places(k, e)' /\ Paired(k, e)' BY DEF OnceInv
 <2>1. Places(k, e) /\ Paired(k, e) BY DEF OnceInv
 <2>2. InHands(k, e)' \subseteq InHands(k, e)
  <3>1. Bound(r, k, e)' => Bound(r, k, e)
   <4>1. \A p \in Objects : p \in Beside(e)' => p \in Beside(e) BY <1>5, <1>6, OthersHands
   <4>2. QED BY <1>1, <1>2, <1>6, <1>o, <4>1 DEF Bound, Placed
  <3>2. QED BY <1>6, <3>1 DEF InHands
 <2>3. InBuffers(k)' \subseteq InBuffers(k) /\ OnWire(k)' \subseteq OnWire(k)
   BY <1>2, <1>6 DEF InBuffers, Firm
 <2>4. InQueues(k, e)' \subseteq InQueues(k, e)
  <3>1. ASSUME NEW p \in Nat \X Nat, Lies(p[1], p[2], k)', Drains(p[1], k, e)'
        PROVE  Lies(p[1], p[2], k) /\ Drains(p[1], k, e)
   <4>1. Lies(p[1], p[2], k) BY <1>4, <3>1
   <4>2. p[1] \in 1 .. Len(queue) BY <4>1 DEF Lies
   <4>3. QED BY <1>8, <3>1, <4>1, <4>2
  <3>2. QED BY <3>1 DEF InQueues
 <2>5. Places(k, e)' BY <2>1, <2>2, <2>3, <2>4, SoleShrinks DEF Places
 <2>6. Paired(k, e)'
  <3> SUFFICES ASSUME NEW s \in Readers, NEW q \in 1 .. Len(queue)',
                      Holds(s, q, e)', BlockName(th'[s].block) = k,
                      NEW i \in Nat, NEW j \in Nat, Lies(q, i, k)', Lies(q, j, k)'
               PROVE  i = j
    BY DEF Paired, AtMostOne
  <3>1. Lies(q, i, k) /\ Lies(q, j, k) BY <1>4
  <3>2. q \in 1 .. Len(queue) BY <3>1 DEF Lies
  <3>3. s \in Readers \ {r} BY <1>7, <3>2
  <3>4. Holds(s, q, e) /\ th'[s] = th[s] BY <1>5, <1>6, <3>3, OthersHold
  <3>5. QED BY <2>1, <3>1, <3>2, <3>4 DEF Paired, AtMostOne
 <2>7. QED BY <2>5, <2>6
<1>10. HoldInv'
 <2>1. r \in Handed'
  <3>1. HasTag(th[r].buffer, th[r].block.tag)' BY <1>2, <1>o DEF HasTag, Objects, Firm
  <3>2. QED BY <1>5, <3>1 DEF HandOK, Handed
 <2>2. AllUntouched' BY <1>2, <1>6, UntouchedKept DEF AllUntouched
 <2>3. Gets(r, o, w)
  <3>1. \A s \in Readers \ {r} : th[s].waiting_queue # w BY <1>3, <1>w, ThreadType
  <3>2. \A p \in Objects : info[p].waiting_queue # w BY <1>3, <1>w DEF Objects, InfoType
  <3>3. QED BY <1>2, <3>1, <3>2 DEF Gets, Firm
 <2>4. \A p \in Objects : p \in Objects' /\ info'[p].tag = info[p].tag BY <1>2 DEF Firm
 <2>5. QED BY <1>5, <2>1, <2>2, <2>3, <2>4, HoldMove
<1>11. QED BY <1>9, <1>10

LEMMA AttachMove ==
  ASSUME TypeOK, HoldInv, OnceInv, NEW r \in Readers, Attach(r)
  PROVE  OnceInv' /\ HoldInv'
<1>1. \/ /\ th[r].waiting_queue # Null
         /\ info' = [info EXCEPT ![th[r].buffer].waiting_queue = th[r].waiting_queue]
         /\ Return(r) /\ queue' = queue
      \/ /\ th[r].waiting_queue = Null
         /\ queue' = Append(queue, [blocks |-> <<>>, freed |-> FALSE])
         /\ info' = [info EXCEPT ![th[r].buffer].waiting_queue = Len(queue) + 1]
         /\ Goto(r, "enqueue") /\ th' = th
  BY DEF Attach
<1>2. QED BY <1>1, AttachOwn, AttachNew

(* The block is put in a queue of a new dummy.  When the dummy is the one   *)
(* that the init block is going to find, the object it displaced is not, so *)
(* it does not matter that the thread goes on to park its block there, too. *)
LEMMA DataInsertMove ==
  ASSUME TypeOK, OrderInv, HoldInv, OnceInv, ~ub, NEW r \in Readers, DataInsert(r)
  PROVE  OnceInv' /\ HoldInv'
<1> USE Sizes DEF Null
<1>b. PICK b : b = th[r].block OBVIOUS
<1>t. PICK t : t = b.tag OBVIOUS
<1>m. PICK m : m = BlockName(b) OBVIOUS
<1>o. PICK o : o = table[t] OBVIOUS
<1>d. PICK d : d = Len(info) + 1 OBVIOUS
<1>q. PICK q : q = Len(queue) + 1 OBVIOUS
<1>c. PICK rec : rec = Dummy(t, NO_TAG, q) OBVIOUS
<1> DEFINE l == [th[r] EXCEPT !.waiting_queue = q, !.dummy = d, !.buffer = o]
<1>1. /\ pc[r] = "data_insert" /\ conn' = conn
      /\ queue' = Append(queue, [blocks |-> <<b>>, freed |-> FALSE]) /\ info' = Append(info, rec)
      /\ \/ Return(r)
         \/ o # Null /\ Locals(r, l) /\ Goto(r, "put_back")
  BY <1>b, <1>t, <1>o, <1>d, <1>q, <1>c DEF DataInsert, At, env
<1>2. /\ l.block = b /\ l.new_buf = th[r].new_buf /\ l.repeat = th[r].repeat
      /\ l.waiting_queue = q /\ l.dummy = d /\ l.buffer = o
  BY <1>b, ThreadType DEF LocalsType
<1>3. b \in DataBlocks /\ b \in Blocks /\ t \in Tags
  BY <1>1, <1>b, <1>t, BlockType DEF TypeOK, DataSteps, Blocks
<1> HIDE DEF l
<1>4. /\ Others(r) /\ th'[r].new_buf = th[r].new_buf /\ th'[r].repeat = th[r].repeat
      /\ pc'[r] \notin Unplaced /\ pc'[r] # "count"
      /\ \/ /\ pc'[r] = "put_back" /\ th'[r] = l /\ o # Null
         \/ /\ pc'[r] # "put_back" /\ pc'[r] \notin Placed
            /\ th'[r].waiting_queue = Null
 <2>1. CASE Return(r) BY <2>1, Returned
 <2>2. CASE o # Null /\ Locals(r, l) /\ Goto(r, "put_back")
  <3>1. pc'[r] = "put_back" /\ th'[r] = l /\ Others(r) BY <2>2, Step
  <3>2. QED BY <1>2, <2>2, <3>1 DEF Unplaced
 <2>3. QED BY <1>1, <2>1, <2>2
<1>5. th'[r].waiting_queue \in {Null, q} BY <1>2, <1>4
<1>6. /\ Len(info) \in Nat /\ Objects \subseteq Objects' /\ Objects' = Objects \cup {d}
      /\ d \notin Objects
      /\ \A p \in Objects : info'[p] = info[p]
      /\ info'[d] = rec
  BY <1>1, <1>d DEF Objects, TypeOK
<1>7. /\ rec.tag = t /\ ~rec.valid /\ rec.waiting_queue = q /\ rec.written = {} BY <1>c DEF Dummy, Calloc
<1>8. Firm BY <1>6 DEF Firm
<1>9. /\ Len(queue) \in Nat /\ q \notin 1 .. Len(queue) /\ q # Null
      /\ \A p, i, k : Lies(p, i, k)' => Lies(p, i, k) \/ (p = q /\ i = 1 /\ k = m)
 <2>1. /\ Len(queue) \in Nat
       /\ \A p, i, k : Lies(p, i, k)' =>
            Lies(p, i, k) \/ (p = Len(queue) + 1 /\ i \in 1 .. Len(<<b>>) /\ BlockName(<<b>>[i]) = k)
   BY <1>1, NewQueue
 <2>2. Len(<<b>>) = 1 /\ <<b>>[1] = b OBVIOUS
 <2>3. \A i \in 1 .. 1 : i = 1 OBVIOUS
 <2>4. QED BY <1>m, <1>q, <2>1, <2>2, <2>3
<1>10. \A k : OnWire(k)' = OnWire(k) /\ ~Coming(r, k)' BY <1>1, <1>4 DEF OnWire, Waits, Coming
<1>11. Awaited' \subseteq Awaited BY <1>4, <1>10, AwaitedShrinks
<1>12. Taken' \subseteq Taken BY <1>4, TakenSame
<1>13. \A e : \A p \in Objects : p \in Fillable(e)' => p \in Fillable(e) BY <1>8, <1>11, <1>12, FillableKept
<1>14. pc'[r] = "put_back" => th'[r].dummy \notin Objects BY <1>2, <1>4, <1>6
<1>15. \A p \in 1 .. Len(queue) : \A e : ~Holds(r, p, e)' BY <1>5, <1>9 DEF Holds
<1>16. ASSUME NEW k, NEW e, NEW p \in 1 .. Len(queue), Drains(p, k, e)'
       PROVE  Drains(p, k, e)
 <2>1. \A x \in Objects' : info'[x].waiting_queue = p => x \in Objects /\ info[x].waiting_queue = p
  <3>1. q # p BY <1>9
  <3>2. QED BY <1>6, <1>7, <3>1
 <2>2. QED BY <1>4, <1>13, <1>15, <1>16, <2>1, OthersDrain
<1>17. ASSUME NEW e, d \in Fillable(e)' PROVE t \in Awaited' /\ e[t] = d
 <2>1. d \notin Taken BY <1>6 DEF Taken
 <2>2. QED BY <1>6, <1>7, <1>12, <1>17, <2>1 DEF Fillable
<1>18. ASSUME NEW e, d \in Fillable(e)', NEW p \in Objects, info[p].tag = t
       PROVE  p \notin Fillable(e)'
 <2>1. t \in Awaited' /\ e[t] = d BY <1>17, <1>18
 <2>2. ~info[p].valid /\ p \notin Taken BY <1>11, <1>18, <2>1 DEF HoldInv, Untouched
 <2>3. p # d BY <1>6
 <2>4. QED BY <1>6, <1>12, <1>18, <2>1, <2>2, <2>3 DEF Fillable
<1>19. o \in Objects => info[o].tag = t BY <1>3, <1>o, OrderParts DEF TagsOK, Objects
<1>20. ASSUME pc'[r] = "put_back" PROVE o \in Objects BY <1>3, <1>4, <1>20, <1>o DEF HeapType, Objects, Keys
<1>21. ASSUME NEW e, NEW k, Bound(r, k, e)' PROVE k = m /\ d \notin Fillable(e)'
 <2>1. pc'[r] = "put_back" /\ th'[r] = l BY <1>4, <1>21 DEF Bound
 <2>2. k = m BY <1>2, <1>m, <1>21, <2>1 DEF Bound
 <2>3. o \in Objects /\ info[o].tag = t BY <1>19, <1>20, <2>1
 <2>4. o \in Fillable(e)' \/ o \in Beside(e)' BY <1>2, <1>21, <2>1 DEF Bound
 <2>5. ASSUME d \in Fillable(e)' PROVE FALSE
  <3>1. o \notin Fillable(e)' BY <1>18, <2>3, <2>5
  <3>2. PICK s \in Readers : pc'[s] = "put_back" /\ th'[s].dummy = o /\ th'[s].buffer \in Fillable(e)'
    BY <2>4, <3>1 DEF Beside
  <3>3. s # r BY <1>14, <2>3, <3>2
  <3>4. th'[s] = th[s] /\ pc[s] = "put_back" BY <1>4, <3>2, <3>3 DEF Others
  <3>5. HasTag(th[s].dummy, th[s].block.tag) /\ HasTag(th[s].buffer, th[s].block.tag)
    BY <3>4 DEF HoldInv, HandOK, Placed
  <3>6. th[s].buffer \in Objects /\ info[th[s].buffer].tag = t BY <2>3, <3>2, <3>4, <3>5, Pointers DEF HasTag
  <3>7. QED BY <1>18, <2>5, <3>2, <3>4, <3>6
 <2>6. QED BY <2>2, <2>5
<1>22. OnceInv'
 <2> SUFFICES ASSUME NEW k \in Names, NEW e PROVE Places(k, e)' /\ Paired(k, e)' BY DEF OnceInv
 <2>1. Places(k, e) /\ Paired(k, e) BY DEF OnceInv
 <2>2. r \in InHands(m, e) BY <1>1, <1>b, <1>m DEF InHands, Coming, Unplaced
 <2>3. \A s \in Readers \ {r} : /\ Coming(s, k)' => Coming(s, k)
                                /\ Bound(s, k, e)' => Bound(s, k, e)
   BY <1>4, <1>13, <1>14, OthersHands
 <2>4. /\ InHands(k, e)' \subseteq InHands(k, e)
       /\ d \in Fillable(e)' => InHands(k, e)' \subseteq InHands(k, e) \ {r}
   BY <1>10, <1>21, <2>2, <2>3 DEF InHands
 <2>5. InBuffers(k)' \subseteq InBuffers(k) /\ OnWire(k)' \subseteq OnWire(k)
   BY <1>6, <1>7, <1>10 DEF InBuffers
 <2>6. ASSUME Drains(q, m, e)' PROVE d \in Fillable(e)'
  <3>1. CASE \E x \in Fillable(e)' : info'[x].waiting_queue = q
   <4>1. PICK x \in Fillable(e)' : info'[x].waiting_queue = q BY <3>1
   <4>2. x \in Objects' BY DEF Fillable
   <4>3. x \notin Objects BY <1>6, <1>9, <4>1 DEF Objects, InfoType
   <4>4. QED BY <1>6, <4>1, <4>2, <4>3
  <3>2. CASE \E s \in Readers : Holds(s, q, e)' /\ BlockName(th'[s].block) # m
   <4>1. PICK s \in Readers : Holds(s, q, e)' /\ BlockName(th'[s].block) # m BY <3>2
   <4>2. th'[s].waiting_queue = q BY <4>1 DEF Holds
   <4>3. s # r BY <1>2, <1>4, <1>9, <1>m, <4>1, <4>2
   <4>4. th[s].waiting_queue = q BY <1>4, <4>2, <4>3 DEF Others
   <4>5. QED BY <1>9, <4>4, ThreadType
  <3>3. QED BY <2>6, <3>1, <3>2 DEF Drains
 <2>7. ASSUME NEW p \in Nat \X Nat, p \in InQueues(k, e)'
       PROVE  p \in InQueues(k, e) \/ (k = m /\ p = <<q, 1>> /\ d \in Fillable(e)')
  <3>1. Lies(p[1], p[2], k)' /\ Drains(p[1], k, e)' BY <2>7 DEF InQueues
  <3>2. CASE Lies(p[1], p[2], k)
   <4>1. p[1] \in 1 .. Len(queue) BY <3>2 DEF Lies
   <4>2. Drains(p[1], k, e) BY <1>16, <3>1, <4>1
   <4>3. QED BY <3>2, <4>2 DEF InQueues
  <3>3. CASE p[1] = q /\ p[2] = 1 /\ k = m
   <4>1. d \in Fillable(e)' BY <2>6, <3>1, <3>3
   <4>2. QED BY <3>3, <4>1
  <3>4. QED BY <1>9, <3>1, <3>2, <3>3
 <2>8. InQueues(k, e)' \subseteq Nat \X Nat BY DEF InQueues
 <2>9. Places(k, e)'
  <3>1. CASE k = m /\ d \in Fillable(e)'
   <4>1. r \in InHands(k, e) /\ AtMostOne({<<q, 1>>}) /\ InHands(k, e)' \subseteq InHands(k, e) \ {r}
     BY <2>2, <2>4, <3>1 DEF AtMostOne
   <4>2. InQueues(k, e)' \subseteq InQueues(k, e) \cup {<<q, 1>>} BY <2>7, <2>8
   <4>3. QED BY <2>1, <2>5, <4>1, <4>2, SoleParks DEF Places
  <3>2. CASE ~(k = m /\ d \in Fillable(e)')
   <4>1. InQueues(k, e)' \subseteq InQueues(k, e) BY <2>7, <2>8, <3>2
   <4>2. QED BY <2>1, <2>4, <2>5, <4>1, SoleShrinks DEF Places
  <3>3. QED BY <3>1, <3>2
 <2>10. Paired(k, e)'
  <3> SUFFICES ASSUME NEW s \in Readers, NEW p \in 1 .. Len(queue)',
                      Holds(s, p, e)', BlockName(th'[s].block) = k,
                      NEW i \in Nat, NEW j \in Nat, Lies(p, i, k)', Lies(p, j, k)'
               PROVE  i = j
    BY DEF Paired, AtMostOne
  <3>1. CASE p = q
   <4>1. ~Lies(p, i, k) /\ ~Lies(p, j, k) BY <1>9, <3>1 DEF Lies
   <4>2. QED BY <1>9, <4>1
  <3>2. CASE p # q
   <4>1. Lies(p, i, k) /\ Lies(p, j, k) BY <1>9, <3>2
   <4>2. p \in 1 .. Len(queue) BY <4>1 DEF Lies
   <4>3. s \in Readers \ {r} BY <1>15, <4>2
   <4>4. Holds(s, p, e) /\ th'[s] = th[s] BY <1>4, <1>13, <4>3, OthersHold
   <4>5. QED BY <2>1, <4>1, <4>2, <4>4 DEF Paired, AtMostOne
  <3>3. QED BY <3>1, <3>2
 <2>11. QED BY <2>9, <2>10
<1>23. HoldInv'
 <2>1. r \in Handed'
  <3>1. CASE pc'[r] = "put_back" /\ th'[r] = l /\ o # Null
   <4>1. o \in Objects /\ info[o].tag = t BY <1>19, <1>20, <3>1
   <4>2. HasTag(th[r].buffer, th[r].block.tag)' BY <1>2, <1>6, <1>t, <3>1, <4>1 DEF HasTag
   <4>3. d # Null BY <1>d, <1>6
   <4>4. HasTag(th[r].dummy, th[r].block.tag)' BY <1>2, <1>6, <1>7, <1>t, <3>1, <4>3 DEF HasTag
   <4>5. ASSUME NEW x \in Objects', info'[x].waiting_queue = th'[r].waiting_queue
         PROVE  x = th'[r].dummy
    <5>1. info'[x].waiting_queue = q BY <1>2, <3>1, <4>5
    <5>2. x \notin Objects BY <1>6, <1>9, <5>1 DEF Objects, InfoType
    <5>3. QED BY <1>2, <1>6, <3>1, <5>2
   <4>6. QED BY <3>1, <4>2, <4>4, <4>5 DEF HandOK, Handed, Holding
  <3>2. CASE pc'[r] # "put_back" /\ pc'[r] \notin Placed /\ th'[r].waiting_queue = Null
    BY <1>4, <3>2 DEF HandOK, Handed
  <3>3. QED BY <1>4, <3>1, <3>2
 <2>2. AllUntouched'
  <3>1. \A p \in Objects : Untouched(p)' BY <1>8, <1>11, <1>12, UntouchedKept
  <3>2. ~info'[d].valid /\ d \notin Taken' BY <1>6, <1>7, <1>12 DEF Taken
  <3>3. \A p \in Objects : info'[p].tag \in Awaited' => ~info'[p].valid /\ p \notin Taken'
    BY <3>1 DEF Untouched
  <3>4. \A p \in Objects' : info'[p].tag \in Awaited' => ~info'[p].valid /\ p \notin Taken'
    BY <1>6, <3>2, <3>3
  <3>5. QED BY <3>4 DEF AllUntouched, Untouched
 <2>3. Gets(r, d, q)
  <3>1. \A s \in Readers \ {r} : th[s].waiting_queue # q BY <1>9, ThreadType
  <3>2. \A p \in Objects : info[p].waiting_queue # q BY <1>9 DEF Objects, InfoType
  <3>3. QED BY <1>5, <1>6, <1>7, <3>1, <3>2 DEF Gets
 <2>4. \A p \in Objects : p \in Objects' /\ info'[p].tag = info[p].tag BY <1>6
 <2>5. QED BY <1>4, <2>1, <2>2, <2>3, <2>4, HoldMove
<1>24. QED BY <1>22, <1>23

(* Every step keeps blocks apart. *)

LEMMA StillKeeps ==
  ASSUME TypeOK, OnceInv, HoldInv, NEW r \in Readers, Still(r)
  PROVE  OnceInv' /\ HoldInv'
BY StillOnce, StillHold

(* A step that changes nothing but fault. *)
LEMMA OnlyFaultKeeps ==
  ASSUME OnceInv, HoldInv, UNCHANGED <<conn, info, queue, pc, th>>
  PROVE  OnceInv' /\ HoldInv'
<1>1. Objects' = Objects /\ Awaited' = Awaited /\ Taken' = Taken
  BY DEF Objects, Awaited, Taken, OnWire, Waits, Coming
<1>2. HoldInv' BY <1>1 DEF HoldInv, HandOK, HasTag, Untouched
<1>3. ASSUME NEW k \in Names, NEW e PROVE Places(k, e)' /\ Paired(k, e)'
 <2>1. Places(k, e) /\ Paired(k, e) BY DEF OnceInv
 <2>2. Fillable(e)' = Fillable(e) BY <1>1 DEF Fillable
 <2>3. Beside(e)' = Beside(e) BY <1>1, <2>2 DEF Beside
 <2>4. OnWire(k)' = OnWire(k) BY DEF OnWire, Waits
 <2>5. InHands(k, e)' = InHands(k, e) BY <2>2, <2>3 DEF InHands, Coming, Bound
 <2>6. InQueues(k, e)' = InQueues(k, e) BY <2>2 DEF InQueues, Lies, Drains, Holds
 <2>7. InBuffers(k)' = InBuffers(k) BY <1>1 DEF InBuffers
 <2>8. Places(k, e)' BY <2>1, <2>4, <2>5, <2>6, <2>7 DEF Places
 <2>9. Paired(k, e)' BY <2>1, <2>2 DEF Paired, Lies, Holds
 <2>10. QED BY <2>8, <2>9
<1>4. OnceInv' BY <1>3 DEF OnceInv
<1>5. QED BY <1>2, <1>4

LEMMA InitKeeps ==
  ASSUME TypeOK, OrderInv, OnceInv, HoldInv, InitsInv, DrainFinds, ~ub, NEW r \in Readers, InitBlockStep(r)
  PROVE  OnceInv' /\ HoldInv'
<1>1. CASE InitLookup(r) BY <1>1, InitLookupMove
<1>2. CASE DuplicateExit(r) BY <1>2, OnlyFaultKeeps DEF DuplicateExit, heap
<1>3. CASE InitInsert(r) BY <1>3, InitInsertMove
<1>4. CASE DrainBlock(r) BY <1>4, DrainMove
<1>a. ~DrainStale(r) BY DEF DrainStale, DrainFinds, At
<1>5. CASE \/ InitNotValid(r) \/ InitFill(r) \/ InitAdopt(r) \/ DrainNothing(r)
           \/ DrainLoop(r) \/ DrainMore(r) \/ DrainEmpty(r)
           \/ DrainFree(r) \/ DrainClear(r) \/ FreeRepeat(r)
  BY <1>5, InitStill, StillKeeps
<1>6. QED BY <1>1, <1>2, <1>3, <1>4, <1>a, <1>5 DEF InitBlockStep

LEMMA DataKeeps ==
  ASSUME TypeOK, OrderInv, OnceInv, HoldInv, ~ub, NEW r \in Readers, DataBlockStep(r)
  PROVE  OnceInv' /\ HoldInv'
<1>1. CASE DataInsert(r) BY <1>1, DataInsertMove
<1>2. CASE Attach(r) BY <1>2, AttachMove
<1>3. CASE Enqueue(r) BY <1>3, EnqueueMove
<1>4. CASE Copy(r) BY <1>4, CopyMove
<1>5. CASE DataLookup(r) \/ PutBack(r) \/ CheckValid(r) \/ Park(r) \/ Count(r) \/ Complete(r)
  BY <1>5, DataStill, StillKeeps
<1>6. QED BY <1>1, <1>2, <1>3, <1>4, <1>5 DEF DataBlockStep

LEMMA NextKeeps ==
  ASSUME TypeOK, OrderInv, OnceInv, HoldInv, InitsInv, DrainFinds, ~ub, [Next]_vars
  PROVE  OnceInv' /\ HoldInv'
<1>1. CASE UNCHANGED vars BY <1>1, OnlyFaultKeeps DEF vars
<1>2. CASE Stopped BY <1>1, <1>2 DEF Stopped
<1>3. ASSUME NEW r \in Readers, ReaderStep(r) PROVE OnceInv' /\ HoldInv'
 <2>1. CASE Read(r) BY <2>1, ReadMove
 <2>2. CASE BadAccess(r) BY <2>2, OnlyFaultKeeps DEF BadAccess, heap
 <2>3. CASE InitBlockStep(r) BY <2>3, InitKeeps
 <2>4. CASE DataBlockStep(r) BY <2>4, DataKeeps
 <2>5. CASE Close(r) \/ FinishedStep(r) BY <2>5, FinishStill, StillKeeps
 <2>6. QED BY <1>3, <2>1, <2>2, <2>3, <2>4, <2>5 DEF ReaderStep
<1>4. QED BY <1>1, <1>2, <1>3 DEF Next

(* Once an uninitialised buffer_kv has been used, it has been used. *)
LEMMA UbStays ==
  ASSUME TypeOK, [Next]_vars, ~ub'
  PROVE  ~ub
<1>1. CASE UNCHANGED vars \/ Stopped BY <1>1 DEF Stopped, vars
<1>2. ASSUME NEW r \in Readers, ReaderStep(r) PROVE ~ub
 <2>1. CASE Read(r) \/ Close(r) \/ BadAccess(r) BY <2>1 DEF Read, Close, BadAccess
 <2>2. CASE InitBlockStep(r)
   BY <2>2 DEF InitBlockStep, InitLookup, DuplicateExit, InitNotValid, InitFill, InitInsert,
      InitAdopt, DrainNothing, DrainLoop, DrainMore, DrainEmpty, DrainBlock, DrainStale, DrainFree, DrainClear, FreeRepeat, env
 <2>3. CASE DataBlockStep(r)
   BY <2>3 DEF DataBlockStep, DataLookup, DataInsert, PutBack, CheckValid, Park, Attach,
      Enqueue, Copy, Count, Complete, env
 <2>4. CASE FinishedStep(r)
   BY <2>4 DEF FinishedStep, PrevLookup, PrevInsert, PrevPutBack, PrevSent, SetNext, FreePrev,
      CallHandler, HandlerReturns, NextLookup, NextCompleted, DoneRemove, Zombie, env
 <2>5. QED BY <1>2, <2>1, <2>2, <2>3, <2>4 DEF ReaderStep
<1>3. QED BY <1>1, <1>2 DEF Next

(* A thread between the copy and the count has a block not counted yet. *)

LEMMA TallySame ==
  ASSUME TypeOK, info' = info
  PROVE  Tallied /\ NoneFilled /\ NoneCompleted
<1>1. Objects' = Objects BY DEF Objects
<1>2. QED BY <1>1, Sizes DEF Tallied, Tally, NoneFilled, NoneCompleted

LEMMA TallyAlloc ==
  ASSUME TypeOK, NEW rec, info' = Append(info, rec), Empty(rec)
  PROVE  /\ Tallied
         /\ ~rec.valid => NoneFilled
         /\ ~rec.completed => NoneCompleted
<1>1. /\ Len(info) \in Nat /\ Len(info') = Len(info) + 1
      /\ \A x \in Objects' : info'[x] = IF x \in Objects THEN info[x] ELSE rec
  BY Sizes DEF Objects, TypeOK
<1>2. Objects \subseteq Objects' /\ Len(info) <= Len(info') BY <1>1 DEF Objects
<1>3. \A x \in Objects : info'[x] = info[x] BY <1>1, <1>2
<1>4. \A x \in Objects' \ Objects : info'[x] = rec BY <1>1
<1>5. QED BY <1>2, <1>3, <1>4 DEF Tallied, Tally, NoneFilled, NoneCompleted

LEMMA TallyWrite ==
  ASSUME TypeOK, NEW o, NEW rec, info' = [info EXCEPT ![o] = rec],
         o \in Objects => Tally(info[o], rec)
  PROVE  /\ Tallied
         /\ (o \in Objects /\ rec.valid => info[o].valid) => NoneFilled
         /\ (o \in Objects => rec.completed = info[o].completed) => NoneCompleted
<1>1. Objects' = Objects /\ Len(info') = Len(info) /\ Len(info) \in Nat BY Sizes DEF Objects, TypeOK
<1>2. \A x \in Objects : info'[x] = IF x = o THEN rec ELSE info[x] BY DEF Objects, TypeOK
<1>3. \A x \in Objects : Tally(info[x], info'[x]) BY <1>2 DEF Tally
<1>4. Tallied BY <1>1, <1>3 DEF Tallied
<1>5. QED BY <1>1, <1>2, <1>4 DEF NoneFilled, NoneCompleted

(* A step that writes a field the tally does not look at. *)
LEMMA TallyField ==
  ASSUME TypeOK, NEW o, NEW v,
         \/ info' = [info EXCEPT ![o].next_tag = v]
         \/ info' = [info EXCEPT ![o].waiting_queue = v]
         \/ info' = [info EXCEPT ![o].buffer = v]
         \/ info' = [info EXCEPT ![o].sent = v]
         \/ info' = [info EXCEPT ![o].freed = v]
  PROVE  Tallied /\ NoneFilled /\ NoneCompleted
<1>1. o \in Objects => info[o] \in InfoType(Len(queue)) BY DEF TypeOK, Objects
<1>2. PICK rec : /\ info' = [info EXCEPT ![o] = rec]
                 /\ \/ rec = [info[o] EXCEPT !.next_tag = v]
                    \/ rec = [info[o] EXCEPT !.waiting_queue = v]
                    \/ rec = [info[o] EXCEPT !.buffer = v]
                    \/ rec = [info[o] EXCEPT !.sent = v]
                    \/ rec = [info[o] EXCEPT !.freed = v]
  OBVIOUS
<1>3. o \in Objects => Tally(info[o], rec) /\ rec.valid = info[o].valid
                     /\ rec.completed = info[o].completed
  BY <1>1, <1>2 DEF Tally, InfoType
<1>4. QED BY <1>2, <1>3, TallyWrite

LEMMA AsideGoto ==
  ASSUME TypeOK, NEW r \in Readers, NEW s, NEW l, Goto(r, s), Locals(r, l),
         pc[r] # "count", s \notin {"count", "complete"}
  PROVE  Aside(r) /\ pc'[r] = s /\ th'[r] = l
BY Step DEF Aside

LEMMA AsideSame ==
  ASSUME TypeOK, NEW r \in Readers, NEW s, Goto(r, s), th' = th,
         pc[r] # "count", s \notin {"count", "complete"}
  PROVE  Aside(r) /\ pc'[r] = s /\ th'[r] = th[r]
BY DEF Aside, Others, Goto, TypeOK

LEMMA AsideReturn ==
  ASSUME TypeOK, NEW r \in Readers, Return(r), pc[r] # "count"
  PROVE  Aside(r) /\ pc'[r] \in {"drain_test", "read"}
BY Step DEF Aside, Return

LEMMA AsideDrained ==
  ASSUME TypeOK, NEW r \in Readers, DrainDone(r), pc[r] # "count"
  PROVE  Aside(r) /\ pc'[r] \in {"free_repeat", "read"}
BY AsideGoto, AsideSame DEF DrainDone

LEMMA InitQuiet ==
  ASSUME TypeOK, NEW r \in Readers,
         \/ InitLookup(r) \/ InitNotValid(r) \/ InitAdopt(r) \/ DrainNothing(r)
         \/ DrainLoop(r) \/ DrainMore(r) \/ DrainEmpty(r) \/ DrainBlock(r)
         \/ DrainStale(r) \/ DrainFree(r) \/ DrainClear(r) \/ FreeRepeat(r)
  PROVE  /\ Tallied /\ NoneFilled /\ NoneCompleted /\ Aside(r)
         /\ pc'[r] \in Draining \cup {"init_valid", "init_insert", "init_fill",
                                      "free_repeat", "read", "data_lookup"}
<1> USE DEF Draining
<1>1. CASE InitLookup(r) BY <1>1, TallySame, AsideGoto DEF InitLookup, At, heap
<1>2. CASE InitAdopt(r) BY <1>2, TallyField, AsideSame DEF InitAdopt, At
<1>3. CASE DrainNothing(r) BY <1>3, TallySame, AsideDrained DEF DrainNothing, At, heap
<1>4. CASE DrainBlock(r) BY <1>4, TallySame, AsideGoto DEF DrainBlock, At
<1>5. CASE InitNotValid(r) \/ DrainMore(r) \/ DrainEmpty(r)
  BY <1>5, TallySame, AsideSame DEF InitNotValid, DrainMore, DrainEmpty, At, heap
<1>a. CASE DrainLoop(r) BY <1>a, TallySame, AsideGoto DEF DrainLoop, At, heap
<1>b. CASE DrainStale(r)
 <2>1. /\ info' = info /\ pc[r] = "drain_take"
       /\ \/ Goto(r, "data_lookup") /\ Locals(r, [th[r] EXCEPT !.block = th[r].old_block])
          \/ UNCHANGED <<pc, th>>
   BY <1>b DEF DrainStale, At, heap
 <2>2. QED BY <2>1, TallySame, AsideGoto DEF Aside, Others
<1>6. CASE DrainFree(r) BY <1>6, TallySame, AsideSame DEF DrainFree, At
<1>7. CASE DrainClear(r) BY <1>7, TallyField, AsideDrained DEF DrainClear, At
<1>8. CASE FreeRepeat(r) BY <1>8, TallyField, AsideGoto DEF FreeRepeat, At
<1>9. QED BY <1>1, <1>2, <1>3, <1>4, <1>5, <1>a, <1>b, <1>6, <1>7, <1>8

LEMMA DataQuiet ==
  ASSUME TypeOK, NEW r \in Readers,
         \/ DataLookup(r) \/ DataInsert(r) \/ PutBack(r) \/ CheckValid(r)
         \/ Park(r) \/ Attach(r) \/ Enqueue(r)
  PROVE  /\ Tallied /\ NoneFilled /\ NoneCompleted /\ Aside(r)
         /\ pc'[r] \in {"check_valid", "data_insert", "drain_test", "read", "put_back", "copy", "park",
                        "attach", "enqueue"}
<1>1. CASE DataLookup(r) BY <1>1, TallySame, AsideGoto, AsideSame DEF DataLookup, At, heap
<1>2. CASE DataInsert(r)
 <2>1. PICK rec : rec = Dummy(th[r].block.tag, NO_TAG, Len(queue) + 1) OBVIOUS
 <2>2. Empty(rec) /\ ~rec.valid /\ ~rec.completed BY <2>1 DEF Empty, Dummy, Calloc
 <2>3. Tallied /\ NoneFilled /\ NoneCompleted BY <1>2, <2>1, <2>2, TallyAlloc DEF DataInsert
 <2>4. QED BY <1>2, <2>3, AsideGoto, AsideReturn DEF DataInsert, At
<1>3. CASE PutBack(r) BY <1>3, TallyField, AsideGoto DEF PutBack, At
<1>4. CASE CheckValid(r) BY <1>4, TallySame, AsideGoto, AsideSame DEF CheckValid, At
<1>5. CASE Park(r) BY <1>5, TallySame, AsideSame DEF Park, At, heap
<1>6. CASE Attach(r)
 <2>1. pc[r] = "attach" BY <1>6 DEF Attach, At
 <2>2. PICK v : info' = [info EXCEPT ![th[r].buffer].waiting_queue = v] BY <1>6 DEF Attach
 <2>3. Return(r) \/ (Goto(r, "enqueue") /\ th' = th) BY <1>6 DEF Attach
 <2>4. Tallied /\ NoneFilled /\ NoneCompleted BY <2>2, TallyField
 <2>5. QED BY <2>1, <2>3, <2>4, AsideReturn, AsideSame
<1>7. CASE Enqueue(r) BY <1>7, TallySame, AsideReturn DEF Enqueue, At
<1>8. QED BY <1>1, <1>2, <1>3, <1>4, <1>5, <1>6, <1>7

LEMMA FinishQuiet ==
  ASSUME TypeOK, NEW r \in Readers, Close(r) \/ FinishedStep(r)
  PROVE  /\ Tallied /\ NoneFilled /\ NoneCompleted /\ Aside(r)
         /\ pc'[r] \in {"closed", "deliver", "prev_insert", "prev_sent", "prev_put_back",
                        "free_prev", "set_next", "drain_test", "read", "in_handler", "next_lookup",
                        "zombie", "next_completed", "remove"}
<1>1. CASE Close(r) BY <1>1, TallySame, AsideSame DEF Close, At, heap
<1>2. CASE PrevLookup(r) BY <1>2, TallySame, AsideGoto, AsideSame DEF PrevLookup, At, heap
<1>3. CASE PrevInsert(r)
 <2>1. PICK rec : rec = Dummy(info[th[r].done].prev_tag, info[th[r].done].tag, Null) OBVIOUS
 <2>2. Empty(rec) /\ ~rec.valid /\ ~rec.completed BY <2>1 DEF Empty, Dummy, Calloc
 <2>3. Tallied /\ NoneFilled /\ NoneCompleted BY <1>3, <2>1, <2>2, TallyAlloc DEF PrevInsert
 <2>4. QED BY <1>3, <2>3, AsideGoto DEF PrevInsert, At
<1>4. CASE PrevPutBack(r) BY <1>4, TallyField, AsideGoto DEF PrevPutBack, At
<1>5. CASE PrevSent(r) BY <1>5, TallySame, AsideSame DEF PrevSent, At, heap
<1>6. CASE SetNext(r) BY <1>6, TallyField, AsideReturn DEF SetNext, At
<1>7. CASE FreePrev(r) BY <1>7, TallyField, AsideSame DEF FreePrev, At
<1>8. CASE CallHandler(r) BY <1>8, TallySame, AsideSame DEF CallHandler, At, heap
<1>9. CASE HandlerReturns(r)
 <2>1. PICK v : info' = [info EXCEPT ![th[r].done].buffer = v]
  <3>1. info' = [info EXCEPT ![th[r].done].buffer =
                   IF info[th[r].done].buffer = "null" THEN info[th[r].done].buffer ELSE "freed"]
    BY <1>9 DEF HandlerReturns
  <3>2. QED BY <3>1
 <2>2. QED BY <1>9, <2>1, TallyField, AsideSame DEF HandlerReturns, At
<1>10. CASE NextLookup(r) BY <1>10, TallySame, AsideGoto, AsideSame DEF NextLookup, At, heap
<1>11. CASE NextCompleted(r) BY <1>11, TallySame, AsideGoto, AsideSame DEF NextCompleted, At, heap
<1>12. CASE DoneRemove(r) BY <1>12, TallySame, AsideSame DEF DoneRemove, At
<1>13. CASE Zombie(r) BY <1>13, TallyField, AsideGoto, AsideReturn DEF Zombie, At
<1>14. QED BY <1>1, <1>2, <1>3, <1>4, <1>5, <1>6, <1>7, <1>8, <1>9, <1>10, <1>11, <1>12, <1>13
     DEF FinishedStep

LEMMA ReadQuiet ==
  ASSUME TypeOK, NEW r \in Readers, Read(r)
  PROVE  /\ Tallied /\ NoneFilled /\ NoneCompleted /\ Aside(r)
         /\ pc'[r] \in {"init_lookup", "data_lookup"}
BY TallySame, AsideGoto DEF Read, At, heap

(* Every step keeps the count. *)

LEMMA WrittenFinite ==
  ASSUME TypeOK, NEW o \in Objects
  PROVE  /\ info[o].written \subseteq 0 .. MaxSize - 1
         /\ IsFiniteSet(info[o].written) /\ IsFiniteSet(Counted(o))
<1>1. info[o] \in InfoType(Len(queue)) BY Sizes DEF Objects
<1>2. info[o].written \subseteq 0 .. MaxSize - 1 BY <1>1 DEF InfoType
<1>3. MaxSize \in Nat BY StandardsAssumption
<1>4. IsFiniteSet(0 .. MaxSize - 1) BY <1>3, FS_Interval
<1>5. IsFiniteSet(info[o].written) BY <1>2, <1>4, FS_Subset
<1>6. QED BY <1>2, <1>5, FS_Subset DEF Counted

LEMMA BufferUsed ==
  ASSUME TypeOK, NEW r \in Readers, Safe(r), pc[r] \in {"copy", "count", "complete"}
  PROVE  th[r].buffer \in Objects
<1>1. th[r].buffer \in InfoUsed(r) BY DEF InfoUsed
<1>2. QED BY <1>1, Used, ThreadType

LEMMA QuietCounts ==
  ASSUME TypeOK, CountInv, NEW r \in Readers, Aside(r), Tallied
  PROVE  CountInv'
<1>1. \A s \in Readers : /\ pc'[s] = "count" <=> pc[s] = "count"
                         /\ pc[s] = "count" => th'[s] = th[s]
  BY DEF Aside, Others
<1>2. \A o : Counters(o)' = Counters(o) BY <1>1 DEF Counters
<1>3. \A o : Counting(o)' = Counting(o) BY <1>1, <1>2 DEF Counting, Counters
<1>4. ASSUME NEW o \in Objects' PROVE info'[o].n_written = Cardinality(Counted(o)')
 <2>1. CASE o \in Objects
  <3>1. Counted(o)' = Counted(o) BY <1>3, <2>1 DEF Counted, Tallied, Tally
  <3>2. QED BY <2>1, <3>1 DEF CountInv, Tallied, Tally
 <2>2. CASE o \notin Objects
  <3>1. Empty(info'[o]) BY <2>2 DEF Tallied
  <3>2. Counted(o)' = {} BY <3>1 DEF Counted, Empty
  <3>3. QED BY <3>1, <3>2, FS_EmptySet DEF Empty
 <2>3. QED BY <2>1, <2>2
<1>5. ASSUME NEW s \in Readers, pc'[s] = "count"
      PROVE  /\ th'[s].buffer \in Objects'
             /\ th'[s].block.seq_number \in info'[th'[s].buffer].written
 <2>1. pc[s] = "count" /\ th'[s] = th[s] BY <1>1, <1>5
 <2>2. th[s].buffer \in Objects /\ th[s].block.seq_number \in info[th[s].buffer].written BY <2>1 DEF CountInv
 <2>3. Objects \subseteq Objects' BY Sizes DEF Tallied, Objects
 <2>4. QED BY <2>1, <2>2, <2>3 DEF Tallied, Tally
<1>6. ASSUME NEW s \in Readers, NEW q \in Readers, pc'[s] = "count", pc'[q] = "count",
             th'[s].buffer = th'[q].buffer, th'[s].block.seq_number = th'[q].block.seq_number
      PROVE  s = q
  BY <1>1, <1>6 DEF CountInv
<1>7. QED BY <1>4, <1>5, <1>6 DEF CountInv

(* The copy adds a number to those written that is not counted yet. *)
LEMMA CopyCounts ==
  ASSUME TypeOK, OrderInv, HoldInv, OnceInv, CountInv, ~ub, NEW r \in Readers, Copy(r)
  PROVE  CountInv'
<1> USE Sizes
<1>o. PICK o : o = th[r].buffer OBVIOUS
<1>w. PICK w : w = th[r].block.seq_number OBVIOUS
<1>1. /\ pc[r] = "copy" /\ o \in Objects /\ th' = th /\ Len(info') = Len(info)
      /\ \A s \in Readers : pc'[s] = IF s = r THEN "count" ELSE pc[s]
  BY <1>o, BufferUsed DEF Copy, At, Goto, TypeOK
<1>2. Objects' = Objects BY <1>1 DEF Objects
<1>3. /\ \A p \in Objects \ {o} : info'[p] = info[p]
      /\ info'[o].written = info[o].written \cup {w} /\ info'[o].n_written = info[o].n_written
 <2>1. PICK rec : rec = [info[o] EXCEPT !.written = @ \cup {w}] OBVIOUS
 <2>2. rec.written = info[o].written \cup {w} /\ rec.n_written = info[o].n_written
   BY <1>1, <2>1 DEF Objects, InfoType
 <2>3. info' = [info EXCEPT ![o] = rec] BY <1>o, <1>w, <2>1 DEF Copy
 <2>4. QED BY <1>1, <2>2, <2>3 DEF Objects, TypeOK
<1>4. w \notin info[o].written BY <1>o, <1>w, CopyMove
<1>5. ASSUME NEW p \in Objects PROVE info'[p].n_written = Cardinality(Counted(p)')
 <2>1. info[p].n_written = Cardinality(Counted(p)) BY DEF CountInv
 <2>2. CASE p = o
  <3>1. Counters(o)' = Counters(o) \cup {r} BY <1>o, <1>1 DEF Counters
  <3>2. Counting(o)' = Counting(o) \cup {w} BY <1>w, <1>1, <3>1 DEF Counting
  <3>3. Counted(o)' = Counted(o) BY <1>3, <1>4, <3>2 DEF Counted
  <3>4. QED BY <1>3, <2>1, <2>2, <3>3
 <2>3. CASE p # o
  <3>1. Counters(p)' = Counters(p) BY <1>o, <1>1, <2>3 DEF Counters
  <3>2. Counting(p)' = Counting(p) BY <1>1, <3>1 DEF Counting
  <3>3. Counted(p)' = Counted(p) BY <1>3, <2>3, <3>2 DEF Counted
  <3>4. QED BY <1>3, <2>1, <2>3, <3>3
 <2>4. QED BY <2>2, <2>3
<1>6. ASSUME NEW s \in Readers, pc'[s] = "count"
      PROVE  /\ th'[s].buffer \in Objects'
             /\ th'[s].block.seq_number \in info'[th'[s].buffer].written
 <2>1. CASE s = r BY <1>o, <1>w, <1>1, <1>2, <1>3, <2>1
 <2>2. CASE s # r
  <3>1. th[s].buffer \in Objects /\ th[s].block.seq_number \in info[th[s].buffer].written
    BY <1>1, <1>6, <2>2 DEF CountInv
  <3>2. QED BY <1>1, <1>2, <1>3, <3>1
 <2>3. QED BY <2>1, <2>2
<1>7. ASSUME NEW s \in Readers, NEW q \in Readers, pc'[s] = "count", pc'[q] = "count",
             th[s].buffer = th[q].buffer, th[s].block.seq_number = th[q].block.seq_number
      PROVE  s = q
 <2>1. \A x \in Readers : x # r /\ pc'[x] = "count" /\ th[x].buffer = o
                           => th[x].block.seq_number # w
   BY <1>1, <1>4 DEF CountInv
 <2>2. QED BY <1>o, <1>w, <1>1, <1>7, <2>1 DEF CountInv
<1>8. QED BY <1>1, <1>2, <1>5, <1>6, <1>7 DEF CountInv

(* The count counts it. *)
LEMMA CountCounts ==
  ASSUME TypeOK, CountInv, NEW r \in Readers, Count(r)
  PROVE  CountInv'
<1> USE Sizes
<1>o. PICK o : o = th[r].buffer OBVIOUS
<1>w. PICK w : w = th[r].block.seq_number OBVIOUS
<1>1. /\ pc[r] = "count" /\ o \in Objects /\ Len(info') = Len(info) /\ pc'[r] # "count" /\ Others(r)
 <2>1. pc[r] = "count" /\ o \in Objects BY <1>o, BufferUsed DEF Count, At
 <2>2. (Goto(r, "complete") /\ th' = th) \/ Return(r) BY DEF Count
 <2>3. pc'[r] # "count" /\ Others(r) BY <2>2, Step DEF Return, Goto, TypeOK, Others
 <2>4. Len(info') = Len(info) BY DEF Count, TypeOK
 <2>5. QED BY <2>1, <2>3, <2>4
<1>2. Objects' = Objects BY <1>1 DEF Objects
<1>3. /\ \A p \in Objects \ {o} : info'[p] = info[p]
      /\ info'[o].written = info[o].written /\ info'[o].n_written = info[o].n_written + 1
 <2>1. PICK rec : rec = [info[o] EXCEPT !.n_written = @ + 1] OBVIOUS
 <2>2. rec.written = info[o].written /\ rec.n_written = info[o].n_written + 1
   BY <1>1, <2>1 DEF Objects, InfoType
 <2>3. info' = [info EXCEPT ![o] = rec] BY <1>o, <2>1 DEF Count
 <2>4. QED BY <1>1, <2>2, <2>3 DEF Objects, TypeOK
<1>4. ASSUME NEW p \in Objects PROVE info'[p].n_written = Cardinality(Counted(p)')
 <2>1. info[p].n_written = Cardinality(Counted(p)) BY DEF CountInv
 <2>2. CASE p = o
  <3>1. Counters(o)' = Counters(o) \ {r} /\ r \in Counters(o) BY <1>o, <1>1 DEF Counters, Others
  <3>2. \A s \in Counters(o)' : s # r /\ th'[s] = th[s] /\ s \in Counters(o)
    BY <1>1, <3>1 DEF Others, Counters
  <3>3. \A s \in Counters(o)' : th[s].block.seq_number # w BY <1>o, <1>w, <3>1, <3>2 DEF CountInv, Counters
  <3>4. Counting(o)' = Counting(o) \ {w}
   <4>1. Counting(o)' = {th[s].block.seq_number : s \in Counters(o)'} BY <3>2 DEF Counting
   <4>2. QED BY <1>w, <3>1, <3>3, <4>1 DEF Counting
  <3>5. w \in Counting(o) /\ w \in info[o].written BY <1>o, <1>w, <1>1, <3>1 DEF Counting, CountInv
  <3>6. Counted(o)' = Counted(o) \cup {w} /\ w \notin Counted(o) BY <1>3, <3>4, <3>5 DEF Counted
  <3>7. Cardinality(Counted(o) \cup {w}) = Cardinality(Counted(o)) + 1
    BY <1>1, <3>6, WrittenFinite, FS_AddElement
  <3>8. QED BY <1>3, <2>1, <2>2, <3>6, <3>7
 <2>3. CASE p # o
  <3>1. Counters(p)' = Counters(p) BY <1>o, <1>1, <2>3 DEF Counters, Others
  <3>2. Counting(p)' = Counting(p)
   <4>1. \A s \in Counters(p) : th'[s] = th[s] BY <1>o, <1>1, <2>3 DEF Counters, Others
   <4>2. QED BY <3>1, <4>1 DEF Counting
  <3>3. Counted(p)' = Counted(p) BY <1>3, <2>3, <3>2 DEF Counted
  <3>4. QED BY <1>3, <2>1, <2>3, <3>3
 <2>4. QED BY <2>2, <2>3
<1>5. \A s \in Readers : pc'[s] = "count" => pc[s] = "count" /\ th'[s] = th[s] BY <1>1 DEF Others
<1>6. ASSUME NEW s \in Readers, pc'[s] = "count"
      PROVE  /\ th'[s].buffer \in Objects'
             /\ th'[s].block.seq_number \in info'[th'[s].buffer].written
  BY <1>2, <1>3, <1>5, <1>6 DEF CountInv
<1>7. ASSUME NEW s \in Readers, NEW q \in Readers, pc'[s] = "count", pc'[q] = "count",
             th'[s].buffer = th'[q].buffer, th'[s].block.seq_number = th'[q].block.seq_number
      PROVE  s = q
  BY <1>5, <1>7 DEF CountInv
<1>8. QED BY <1>2, <1>4, <1>6, <1>7 DEF CountInv

(* The steps that fill an object, and the one that completes it. *)
LEMMA FillQuiet ==
  ASSUME TypeOK, OrderInv, InitsInv, ~ub, NEW r \in Readers, InitFill(r)
  PROVE  /\ Tallied /\ NoneCompleted /\ Aside(r) /\ pc'[r] = "drain"
         /\ th[r].new_buf \in Objects
         /\ \A o \in Objects' : info'[o].valid =>
              \/ o \in Objects /\ info[o].valid
              \/ /\ info'[o].tag = th[r].block.tag
                 /\ info'[o].buffer_size = th[r].block.buffer_size
<1>o. PICK o : o = th[r].new_buf OBVIOUS
<1>1. o \in Objects /\ pc[r] = "init_fill"
 <2>1. o \in InfoUsed(r) /\ Safe(r) /\ pc[r] = "init_fill" BY <1>o DEF InitFill, At, InfoUsed
 <2>2. QED BY <1>o, <2>1, Used, ThreadType
<1>2. info[o].tag = th[r].block.tag BY <1>o, <1>1, OrderParts DEF ThreadOK, InitOK, HasTag
<1>3. PICK rec : rec = Filled(info[o], th[r].block) OBVIOUS
<1>4. /\ Tally(info[o], rec) /\ rec.completed = info[o].completed
      /\ rec.tag = th[r].block.tag /\ rec.buffer_size = th[r].block.buffer_size
  BY <1>o, <1>1, <1>2, <1>3, Sizes, FillsFirst DEF Tally, Filled, InfoType, Objects
<1>5. info' = [info EXCEPT ![o] = rec] BY <1>o, <1>3 DEF InitFill
<1>6. Tallied /\ NoneCompleted BY <1>4, <1>5, TallyWrite
<1>7. Aside(r) /\ pc'[r] = "drain" BY <1>1, AsideSame DEF InitFill
<1>8. Objects' = Objects /\ \A x \in Objects : info'[x] = IF x = o THEN rec ELSE info[x]
  BY <1>1, <1>5, Sizes DEF Objects, TypeOK
<1>9. QED BY <1>o, <1>1, <1>4, <1>6, <1>7, <1>8

LEMMA InsertQuiet ==
  ASSUME TypeOK, NEW r \in Readers, InitInsert(r)
  PROVE  /\ Tallied /\ NoneCompleted /\ Aside(r) /\ pc'[r] \in {"init_adopt", "drain_test", "read"}
         /\ \A o \in Objects' : info'[o].valid =>
              \/ o \in Objects /\ info[o].valid
              \/ /\ info'[o].tag = th[r].block.tag
                 /\ info'[o].buffer_size = th[r].block.buffer_size
<1>1. PICK rec : rec = Filled([Calloc EXCEPT !.next_tag = NO_TAG], th[r].block) OBVIOUS
<1>2. /\ Empty(rec) /\ ~rec.completed
      /\ rec.tag = th[r].block.tag /\ rec.buffer_size = th[r].block.buffer_size
  BY <1>1 DEF Empty, Filled, Calloc
<1>3. info' = Append(info, rec) /\ pc[r] = "init_insert" BY <1>1 DEF InitInsert, At
<1>4. Tallied /\ NoneCompleted BY <1>2, <1>3, TallyAlloc
<1>5. Aside(r) /\ pc'[r] \in {"init_adopt", "drain_test", "read"}
  BY <1>3, AsideGoto, AsideReturn DEF InitInsert
<1>6. \A x \in Objects' : info'[x] = IF x \in Objects THEN info[x] ELSE rec BY <1>3, Sizes DEF Objects, TypeOK
<1>7. QED BY <1>2, <1>4, <1>5, <1>6

LEMMA CompleteQuiet ==
  ASSUME TypeOK, NEW r \in Readers, Complete(r)
  PROVE  /\ Tallied /\ NoneFilled /\ Aside(r) /\ pc'[r] = "prev_lookup"
         /\ th[r].buffer \in Objects /\ Objects' = Objects /\ info'[th[r].buffer].completed
         /\ \A o \in Objects : o # th[r].buffer => info'[o] = info[o]
<1>o. PICK o : o = th[r].buffer OBVIOUS
<1>1. o \in Objects /\ pc[r] = "complete" BY <1>o, BufferUsed DEF Complete, At
<1>2. PICK rec : rec = [info[o] EXCEPT !.completed = TRUE] OBVIOUS
<1>3. Tally(info[o], rec) /\ rec.completed /\ rec.valid = info[o].valid
  BY <1>1, <1>2, Sizes DEF Tally, InfoType, Objects
<1>4. info' = [info EXCEPT ![o] = rec] BY <1>o, <1>2 DEF Complete
<1>5. Tallied /\ NoneFilled BY <1>3, <1>4, TallyWrite
<1>6. Aside(r) /\ pc'[r] = "prev_lookup" BY <1>1, AsideGoto DEF Complete
<1>7. Objects' = Objects /\ \A x \in Objects : info'[x] = IF x = o THEN rec ELSE info[x]
  BY <1>1, <1>4, Sizes DEF Objects, TypeOK
<1>8. QED BY <1>o, <1>1, <1>3, <1>5, <1>6, <1>7

LEMMA OnlyFaultCounts ==
  ASSUME CountInv, UNCHANGED <<info, pc, th>>
  PROVE  CountInv'
<1>1. Objects' = Objects /\ \A o : Counters(o)' = Counters(o) BY DEF Objects, Counters
<1>2. \A o : Counting(o)' = Counting(o) BY <1>1 DEF Counting
<1>3. \A o : Counted(o)' = Counted(o) BY <1>2 DEF Counted
<1>4. QED BY <1>1, <1>3 DEF CountInv

LEMMA NextCounts ==
  ASSUME TypeOK, OrderInv, HoldInv, OnceInv, CountInv, InitsInv, ~ub, [Next]_vars
  PROVE  CountInv'
<1>1. CASE UNCHANGED vars BY <1>1, OnlyFaultCounts DEF vars
<1>2. CASE Stopped BY <1>1, <1>2 DEF Stopped
<1>3. ASSUME NEW r \in Readers, ReaderStep(r) PROVE CountInv'
 <2>1. CASE Read(r) BY <2>1, ReadQuiet, QuietCounts
 <2>2. CASE BadAccess(r) BY <2>2, OnlyFaultCounts DEF BadAccess, heap
 <2>3. CASE DuplicateExit(r) BY <2>3, OnlyFaultCounts DEF DuplicateExit, heap
 <2>4. CASE InitFill(r) BY <2>4, FillQuiet, QuietCounts
 <2>5. CASE InitInsert(r) BY <2>5, InsertQuiet, QuietCounts
 <2>6. CASE \/ InitLookup(r) \/ InitNotValid(r) \/ InitAdopt(r) \/ DrainNothing(r)
            \/ DrainLoop(r) \/ DrainMore(r) \/ DrainEmpty(r) \/ DrainBlock(r)
            \/ DrainStale(r) \/ DrainFree(r) \/ DrainClear(r) \/ FreeRepeat(r)
   BY <2>6, InitQuiet, QuietCounts
 <2>7. CASE Copy(r) BY <2>7, CopyCounts
 <2>8. CASE Count(r) BY <2>8, CountCounts
 <2>9. CASE Complete(r) BY <2>9, CompleteQuiet, QuietCounts
 <2>10. CASE \/ DataLookup(r) \/ DataInsert(r) \/ PutBack(r) \/ CheckValid(r)
             \/ Park(r) \/ Attach(r) \/ Enqueue(r)
   BY <2>10, DataQuiet, QuietCounts
 <2>11. CASE Close(r) \/ FinishedStep(r) BY <2>11, FinishQuiet, QuietCounts
 <2>12. QED BY <1>3, <2>1, <2>2, <2>3, <2>4, <2>5, <2>6, <2>7, <2>8, <2>9, <2>10, <2>11
      DEF ReaderStep, InitBlockStep, DataBlockStep
<1>4. QED BY <1>1, <1>2, <1>3 DEF Next

(* No block is made up: every block on its way, and every number written,   *)
(* comes from the set S of those that were sent.                            *)

LEMMA StockKept ==
  ASSUME TypeOK, NEW S, Known(S), Tallied, NoneFilled, AnnouncedAll
  PROVE  \A o \in Objects' : Stocked(info'[o], S)
<1> SUFFICES ASSUME NEW o \in Objects' PROVE Stocked(info'[o], S) OBVIOUS
<1>1. CASE o \in Objects
 <2>1. Stocked(info[o], S) /\ Tally(info[o], info'[o]) /\ (info'[o].valid => info[o].valid)
   BY <1>1 DEF Known, Tallied, NoneFilled
 <2>2. info'[o].valid => info'[o].buffer_size = info[o].buffer_size
   BY <1>1, <2>1 DEF AnnouncedAll, Announced, Objects
 <2>3. QED BY <2>1, <2>2 DEF Stocked, Tally
<1>2. CASE o \notin Objects BY <1>2 DEF Tallied, Empty, NoneFilled, Stocked
<1>3. QED BY <1>1, <1>2

(* The objects that are filled now have the size of the init block in hand. *)
LEMMA StockFilled ==
  ASSUME TypeOK, NEW S, Known(S), Tallied, AnnouncedAll,
         NEW b \in S, b.kind = "init",
         \A o \in Objects' : info'[o].valid =>
            \/ o \in Objects /\ info[o].valid
            \/ info'[o].tag = b.tag /\ info'[o].buffer_size = b.buffer_size
  PROVE  \A o \in Objects' : Stocked(info'[o], S)
<1> SUFFICES ASSUME NEW o \in Objects' PROVE Stocked(info'[o], S) OBVIOUS
<1>1. \A w \in info'[o].written : DataBlock(info'[o].tag, w) \in S
  BY DEF Known, Tallied, Tally, Empty, Stocked
<1>2. ASSUME info'[o].valid
      PROVE  \E c \in S : c.kind = "init" /\ c.tag = info'[o].tag /\ c.buffer_size = info'[o].buffer_size
 <2>1. CASE o \in Objects /\ info[o].valid
  <3>1. info'[o].buffer_size = info[o].buffer_size /\ info'[o].tag = info[o].tag
    BY <2>1 DEF AnnouncedAll, Announced, Objects, Tallied, Tally
  <3>2. QED BY <2>1, <3>1 DEF Known, Stocked
 <2>2. CASE info'[o].tag = b.tag /\ info'[o].buffer_size = b.buffer_size BY <2>2
 <2>3. QED BY <1>2, <2>1, <2>2
<1>3. QED BY <1>1, <1>2 DEF Stocked

LEMMA ParkedKept ==
  ASSUME TypeOK, NEW S, Parked(S), Len(queue') = Len(queue),
         \A q \in 1 .. Len(queue) : queue'[q].blocks = queue[q].blocks
  PROVE  Parked(S)'
BY DEF Parked

LEMMA ParkedNew ==
  ASSUME TypeOK, NEW S, Parked(S), NEW bs \in Seq(S),
         queue' = Append(queue, [blocks |-> bs, freed |-> FALSE])
  PROVE  Parked(S)'
<1>1. /\ Len(queue) \in Nat /\ Len(queue') = Len(queue) + 1
      /\ \A q \in 1 .. Len(queue') : queue'[q] = IF q \in 1 .. Len(queue) THEN queue[q]
                                                 ELSE [blocks |-> bs, freed |-> FALSE]
  BY Sizes DEF TypeOK
<1>2. QED BY <1>1 DEF Parked

(* A step that writes the blocks of one queue, and perhaps frees one. *)
LEMMA ParkedWrite ==
  ASSUME TypeOK, NEW S, Parked(S), NEW p, NEW bs, p \in 1 .. Len(queue) => bs \in Seq(S), NEW f,
         LET written == [queue EXCEPT ![p].blocks = bs] IN
           queue' = written \/ queue' = [written EXCEPT ![f].freed = TRUE]
  PROVE  Parked(S)'
<1>1. PICK w : w = [queue EXCEPT ![p].blocks = bs] OBVIOUS
<1>2. /\ Len(w) = Len(queue) /\ DOMAIN w = 1 .. Len(queue) /\ Len(queue) \in Nat
      /\ \A q \in 1 .. Len(queue) : w[q] = IF q = p THEN [queue[q] EXCEPT !.blocks = bs] ELSE queue[q]
 <2>1. queue \in [1 .. Len(queue) -> QueueType] /\ Len(queue) \in Nat BY Sizes DEF TypeOK
 <2>2. DOMAIN w = 1 .. Len(queue) /\ Len(w) = Len(queue) BY <1>1, <2>1
 <2>3. \A q \in 1 .. Len(queue) : w[q] = IF q = p THEN [queue[q] EXCEPT !.blocks = bs] ELSE queue[q]
   BY <1>1, <2>1
 <2>4. QED BY <2>1, <2>2, <2>3
<1>a. w = [q \in 1 .. Len(queue) |-> w[q]]
 <2>1. queue \in [1 .. Len(queue) -> QueueType] BY Sizes DEF TypeOK
 <2>2. QED BY <1>1, <2>1
<1>3. \A q \in 1 .. Len(queue) : w[q].blocks \in Seq(S)
 <2>1. \A q \in 1 .. Len(queue) : [queue[q] EXCEPT !.blocks = bs].blocks = bs BY Sizes DEF QueueType
 <2>2. QED BY <1>2, <2>1 DEF Parked
<1>4. \A q \in 1 .. Len(queue) : [w[q] EXCEPT !.freed = TRUE].blocks = w[q].blocks
 <2>1. \A q \in 1 .. Len(queue) : [[queue[q] EXCEPT !.blocks = bs] EXCEPT !.freed = TRUE].blocks = bs
   BY Sizes DEF QueueType
 <2>2. \A q \in 1 .. Len(queue) : [queue[q] EXCEPT !.freed = TRUE].blocks = queue[q].blocks
   BY Sizes DEF QueueType
 <2>3. \A q \in 1 .. Len(queue) : [queue[q] EXCEPT !.blocks = bs].blocks = bs BY Sizes DEF QueueType
 <2>4. QED BY <1>2, <2>1, <2>2, <2>3
<1>5. queue' = w \/ queue' = [w EXCEPT ![f].freed = TRUE] BY <1>1
<1>6. CASE queue' = w BY <1>2, <1>3, <1>6 DEF Parked
<1>7. CASE queue' = [w EXCEPT ![f].freed = TRUE]
 <2>1. /\ DOMAIN queue' = 1 .. Len(queue) /\ Len(queue') = Len(queue)
       /\ \A q \in 1 .. Len(queue) : queue'[q] = IF q = f THEN [w[q] EXCEPT !.freed = TRUE] ELSE w[q]
  <3>1. \A q \in 1 .. Len(queue) : queue'[q] = IF q = f THEN [w[q] EXCEPT !.freed = TRUE] ELSE w[q]
    BY <1>2, <1>7
  <3>2. queue' = [q \in 1 .. Len(queue) |-> queue'[q]] BY <1>a, <1>7
  <3>3. DOMAIN queue' = 1 .. Len(queue) /\ Len(queue') = Len(queue) BY <1>2, <3>2
  <3>4. QED BY <3>1, <3>3
 <2>2. QED BY <1>3, <1>4, <2>1 DEF Parked
<1>8. QED BY <1>5, <1>6, <1>7

LEMMA KnownStep ==
  ASSUME TypeOK, NEW S, Known(S), NEW r \in Readers, Others(r),
         \A s \in Readers : conn'[s] \in Seq(S),
         pc'[r] \in Carrying => th'[r].block \in S,
         Parked(S)', \A o \in Objects' : Stocked(info'[o], S)
  PROVE  Known(S)'
BY DEF Known, Others

LEMMA InitCarries ==
  ASSUME TypeOK, NEW r \in Readers,
         \/ InitLookup(r) \/ InitNotValid(r) \/ InitFill(r) \/ InitInsert(r)
         \/ InitAdopt(r) \/ DrainNothing(r) \/ DrainLoop(r) \/ DrainMore(r)
         \/ DrainEmpty(r) \/ DrainFree(r) \/ DrainClear(r) \/ FreeRepeat(r)
  PROVE  Carries(r)
<1>1. CASE InitLookup(r)
 <2>1. pc[r] = "init_lookup" /\ th'[r] = [th[r] EXCEPT !.new_buf = table[th[r].block.tag]]
   BY <1>1, Step DEF InitLookup, At
 <2>2. th'[r].block = th[r].block BY <2>1, ThreadType DEF LocalsType
 <2>3. QED BY <2>1, <2>2 DEF Carries, Carrying, Unplaced
<1>2. (Draining \cup {"init_adopt", "read", "free_repeat"}) \cap Carrying = {}
  BY DEF Carrying, Unplaced, Placed, Draining
<1>3. CASE \/ InitFill(r) \/ InitInsert(r) \/ InitAdopt(r) \/ DrainNothing(r)
           \/ DrainLoop(r) \/ DrainMore(r) \/ DrainEmpty(r) \/ DrainFree(r)
           \/ DrainClear(r) \/ FreeRepeat(r)
 <2>1. pc'[r] \in Draining \cup {"init_adopt", "read", "free_repeat"}
   BY <1>3 DEF InitFill, InitInsert, InitAdopt, DrainNothing, DrainLoop, DrainMore, DrainEmpty,
      DrainFree, DrainClear, FreeRepeat, DrainDone, Return, Goto, TypeOK, Draining
 <2>2. QED BY <1>2, <2>1 DEF Carries
<1>4. CASE InitNotValid(r) BY <1>4 DEF InitNotValid, At, Carries, Carrying
<1>5. QED BY <1>1, <1>3, <1>4

LEMMA DataCarries ==
  ASSUME TypeOK, NEW r \in Readers, DataBlockStep(r)
  PROVE  Carries(r)
<1>1. {"drain_test", "read", "count", "complete", "prev_lookup"} \cap Carrying = {}
  BY DEF Carrying, Unplaced, Placed
<1>2. ASSUME Return(r) PROVE Carries(r) BY <1>1, <1>2 DEF Return, Carries, Goto, TypeOK
<1>3. ASSUME pc'[r] \in {"drain_test", "read", "count", "complete", "prev_lookup"} PROVE Carries(r)
  BY <1>1, <1>3 DEF Carries
<1>4. ASSUME pc[r] \in Carrying, th' = th PROVE Carries(r) BY <1>4 DEF Carries
<1>5. ASSUME pc[r] \in Carrying, NEW l, Locals(r, l), l.block = th[r].block PROVE Carries(r)
  BY <1>5 DEF Carries, Locals, TypeOK
<1>6. pc[r] \in DataSteps \ {"count", "complete"} => pc[r] \in Carrying
  BY DEF DataSteps, Carrying, Unplaced, Placed
<1>7. CASE DataLookup(r)
 <2>1. pc[r] \in Carrying BY <1>6, <1>7 DEF DataLookup, At, DataSteps
 <2>2. \A o : [th[r] EXCEPT !.kv[Frame(r)] = o, !.buffer = o, !.found = TRUE].block = th[r].block
   BY ThreadType DEF LocalsType
 <2>3. QED BY <1>4, <1>5, <1>7, <2>1, <2>2 DEF DataLookup
<1>8. CASE DataInsert(r)
 <2>1. pc[r] \in Carrying BY <1>6, <1>8 DEF DataInsert, At, DataSteps
 <2>2. PICK l : l = [th[r] EXCEPT !.waiting_queue = Len(queue) + 1, !.dummy = Len(info) + 1,
                                  !.buffer = table[th[r].block.tag]]
   OBVIOUS
 <2>3. l.block = th[r].block BY <2>2, ThreadType DEF LocalsType
 <2>4. Return(r) \/ Locals(r, l) BY <1>8, <2>2 DEF DataInsert
 <2>5. QED BY <1>2, <1>5, <2>1, <2>3, <2>4
<1>9. CASE PutBack(r)
 <2>1. pc[r] \in Carrying BY <1>6, <1>9 DEF PutBack, At, DataSteps
 <2>2. [th[r] EXCEPT !.dummy = Null].block = th[r].block BY ThreadType DEF LocalsType
 <2>3. QED BY <1>5, <1>9, <2>1, <2>2 DEF PutBack
<1>10. CASE CheckValid(r)
 <2>1. pc[r] \in Carrying BY <1>6, <1>10 DEF CheckValid, At, DataSteps
 <2>2. [th[r] EXCEPT !.waiting_queue = Null].block = th[r].block BY ThreadType DEF LocalsType
 <2>3. QED BY <1>4, <1>5, <1>10, <2>1, <2>2 DEF CheckValid
<1>11. CASE Park(r) \/ Attach(r) \/ Enqueue(r)
 <2>1. pc[r] \in Carrying BY <1>6, <1>11 DEF Park, Attach, Enqueue, At, DataSteps
 <2>2. QED BY <1>2, <1>4, <1>11, <2>1 DEF Park, Attach, Enqueue
<1>12. CASE Copy(r) \/ Count(r) \/ Complete(r)
 <2>1. pc'[r] \in {"drain_test", "read", "count", "complete", "prev_lookup"}
   BY <1>12 DEF Copy, Count, Complete, Return, Goto, TypeOK
 <2>2. QED BY <1>3, <2>1
<1>13. QED BY <1>7, <1>8, <1>9, <1>10, <1>11, <1>12 DEF DataBlockStep

LEMMA WireSame ==
  ASSUME NEW S, Known(S), Reads
  PROVE  \A s \in Readers : conn'[s] \in Seq(S)
<1>1. <<>> \in Seq(S) OBVIOUS
<1>2. QED BY <1>1 DEF Known, Reads

LEMMA SteadyKnown ==
  ASSUME TypeOK, NEW S, Known(S), NEW r \in Readers, Aside(r), Carries(r), Reads,
         Parked(S)', \A o \in Objects' : Stocked(info'[o], S)
  PROVE  Known(S)'
BY WireSame, KnownStep DEF Known, Carries, Aside

LEMMA InitKnown ==
  ASSUME TypeOK, OrderInv, HoldInv, InitsInv, DrainFinds, ~ub, NEW S, Known(S),
         NEW r \in Readers, InitBlockStep(r), ~DuplicateExit(r)
  PROVE  Known(S)'
<1>0. AnnouncedAll BY InitAnnounced
<1>1. Parked(S) BY DEF Known
<1>2. CASE DrainBlock(r)
 <2>1. PICK q : q = info[Owner(r)].waiting_queue OBVIOUS
 <2>2. PICK bs : bs = queue[q].blocks OBVIOUS
 <2>3. /\ q # Null /\ bs # <<>> /\ queue' = [queue EXCEPT ![q].blocks = Tail(@)]
       /\ Locals(r, [th[r] EXCEPT !.block = Head(bs), !.old_block = Head(bs), !.set = TRUE])
       /\ conn' = conn
  <3>1. QueueUsed(r) = {q} /\ Safe(r) BY <1>2, <2>1 DEF DrainBlock, At, QueueUsed
  <3>2. QED BY <1>2, <2>1, <2>2, <3>1 DEF DrainBlock, Safe, env
 <2>4. q \in 1 .. Len(queue)
  <3>1. Owner(r) \in Objects
   <4>1. Owner(r) \in InfoUsed(r) /\ Safe(r) BY <1>2 DEF DrainBlock, At, InfoUsed
   <4>2. Owner(r) \in 0 .. Len(info) BY ThreadType DEF Owner
   <4>3. QED BY <4>1, <4>2, Used
  <3>2. info[Owner(r)] \in InfoType(Len(queue)) BY <3>1, Sizes DEF Objects
  <3>3. q \in 0 .. Len(queue) BY <2>1, <3>2 DEF InfoType
  <3>4. QED BY <2>3, <3>3, Sizes DEF Null
 <2>5. bs \in Seq(S) /\ Head(bs) \in S /\ Tail(bs) \in Seq(S) BY <1>1, <2>2, <2>3, <2>4 DEF Parked
 <2>6. Parked(S)'
  <3>1. queue' = [queue EXCEPT ![q].blocks = Tail(bs)] BY <2>2, <2>3
  <3>2. QED BY <1>1, <2>5, <3>1, ParkedWrite
 <2>7. th'[r].block = Head(bs) BY <2>3, ThreadType DEF Locals, TypeOK, LocalsType
 <2>8. Tallied /\ NoneFilled /\ Aside(r) BY <1>2, InitQuiet
 <2>9. \A s \in Readers : conn'[s] \in Seq(S) BY <2>3 DEF Known
 <2>10. \A o \in Objects' : Stocked(info'[o], S) BY <1>0, <2>8, StockKept
 <2>11. QED BY <2>5, <2>6, <2>7, <2>8, <2>9, <2>10, KnownStep DEF Aside
<1>3. CASE InitLookup(r)
 <2>1. Tallied /\ NoneFilled /\ Aside(r) /\ Carries(r) BY <1>3, InitQuiet, InitCarries
 <2>2. queue' = queue /\ Reads BY <1>3, StillReads DEF InitLookup, heap
 <2>3. Parked(S)' BY <1>1, <2>2 DEF Parked
 <2>4. QED BY <1>0, <2>1, <2>2, <2>3, StockKept, SteadyKnown
<1>4. CASE InitInsert(r)
 <2>1. Tallied /\ Aside(r) /\ Carries(r) BY <1>4, InsertQuiet, InitCarries
 <2>2. queue' = queue /\ Reads /\ pc[r] = "init_insert" BY <1>4, StillReads DEF InitInsert, At
 <2>3. Parked(S)' BY <1>1, <2>2 DEF Parked
 <2>4. th[r].block \in S /\ th[r].block.kind = "init"
   BY <2>2 DEF Known, Carrying, Unplaced, TypeOK, InitSteps, InitBlocks
 <2>5. \A o \in Objects' : Stocked(info'[o], S) BY <1>0, <1>4, <2>1, <2>4, InsertQuiet, StockFilled
 <2>6. QED BY <2>1, <2>2, <2>3, <2>5, SteadyKnown
<1>5. CASE InitFill(r)
 <2>1. Tallied /\ Aside(r) /\ Carries(r) BY <1>5, FillQuiet, InitCarries
 <2>2. queue' = queue /\ Reads /\ pc[r] = "init_fill" BY <1>5, StillReads DEF InitFill, At
 <2>3. Parked(S)' BY <1>1, <2>2 DEF Parked
 <2>4. th[r].block \in S /\ th[r].block.kind = "init"
   BY <2>2 DEF Known, Carrying, TypeOK, InitSteps, InitBlocks
 <2>5. \A o \in Objects' : Stocked(info'[o], S) BY <1>0, <1>5, <2>1, <2>4, FillQuiet, StockFilled
 <2>6. QED BY <2>1, <2>2, <2>3, <2>5, SteadyKnown
<1>a. ~DrainStale(r) BY DEF DrainStale, DrainFinds, At
<1>6. CASE \/ InitNotValid(r) \/ InitAdopt(r) \/ DrainNothing(r)
           \/ DrainLoop(r) \/ DrainMore(r) \/ DrainEmpty(r) \/ DrainFree(r) \/ DrainClear(r) \/ FreeRepeat(r)
 <2>1. Tallied /\ NoneFilled /\ Aside(r) /\ Carries(r) BY <1>6, InitQuiet, InitCarries
 <2>2. Reads /\ CalmHeap BY <1>6, InitStill DEF Still
 <2>3. Parked(S)' BY <1>1, <2>2, ParkedKept DEF CalmHeap
 <2>4. QED BY <1>0, <2>1, <2>2, <2>3, StockKept, SteadyKnown
<1>7. QED BY <1>2, <1>3, <1>4, <1>5, <1>a, <1>6 DEF InitBlockStep

(* The number written is that of a data block with the tag of the buffer. *)
LEMMA CopyKnown ==
  ASSUME TypeOK, HoldInv, NEW S, Known(S), NEW r \in Readers, Copy(r)
  PROVE  Known(S)'
<1> USE Sizes
<1>o. PICK o : o = th[r].buffer OBVIOUS
<1>b. PICK b : b = th[r].block OBVIOUS
<1>1. /\ pc[r] = "copy" /\ o \in Objects /\ pc'[r] = "count" /\ Others(r)
  BY <1>o, BufferUsed DEF Copy, At, Goto, TypeOK, Others
<1>2. PICK rec : rec = [info[o] EXCEPT !.written = @ \cup {b.seq_number}] OBVIOUS
<1>3. /\ rec.written = info[o].written \cup {b.seq_number} /\ rec.tag = info[o].tag
      /\ rec.valid = info[o].valid /\ rec.buffer_size = info[o].buffer_size
  BY <1>1, <1>2 DEF Objects, InfoType
<1>4. info' = [info EXCEPT ![o] = rec] BY <1>o, <1>b, <1>2 DEF Copy
<1>5. Objects' = Objects /\ \A x \in Objects : info'[x] = IF x = o THEN rec ELSE info[x]
  BY <1>1, <1>4 DEF Objects, TypeOK
<1>6. info[o].tag = b.tag BY <1>1, <1>o, <1>b DEF HoldInv, HandOK, Placed, HasTag
<1>7. b \in S /\ b \in DataBlocks BY <1>1, <1>b DEF Known, Carrying, Placed, TypeOK, DataSteps
<1>8. DataBlock(b.tag, b.seq_number) = b BY <1>7 DEF DataBlock, DataBlocks
<1>9. Stocked(rec, S) BY <1>1, <1>3, <1>6, <1>7, <1>8 DEF Known, Stocked
<1>10. \A x \in Objects' : Stocked(info'[x], S) BY <1>5, <1>9 DEF Known
<1>11. Parked(S)' /\ Reads BY StillReads DEF Copy, Known, Parked
<1>12. pc'[r] \notin Carrying BY <1>1 DEF Carrying, Unplaced, Placed
<1>13. QED BY <1>1, <1>10, <1>11, <1>12, WireSame, KnownStep

(* Every step of a data block but the copy leaves the numbers alone. *)
LEMMA CountStocks ==
  ASSUME TypeOK, NEW S, Known(S), NEW r \in Readers, Count(r)
  PROVE  Known(S)'
<1> USE Sizes
<1>o. PICK o : o = th[r].buffer OBVIOUS
<1>1. pc[r] = "count" /\ o \in Objects /\ Others(r)
 <2>1. pc[r] = "count" /\ o \in Objects BY <1>o, BufferUsed DEF Count, At
 <2>2. (Goto(r, "complete") /\ th' = th) \/ Return(r) BY DEF Count
 <2>3. QED BY <2>1, <2>2, Step DEF Return, Goto, TypeOK, Others
<1>2. PICK rec : rec = [info[o] EXCEPT !.n_written = @ + 1] OBVIOUS
<1>3. /\ rec.written = info[o].written /\ rec.tag = info[o].tag
      /\ rec.valid = info[o].valid /\ rec.buffer_size = info[o].buffer_size
  BY <1>1, <1>2 DEF Objects, InfoType
<1>4. info' = [info EXCEPT ![o] = rec] BY <1>o, <1>2 DEF Count
<1>5. Objects' = Objects /\ \A x \in Objects : info'[x] = IF x = o THEN rec ELSE info[x]
  BY <1>1, <1>4 DEF Objects, TypeOK
<1>6. \A x \in Objects' : Stocked(info'[x], S) BY <1>1, <1>3, <1>5 DEF Known, Stocked
<1>7. Parked(S)' /\ Reads BY StillReads DEF Count, Known, Parked
<1>8. pc'[r] \in Carrying => th'[r].block \in S
 <2>1. Carries(r) BY DataCarries DEF DataBlockStep
 <2>2. QED BY <2>1 DEF Carries, Known
<1>9. QED BY <1>1, <1>6, <1>7, <1>8, WireSame, KnownStep

LEMMA DataKnown ==
  ASSUME TypeOK, OrderInv, HoldInv, ~ub, NEW S, Known(S), NEW r \in Readers, DataBlockStep(r)
  PROVE  Known(S)'
<1>0. AnnouncedAll /\ Carries(r) BY DataAnnounced, DataCarries
<1>1. Parked(S) BY DEF Known
<1>2. PICK b : b = th[r].block OBVIOUS
<1>3. ASSUME DataInsert(r) \/ Enqueue(r) PROVE b \in S /\ <<b>> \in Seq(S)
 <2>1. pc[r] \in Carrying BY <1>3 DEF DataInsert, Enqueue, At, Carrying, Unplaced, Placed
 <2>2. b \in S BY <1>2, <2>1 DEF Known
 <2>3. QED BY <2>2
<1>4. ASSUME \/ DataLookup(r) \/ DataInsert(r) \/ PutBack(r) \/ CheckValid(r)
             \/ Park(r) \/ Attach(r) \/ Enqueue(r) \/ Complete(r)
      PROVE  /\ Aside(r) /\ Reads
             /\ \A o \in Objects' : Stocked(info'[o], S)
 <2>1. Tallied /\ NoneFilled /\ Aside(r) BY <1>4, DataQuiet, CompleteQuiet
 <2>2. conn' = conn
   BY <1>4 DEF DataLookup, DataInsert, PutBack, CheckValid, Park, Attach, Enqueue, Complete, env
 <2>3. QED BY <1>0, <2>1, <2>2, StockKept DEF Reads
<1>5. CASE DataInsert(r)
 <2>1. queue' = Append(queue, [blocks |-> <<b>>, freed |-> FALSE]) BY <1>2, <1>5 DEF DataInsert
 <2>2. Parked(S)' BY <1>1, <1>3, <1>5, <2>1, ParkedNew
 <2>3. QED BY <1>0, <1>4, <1>5, <2>2, SteadyKnown
<1>6. CASE Attach(r)
 <2>1. queue' = queue \/ queue' = Append(queue, [blocks |-> <<>>, freed |-> FALSE]) BY <1>6 DEF Attach
 <2>2. <<>> \in Seq(S) OBVIOUS
 <2>3. Parked(S)'
  <3>1. CASE queue' = queue BY <1>1, <3>1 DEF Parked
  <3>2. CASE queue' = Append(queue, [blocks |-> <<>>, freed |-> FALSE]) BY <1>1, <2>2, <3>2, ParkedNew
  <3>3. QED BY <2>1, <3>1, <3>2
 <2>4. QED BY <1>0, <1>4, <1>6, <2>3, SteadyKnown
<1>7. CASE Enqueue(r)
 <2>1. PICK p : p = info[th[r].buffer].waiting_queue OBVIOUS
 <2>2. PICK bs : bs = Append(queue[p].blocks, b) OBVIOUS
 <2>3. PICK f : f = th[r].waiting_queue OBVIOUS
 <2>4. LET written == [queue EXCEPT ![p].blocks = bs] IN
         queue' = written \/ queue' = [written EXCEPT ![f].freed = TRUE]
   BY <1>2, <1>7, <2>1, <2>2, <2>3 DEF Enqueue, FreeLocalQueue
 <2>5. p \in 1 .. Len(queue) => bs \in Seq(S) BY <1>1, <1>3, <1>7, <2>2 DEF Parked
 <2>6. Parked(S)' BY <1>1, <2>4, <2>5, ParkedWrite
 <2>7. QED BY <1>0, <1>4, <1>7, <2>6, SteadyKnown
<1>8. CASE DataLookup(r) \/ PutBack(r) \/ CheckValid(r) \/ Park(r) \/ Complete(r)
 <2>1. CalmHeap BY <1>8, DataStill DEF Still
 <2>2. Parked(S)' BY <1>1, <2>1, ParkedKept DEF CalmHeap
 <2>3. QED BY <1>0, <1>4, <1>8, <2>2, SteadyKnown
<1>9. CASE Copy(r) BY <1>9, CopyKnown
<1>10. CASE Count(r) BY <1>10, CountStocks
<1>11. QED BY <1>5, <1>6, <1>7, <1>8, <1>9, <1>10 DEF DataBlockStep

LEMMA FinishKnown ==
  ASSUME TypeOK, HoldInv, NEW S, Known(S), NEW r \in Readers, Close(r) \/ FinishedStep(r)
  PROVE  Known(S)'
<1>1. Tallied /\ NoneFilled /\ Aside(r) BY FinishQuiet
<1>2. AnnouncedAll
 <2>1. CASE Close(r) BY <2>1, NoneWritten DEF Close, heap
 <2>2. QED BY <2>1, FinishedAnnounced
<1>3. Reads /\ CalmHeap BY FinishStill DEF Still
<1>4. Parked(S)' BY <1>3, ParkedKept DEF CalmHeap, Known
<1>5. Carries(r)
 <2>1. pc'[r] \notin Carrying BY FinishQuiet DEF Carrying, Unplaced, Placed
 <2>2. QED BY <2>1 DEF Carries
<1>6. QED BY <1>1, <1>2, <1>3, <1>4, <1>5, StockKept, SteadyKnown

LEMMA ReadKnown ==
  ASSUME TypeOK, NEW S, Known(S), NEW r \in Readers, Read(r)
  PROVE  Known(S)'
<1>1. Tallied /\ NoneFilled /\ Aside(r) BY ReadQuiet
<1>2. AnnouncedAll BY NoneWritten DEF Read, heap
<1>3. conn[r] \in Seq(S) /\ conn[r] # <<>> BY DEF Known, Read
<1>4. Head(conn[r]) \in S /\ Tail(conn[r]) \in Seq(S) BY <1>3
<1>5. \A s \in Readers : conn'[s] \in Seq(S) BY <1>4 DEF Read, Known, TypeOK
<1>6. th'[r].block = Head(conn[r]) BY ThreadType DEF Read, Locals, TypeOK, LocalsType
<1>7. Parked(S)' BY DEF Read, heap, Known, Parked
<1>8. QED BY <1>1, <1>2, <1>4, <1>5, <1>6, <1>7, StockKept, KnownStep DEF Aside

LEMMA OnlyFaultKnown ==
  ASSUME NEW S, Known(S), UNCHANGED <<conn, info, queue, pc, th>>
  PROVE  Known(S)'
BY DEF Known, Parked, Objects

LEMMA NextKnown ==
  ASSUME TypeOK, OrderInv, HoldInv, InitsInv, DrainFinds, ~ub, NEW S, Known(S), [Next]_vars
  PROVE  Known(S)'
<1>1. CASE UNCHANGED vars BY <1>1, OnlyFaultKnown DEF vars
<1>2. CASE Stopped BY <1>1, <1>2 DEF Stopped
<1>3. ASSUME NEW r \in Readers, ReaderStep(r) PROVE Known(S)'
 <2>1. CASE Read(r) BY <2>1, ReadKnown
 <2>2. CASE BadAccess(r) BY <2>2, OnlyFaultKnown DEF BadAccess, heap
 <2>3. CASE DuplicateExit(r) BY <2>3, OnlyFaultKnown DEF DuplicateExit, heap
 <2>4. CASE InitBlockStep(r) BY <2>3, <2>4, InitKnown
 <2>5. CASE DataBlockStep(r) BY <2>5, DataKnown
 <2>6. CASE Close(r) \/ FinishedStep(r) BY <2>6, FinishKnown
 <2>7. QED BY <1>3, <2>1, <2>2, <2>4, <2>5, <2>6 DEF ReaderStep
<1>4. QED BY <1>1, <1>2, <1>3 DEF Next

(* A buffer that is completed is whole. *)

LEMMA WrittenWithin ==
  ASSUME TypeOK, NEW S \in SUBSET Blocks, Within(S), Known(S), NEW o \in Objects, info[o].valid
  PROVE  /\ info[o].written \subseteq 0 .. info[o].buffer_size - 1
         /\ info[o].buffer_size \in Nat
<1>1. /\ info[o].written \subseteq 0 .. MaxSize - 1 /\ info[o].buffer_size \in 0 .. MaxSize
  BY Sizes DEF InfoType, Objects
<1>2. Stocked(info[o], S) BY DEF Known
<1>3. PICK b \in S : b.kind = "init" /\ b.tag = info[o].tag /\ b.buffer_size = info[o].buffer_size
  BY <1>2 DEF Stocked
<1>4. ASSUME NEW w \in info[o].written PROVE w < info[o].buffer_size
 <2>1. DataBlock(info[o].tag, w) \in S BY <1>2 DEF Stocked
 <2>2. QED BY <1>3, <2>1 DEF Within, DataBlock
<1>5. QED BY <1>1, <1>4, StandardsAssumption

(* The numbers that lie below a bound are as many only when they are all. *)
LEMMA AllBelow ==
  ASSUME NEW n \in Nat, NEW W \in SUBSET (0 .. n - 1), Cardinality(W) = n
  PROVE  W = 0 .. n - 1
<1>1. IsFiniteSet(0 .. n - 1) /\ Cardinality(0 .. n - 1) = n
 <2>1. 0 \in Int /\ n - 1 \in Int OBVIOUS
 <2>2. /\ IsFiniteSet(0 .. n - 1)
       /\ Cardinality(0 .. n - 1) = IF 0 > n - 1 THEN 0 ELSE n - 1 - 0 + 1
   BY <2>1, FS_Interval
 <2>3. QED BY <2>2
<1>2. QED BY <1>1, FS_Subset

LEMMA SeqWithin ==
  ASSUME TypeOK, NEW S \in SUBSET Blocks, Within(S), Known(S), NEW o \in Objects, info[o].valid,
         NEW b \in S, b \in DataBlocks, b.tag = info[o].tag
  PROVE  b.seq_number \in 0 .. info[o].buffer_size - 1
<1>1. /\ b.seq_number \in 0 .. MaxSize - 1 /\ b.kind = "data"
      /\ info[o].buffer_size \in 0 .. MaxSize
  BY Sizes DEF InfoType, Objects, DataBlocks
<1>2. Stocked(info[o], S) BY DEF Known
<1>3. b.seq_number < info[o].buffer_size BY <1>1, <1>2 DEF Stocked, Within
<1>4. QED BY <1>1, <1>3, StandardsAssumption

(* Completed objects, and those about to be, have been filled. *)
LEMMA WholeFilled ==
  ASSUME TypeOK, OrderInv, ~ub
  PROVE  /\ \A o \in Objects : info[o].completed => info[o].valid
         /\ \A r \in Readers : pc[r] \in {"copy", "count", "complete"} => info[th[r].buffer].valid
BY OrderParts DEF OrderInv, TagsOK, DataOK

LEMMA WholeKept ==
  ASSUME TypeOK, Tallied, AnnouncedAll, NEW o \in Objects, info[o].valid, Whole(info[o])
  PROVE  Whole(info'[o])
<1>1. info'[o].written = info[o].written BY DEF Tallied, Tally
<1>2. info'[o].buffer_size = info[o].buffer_size BY DEF AnnouncedAll, Announced, Objects
<1>3. QED BY <1>1, <1>2 DEF Whole

LEMMA MoreObjects ==
  ASSUME TypeOK, Tallied
  PROVE  Objects \subseteq Objects'
BY Sizes DEF Tallied, Objects

(* A step of thread r that completes no buffer. *)
LEMMA QuietWhole ==
  ASSUME TypeOK, OrderInv, ~ub, WholeInv, NEW r \in Readers, Aside(r),
         Tallied, NoneCompleted, AnnouncedAll,
         pc'[r] \in Finishing => th'[r].done \in Objects /\ info[th'[r].done].completed
  PROVE  WholeInv'
<1>1. ASSUME NEW o \in Objects', info'[o].completed PROVE Whole(info'[o])
 <2>1. o \in Objects /\ info[o].completed BY <1>1 DEF NoneCompleted
 <2>2. QED BY <2>1, WholeFilled, WholeKept DEF WholeInv
<1>2. ASSUME NEW s \in Readers, pc'[s] = "complete" PROVE Nearly(s)'
 <2>1. pc[s] = "complete" /\ th'[s] = th[s] BY <1>2 DEF Aside, Others
 <2>2. Nearly(s) /\ info[th[s].buffer].valid BY <2>1, WholeFilled DEF WholeInv
 <2>3. QED BY <2>1, <2>2, WholeKept, MoreObjects DEF Nearly
<1>3. ASSUME NEW s \in Readers, pc'[s] \in Finishing PROVE Done(s)'
 <2>1. th'[s].done \in Objects /\ info[th'[s].done].completed BY <1>3 DEF Aside, Others, WholeInv, Done
 <2>2. QED BY <2>1, MoreObjects DEF NoneCompleted, Done
<1>4. QED BY <1>1, <1>2, <1>3 DEF WholeInv

(* A thread sticks to the buffer it finished. *)
LEMMA SameDone ==
  ASSUME TypeOK, NEW r \in Readers,
         \/ PrevLookup(r) \/ PrevInsert(r) \/ PrevPutBack(r) \/ PrevSent(r)
         \/ SetNext(r) \/ FreePrev(r) \/ CallHandler(r)
  PROVE  /\ pc[r] \in Finishing
         /\ pc'[r] \in Finishing => th'[r].done = th[r].done
<1>1. pc[r] \in Finishing
  BY DEF PrevLookup, PrevInsert, PrevPutBack, PrevSent, SetNext, FreePrev, CallHandler, At, Finishing
<1>3. /\ \A v : [th[r] EXCEPT !.prev = v].done = th[r].done
      /\ \A v, w : [th[r] EXCEPT !.prev = v, !.dummy = w].done = th[r].done
      /\ [th[r] EXCEPT !.dummy = Null].done = th[r].done
  BY ThreadType DEF LocalsType
<1>4. ASSUME NEW l, Locals(r, l), l.done = th[r].done PROVE th'[r].done = th[r].done
  BY <1>4 DEF Locals, TypeOK
<1>5. ASSUME PrevInsert(r) PROVE th'[r].done = th[r].done BY <1>3, <1>4, <1>5 DEF PrevInsert
<1>6. ASSUME PrevLookup(r) PROVE th'[r].done = th[r].done BY <1>3, <1>4, <1>6 DEF PrevLookup
<1>7. ASSUME PrevPutBack(r) PROVE th'[r].done = th[r].done BY <1>3, <1>4, <1>7 DEF PrevPutBack
<1>8. CASE SetNext(r)
 <2>1. pc'[r] \in {"drain_test", "read"} BY <1>8 DEF SetNext, Return, Goto, TypeOK
 <2>2. QED BY <1>1, <2>1 DEF Finishing
<1>9. ASSUME PrevSent(r) \/ FreePrev(r) \/ CallHandler(r) PROVE th'[r].done = th[r].done
  BY <1>9 DEF PrevSent, FreePrev, CallHandler
<1>10. QED BY <1>1, <1>5, <1>6, <1>7, <1>8, <1>9

(* A finished buffer on its way to the handler is the completed one, or the *)
(* next one, that is found to be completed.                                 *)
LEMMA FinishDone ==
  ASSUME TypeOK, NEW r \in Readers, pc[r] \in Finishing => Done(r), FinishedStep(r),
         pc'[r] \in Finishing
  PROVE  th'[r].done \in Objects /\ info[th'[r].done].completed
<1>1. CASE NextCompleted(r)
 <2>1. PICK l : l = [th[r] EXCEPT !.calls = Append(@, th[r].done), !.done = th[r].next, !.next = Null] OBVIOUS
 <2>2. l.done = th[r].next BY <2>1, ThreadType DEF LocalsType
 <2>3. pc'[r] # "zombie" BY DEF Finishing
 <2>4. info[th[r].next].completed /\ th'[r] = l BY <1>1, <2>1, <2>3 DEF NextCompleted, Goto, Locals, TypeOK
 <2>5. th[r].next \in Objects
  <3>1. pc[r] = "next_completed" /\ Safe(r) BY <1>1 DEF NextCompleted, At
  <3>2. th[r].next # Null BY <3>1 DEF Safe, InfoUsed
  <3>3. QED BY <3>2, ThreadType, Sizes DEF Objects, Null
 <2>6. QED BY <2>2, <2>4, <2>5
<1>2. CASE Zombie(r) \/ HandlerReturns(r) \/ NextLookup(r) \/ DoneRemove(r)
 <2>1. pc'[r] \in {"drain_test", "read", "remove", "next_lookup", "zombie", "next_completed"}
   BY <1>2 DEF Zombie, HandlerReturns, NextLookup, DoneRemove, Return, Goto, TypeOK
 <2>2. QED BY <2>1 DEF Finishing
<1>3. CASE \/ PrevLookup(r) \/ PrevInsert(r) \/ PrevPutBack(r) \/ PrevSent(r)
           \/ SetNext(r) \/ FreePrev(r) \/ CallHandler(r)
  BY <1>3, SameDone DEF Done
<1>4. QED BY <1>1, <1>2, <1>3 DEF FinishedStep

(* What the copy adds to a buffer was sent for it, and was not there yet:   *)
(* the buffer was not whole.                                                *)
LEMMA CopyWhole ==
  ASSUME TypeOK, OrderInv, ~ub, OnceInv, HoldInv, WholeInv,
         NEW S \in SUBSET Blocks, Within(S), Known(S), NEW r \in Readers, Copy(r)
  PROVE  WholeInv'
<1> USE Sizes
<1>o. PICK o : o = th[r].buffer OBVIOUS
<1>b. PICK b : b = th[r].block OBVIOUS
<1>1. /\ pc[r] = "copy" /\ o \in Objects /\ pc'[r] = "count" /\ Others(r)
  BY <1>o, BufferUsed DEF Copy, At, Goto, TypeOK, Others
<1>2. info[o].valid /\ info[o].tag = b.tag
  BY <1>1, <1>o, <1>b, WholeFilled DEF HoldInv, HandOK, Placed, HasTag
<1>3. b \in S /\ b \in DataBlocks BY <1>1, <1>b DEF Known, Carrying, Placed, TypeOK, DataSteps
<1>4. b.seq_number \in 0 .. info[o].buffer_size - 1 BY <1>1, <1>2, <1>3, SeqWithin
<1>5. b.seq_number \notin info[o].written BY <1>o, <1>b, CopyMove
<1>6. ~Whole(info[o]) BY <1>4, <1>5 DEF Whole
<1>7. PICK rec : rec = [info[o] EXCEPT !.written = @ \cup {b.seq_number}] OBVIOUS
<1>8. rec.completed = info[o].completed BY <1>1, <1>7 DEF Objects, InfoType
<1>9. info' = [info EXCEPT ![o] = rec] BY <1>o, <1>b, <1>7 DEF Copy
<1>10. Objects' = Objects /\ \A x \in Objects : info'[x] = IF x = o THEN rec ELSE info[x]
  BY <1>1, <1>9 DEF Objects, TypeOK
<1>11. ~info[o].completed BY <1>1, <1>6 DEF WholeInv
<1>12. \A x \in Objects' : info'[x].completed => Whole(info'[x]) BY <1>8, <1>10, <1>11 DEF WholeInv
<1>13. ASSUME NEW s \in Readers, pc'[s] = "complete" PROVE Nearly(s)'
 <2>1. pc[s] = "complete" /\ th'[s] = th[s] BY <1>1, <1>13 DEF Others
 <2>2. Nearly(s) BY <2>1 DEF WholeInv
 <2>3. th[s].buffer # o BY <1>6, <2>2 DEF Nearly
 <2>4. QED BY <1>10, <2>1, <2>2, <2>3 DEF Nearly
<1>14. ASSUME NEW s \in Readers, pc'[s] \in Finishing PROVE Done(s)'
 <2>1. pc[s] \in Finishing /\ th'[s] = th[s] BY <1>1, <1>14 DEF Others, Finishing
 <2>2. QED BY <1>8, <1>10, <2>1 DEF WholeInv, Done
<1>15. QED BY <1>12, <1>13, <1>14 DEF WholeInv

(* The thread that counts the last block has a buffer with all of them. *)
LEMMA CountWhole ==
  ASSUME TypeOK, OrderInv, ~ub, CountInv, CountInv', WholeInv,
         NEW S \in SUBSET Blocks, Within(S), Known(S), NEW r \in Readers, Count(r)
  PROVE  WholeInv'
<1> USE Sizes
<1>o. PICK o : o = th[r].buffer OBVIOUS
<1>1. pc[r] = "count" /\ o \in Objects BY <1>o, BufferUsed DEF Count, At
<1>2. \/ LastBlock(info[o]) /\ pc'[r] = "complete" /\ th'[r] = th[r] /\ Others(r)
      \/ pc'[r] \in {"drain_test", "read"} /\ Others(r)
 <2>1. (LastBlock(info[o]) /\ Goto(r, "complete") /\ th' = th) \/ Return(r) BY <1>o DEF Count
 <2>2. QED BY <2>1, Step DEF Return, Goto, TypeOK, Others
<1>3. info[o].valid BY <1>1, <1>o, WholeFilled
<1>4. PICK rec : rec = [info[o] EXCEPT !.n_written = @ + 1] OBVIOUS
<1>5. /\ rec.written = info[o].written /\ rec.buffer_size = info[o].buffer_size
      /\ rec.completed = info[o].completed /\ rec.n_written = info[o].n_written + 1
  BY <1>1, <1>4 DEF Objects, InfoType
<1>6. info' = [info EXCEPT ![o] = rec] BY <1>o, <1>4 DEF Count
<1>7. Objects' = Objects /\ \A x \in Objects : info'[x] = IF x = o THEN rec ELSE info[x]
  BY <1>1, <1>6 DEF Objects, TypeOK
<1>8. \A x \in Objects : /\ Whole(info'[x]) <=> Whole(info[x])
                         /\ info'[x].completed = info[x].completed
  BY <1>5, <1>7 DEF Whole
<1>9. ASSUME LastBlock(info[o]) PROVE Whole(info[o])
 <2>1. /\ info[o].written \subseteq 0 .. info[o].buffer_size - 1 /\ info[o].buffer_size \in Nat
   BY <1>1, <1>3, WrittenWithin
 <2>2. Counted(o)' \subseteq info[o].written BY <1>1, <1>5, <1>7 DEF Counted
 <2>3. Cardinality(Counted(o)') = info[o].buffer_size
  <3>1. info'[o].n_written = Cardinality(Counted(o)') BY <1>1, <1>7 DEF CountInv
  <3>2. info'[o].n_written = info[o].n_written + 1 BY <1>1, <1>5, <1>7
  <3>3. QED BY <1>9, <3>1, <3>2 DEF LastBlock
 <2>4. Counted(o)' = 0 .. info[o].buffer_size - 1 BY <2>1, <2>2, <2>3, AllBelow
 <2>5. QED BY <2>1, <2>2, <2>4 DEF Whole
<1>10. ASSUME NEW s \in Readers, pc'[s] = "complete" PROVE Nearly(s)'
 <2>1. CASE s = r BY <1>o, <1>1, <1>2, <1>7, <1>8, <1>9, <1>10, <2>1 DEF Nearly
 <2>2. CASE s # r BY <1>2, <1>7, <1>8, <1>10, <2>2 DEF Others, WholeInv, Nearly
 <2>3. QED BY <2>1, <2>2
<1>11. ASSUME NEW s \in Readers, pc'[s] \in Finishing PROVE Done(s)'
 <2>1. pc[s] \in Finishing /\ th'[s] = th[s] BY <1>2, <1>11 DEF Others, Finishing
 <2>2. QED BY <1>7, <1>8, <2>1 DEF WholeInv, Done
<1>12. QED BY <1>7, <1>8, <1>10, <1>11 DEF WholeInv

(* The buffer that is completed is the one the thread goes on with: the     *)
(* lookup found it, or an uninitialised buffer_kv is used now.              *)
LEMMA CompleteWhole ==
  ASSUME TypeOK, OrderInv, ~ub, ~ub', WholeInv, NEW r \in Readers, Complete(r)
  PROVE  WholeInv'
<1>o. PICK o : o = th[r].buffer OBVIOUS
<1>1. /\ Tallied /\ NoneFilled /\ Aside(r) /\ pc'[r] = "prev_lookup"
      /\ o \in Objects /\ Objects' = Objects /\ info'[o].completed
      /\ \A x \in Objects : x # o => info'[x] = info[x]
  BY <1>o, CompleteQuiet
<1>2. AnnouncedAll BY DataAnnounced DEF DataBlockStep
<1>3. pc[r] = "complete" /\ Whole(info[o]) /\ info[o].valid
  BY <1>o, WholeFilled DEF Complete, At, WholeInv, Nearly
<1>4. \A x \in Objects : Whole(info[x]) /\ info[x].valid => Whole(info'[x]) BY <1>1, <1>2, WholeKept
<1>5. \A x \in Objects' : info'[x].completed => Whole(info'[x]) BY <1>1, <1>3, <1>4 DEF WholeInv
<1>6. th[r].found BY DEF Complete, TypeOK
<1>7. th[r].kv[Frame(r)] = o BY <1>o, <1>6, OrderParts DEF ThreadOK, DataOK
<1>8. th'[r].done = o
 <2>1. Locals(r, [th[r] EXCEPT !.done = o]) BY <1>6, <1>7 DEF Complete
 <2>2. [th[r] EXCEPT !.done = o].done = o BY ThreadType DEF LocalsType
 <2>3. QED BY <2>1, <2>2 DEF Locals, TypeOK
<1>9. ASSUME NEW s \in Readers, pc'[s] = "complete" PROVE Nearly(s)'
 <2>1. pc[s] = "complete" /\ th'[s] = th[s] BY <1>1, <1>9 DEF Aside, Others
 <2>2. Nearly(s) /\ info[th[s].buffer].valid BY <2>1, WholeFilled DEF WholeInv
 <2>3. QED BY <1>1, <1>4, <2>1, <2>2 DEF Nearly
<1>10. ASSUME NEW s \in Readers, pc'[s] \in Finishing PROVE Done(s)'
 <2>1. CASE s = r BY <1>1, <1>8, <2>1 DEF Done
 <2>2. CASE s # r
  <3>1. Done(s) /\ th'[s] = th[s] BY <1>1, <1>10, <2>2 DEF Aside, Others, WholeInv
  <3>2. QED BY <1>1, <3>1 DEF Done
 <2>3. QED BY <2>1, <2>2
<1>11. QED BY <1>5, <1>9, <1>10 DEF WholeInv

LEMMA NextWhole ==
  ASSUME TypeOK, OrderInv, ~ub, ~ub', OnceInv, HoldInv, CountInv, WholeInv, InitsInv,
         NEW S \in SUBSET Blocks, Within(S), Known(S), [Next]_vars
  PROVE  WholeInv'
<1>0. ASSUME UNCHANGED <<info, pc, th>> PROVE WholeInv' BY <1>0 DEF WholeInv, Nearly, Done, Objects
<1>1. CASE UNCHANGED vars BY <1>0, <1>1 DEF vars
<1>2. CASE Stopped BY <1>1, <1>2 DEF Stopped
<1>3. ASSUME NEW r \in Readers, ReaderStep(r) PROVE WholeInv'
 <2>1. CASE Read(r)
  <3>1. AnnouncedAll BY <2>1, NoneWritten DEF Read, heap
  <3>2. pc'[r] \notin Finishing BY <2>1, ReadQuiet DEF Finishing
  <3>3. QED BY <2>1, <3>1, <3>2, ReadQuiet, QuietWhole
 <2>2. CASE BadAccess(r) BY <1>0, <2>2 DEF BadAccess, heap
 <2>3. CASE DuplicateExit(r) BY <1>0, <2>3 DEF DuplicateExit, heap
 <2>4. CASE InitFill(r) \/ InitInsert(r)
  <3>1. AnnouncedAll BY <2>4, InitAnnounced DEF InitBlockStep
  <3>2. pc'[r] \notin Finishing BY <2>4, FillQuiet, InsertQuiet DEF Finishing
  <3>3. QED BY <2>4, <3>1, <3>2, FillQuiet, InsertQuiet, QuietWhole
 <2>5. CASE \/ InitLookup(r) \/ InitNotValid(r) \/ InitAdopt(r) \/ DrainNothing(r)
            \/ DrainLoop(r) \/ DrainMore(r) \/ DrainEmpty(r) \/ DrainBlock(r)
            \/ DrainStale(r) \/ DrainFree(r) \/ DrainClear(r) \/ FreeRepeat(r)
  <3>1. AnnouncedAll BY <2>5, InitAnnounced DEF InitBlockStep
  <3>2. pc'[r] \notin Finishing BY <2>5, InitQuiet DEF Finishing, Draining
  <3>3. QED BY <2>5, <3>1, <3>2, InitQuiet, QuietWhole
 <2>6. CASE Copy(r) BY <2>6, CopyWhole
 <2>7. CASE Count(r) BY <2>7, CountCounts, CountWhole
 <2>8. CASE Complete(r) BY <2>8, CompleteWhole
 <2>9. CASE \/ DataLookup(r) \/ DataInsert(r) \/ PutBack(r) \/ CheckValid(r)
            \/ Park(r) \/ Attach(r) \/ Enqueue(r)
  <3>1. AnnouncedAll BY <2>9, DataAnnounced DEF DataBlockStep
  <3>2. pc'[r] \notin Finishing BY <2>9, DataQuiet DEF Finishing
  <3>3. QED BY <2>9, <3>1, <3>2, DataQuiet, QuietWhole
 <2>10. CASE Close(r)
  <3>1. AnnouncedAll BY <2>10, NoneWritten DEF Close, heap
  <3>2. pc'[r] \notin Finishing BY <2>10 DEF Close, Goto, TypeOK, Finishing
  <3>3. QED BY <2>10, <3>1, <3>2, FinishQuiet, QuietWhole
 <2>11. CASE FinishedStep(r)
  <3>1. pc[r] \in Finishing => Done(r) BY DEF WholeInv
  <3>2. QED BY <2>11, <3>1, FinishedAnnounced, FinishQuiet, FinishDone, QuietWhole
 <2>12. QED BY <1>3, <2>1, <2>2, <2>3, <2>4, <2>5, <2>6, <2>7, <2>8, <2>9, <2>10, <2>11
      DEF ReaderStep, InitBlockStep, DataBlockStep
<1>4. QED BY <1>1, <1>2, <1>3 DEF Next

(* The invariant, and what it takes of the streams. *)

LEMMA InitKnownWithin ==
  ASSUME Init, SentOnce(conn)
  PROVE  Origin
<1>1. conn \in [Readers -> Seq(Blocks)] BY ReaderAssumption DEF Init
<1>2. PICK S : S = Sent(conn) OBVIOUS
<1>3. \A b \in S : \E r \in Readers : \E i \in 1 .. Len(conn[r]) : b = conn[r][i] BY <1>2 DEF Sent
<1>4. S \in SUBSET Blocks BY <1>1, <1>3
<1>5. Within(S) BY <1>3 DEF Within, SentOnce
<1>6. ASSUME NEW r \in Readers PROVE conn[r] \in Seq(S)
 <2>1. \A i \in 1 .. Len(conn[r]) : conn[r][i] \in S BY <1>2 DEF Sent
 <2>2. conn[r] \in Seq(Blocks) BY <1>1
 <2>3. QED BY <2>1, <2>2
<1>7. Known(S) BY <1>6 DEF Known, Parked, Objects, Init, Carrying, Unplaced, Placed
<1>8. QED BY <1>4, <1>5, <1>7 DEF Origin

LEMMA InitBlocksInv ==
  ASSUME Init, SentOnce(conn)
  PROVE  BlocksInv
<1>1. TypeOK BY InitTypeOK
<1>2. /\ Objects = {} /\ info = <<>> /\ queue = <<>>
      /\ \A r \in Readers : /\ pc[r] = "read" /\ th[r].waiting_queue = Null
                            /\ th[r].new_buf = Null /\ th[r].repeat = Null
  BY DEF Init, Objects
<1>3. \A r \in Readers : pc[r] \notin Unplaced \cup Placed \cup Holding \cup Finishing \cup {"count", "complete"}
  BY <1>2 DEF Unplaced, Placed, Holding, Finishing
<1>4. ASSUME NEW k, NEW e PROVE Places(k, e) /\ Paired(k, e)
 <2>1. AtMostOne(OnWire(k))
  <3> SUFFICES ASSUME NEW x \in OnWire(k), NEW y \in OnWire(k) PROVE x = y BY DEF AtMostOne
  <3>1. PICK r \in Readers, i \in Nat : x = <<r, i>> /\ Waits(r, i, k) BY DEF OnWire
  <3>2. PICK q \in Readers, j \in Nat : y = <<q, j>> /\ Waits(q, j, k) BY DEF OnWire
  <3>3. Len(conn[r]) \in Nat /\ Len(conn[q]) \in Nat BY <1>1 DEF TypeOK
  <3>4. /\ Len(conn[r]) - i \in 1 .. Len(conn[r]) /\ BlockName(conn[r][Len(conn[r]) - i]) = k
        /\ Len(conn[q]) - j \in 1 .. Len(conn[q]) /\ BlockName(conn[q][Len(conn[q]) - j]) = k
    BY <3>1, <3>2, <3>3 DEF Waits
  <3>5. r = q /\ Len(conn[r]) - i = Len(conn[q]) - j
   <4>1. PICK u : u = Len(conn[r]) - i OBVIOUS
   <4>2. PICK v : v = Len(conn[q]) - j OBVIOUS
   <4>3. /\ u \in 1 .. Len(conn[r]) /\ v \in 1 .. Len(conn[q])
         /\ BlockName(conn[r][u]) = BlockName(conn[q][v])
     BY <3>4, <4>1, <4>2
   <4>4. r = q /\ u = v BY <4>3 DEF SentOnce
   <4>5. QED BY <4>1, <4>2, <4>4
  <3>6. QED BY <3>1, <3>2, <3>3, <3>5
 <2>2. InHands(k, e) = {} BY <1>3 DEF InHands, Coming, Bound
 <2>3. InQueues(k, e) = {} BY <1>2 DEF InQueues, Lies
 <2>4. InBuffers(k) = {} BY <1>2 DEF InBuffers
 <2>5. Places(k, e) BY <2>1, <2>2, <2>3, <2>4 DEF Places, Sole, AtMostOne
 <2>6. Paired(k, e) BY <1>2 DEF Paired
 <2>7. QED BY <2>5, <2>6
<1>5. OnceInv BY <1>4 DEF OnceInv
<1>6. HoldInv BY <1>2, <1>3 DEF HoldInv, HandOK
<1>7. CountInv BY <1>2 DEF CountInv
<1>8. WholeInv BY <1>2, <1>3 DEF WholeInv
<1>9. QED BY <1>5, <1>6, <1>7, <1>8, InitKnownWithin DEF BlocksInv

LEMMA NextBlocksInv ==
  ASSUME TypeOK, OrderInv, BlocksInv, InitsInv, DrainFinds, ~ub, ~ub', [Next]_vars
  PROVE  BlocksInv'
<1>1. OnceInv /\ HoldInv /\ CountInv /\ WholeInv /\ Origin BY DEF BlocksInv
<1>2. PICK S \in SUBSET Blocks : Within(S) /\ Known(S) BY <1>1 DEF Origin
<1>3. OnceInv' /\ HoldInv' BY <1>1, NextKeeps
<1>4. CountInv' BY <1>1, NextCounts
<1>5. WholeInv' BY <1>1, <1>2, NextWhole
<1>6. Known(S)' BY <1>1, <1>2, NextKnown
<1>7. Origin' BY <1>2, <1>6 DEF Origin, Within
<1>8. QED BY <1>3, <1>4, <1>5, <1>7 DEF BlocksInv

(* Who may pass a buffer.  The thread that completes it hands the right to  *)
(* do so over by setting the next_tag of the buffer before it; the thread   *)
(* that passes that one then reads the next_tag, and looks the buffer up.   *)

LEMMA TalliedTags ==
  ASSUME Tallied
  PROVE  Tagged
BY DEF Tallied, Tally, Tagged

LEMMA ObjectKept ==
  ASSUME TypeOK, Tagged
  PROVE  \A o \in Objects : o \in Objects' /\ info'[o].tag = info[o].tag
BY Sizes DEF Tagged, Objects

LEMMA ValidKept ==
  ASSUME TypeOK, Tagged, NoneFilled
  PROVE  \A o \in Valid' : o \in Valid /\ info'[o].tag = info[o].tag
BY DEF Tagged, NoneFilled, Valid

(* The copy and the count leave the tags and the flags of the buffer alone. *)
LEMMA WriteQuiet ==
  ASSUME TypeOK, NEW r \in Readers, Copy(r) \/ Count(r)
  PROVE  /\ Tagged /\ NoneFilled /\ NoneCompleted /\ Others(r) /\ Objects' = Objects
         /\ \A o \in Objects : /\ info'[o].next_tag = info[o].next_tag
                               /\ info'[o].n_written >= info[o].n_written
<1> USE Sizes
<1>o. PICK o : o = th[r].buffer OBVIOUS
<1>1. o \in Objects /\ Others(r)
 <2>1. pc[r] \in {"copy", "count"} /\ o \in Objects BY <1>o, BufferUsed DEF Copy, Count, At
 <2>2. ASSUME NEW s, Goto(r, s), th' = th PROVE Others(r) BY <2>2 DEF Goto, TypeOK, Others
 <2>3. ASSUME Return(r) PROVE Others(r) BY <2>3, Step DEF Return
 <2>4. QED BY <2>1, <2>2, <2>3 DEF Copy, Count
<1>2. PICK rec : /\ info' = [info EXCEPT ![o] = rec]
                 /\ \/ \E w : rec = [info[o] EXCEPT !.written = w]
                    \/ rec = [info[o] EXCEPT !.n_written = info[o].n_written + 1]
  BY <1>o DEF Copy, Count
<1>3. info[o] \in InfoType(Len(queue)) BY <1>1 DEF Objects
<1>4. /\ rec.tag = info[o].tag /\ rec.valid = info[o].valid /\ rec.completed = info[o].completed
      /\ rec.next_tag = info[o].next_tag /\ rec.n_written >= info[o].n_written
  BY <1>2, <1>3 DEF InfoType
<1>5. /\ Objects' = Objects /\ Len(info') = Len(info)
      /\ \A x \in Objects : info'[x] = IF x = o THEN rec ELSE info[x]
  BY <1>1, <1>2 DEF Objects, TypeOK
<1>6. \A x \in Objects : info[x].n_written \in Nat BY DEF Objects, InfoType
<1>7. QED BY <1>1, <1>4, <1>5, <1>6 DEF Tagged, NoneFilled, NoneCompleted

(* A step of a thread r that goes on with no init block, or with its own. *)
LEMMA QuietInits ==
  ASSUME TypeOK, InitsInv, NEW r \in Readers, Others(r), Reads, Tagged, NoneFilled,
         pc'[r] \in Opening => pc[r] \in InitSteps /\ pc'[r] \in InitSteps /\ th'[r].block = th[r].block
  PROVE  InitsInv'
<1>1. \A s \in Readers : \A i \in Nat : Ahead(s, i)' => Ahead(s, i) /\ conn'[s] = conn[s] BY DEF Ahead, Reads
<1>2. \A s \in Readers : /\ pc'[s] \in InitSteps => pc[s] \in InitSteps /\ th'[s].block = th[s].block
                         /\ pc'[s] = "init_adopt" => pc[s] = "init_adopt" /\ th'[s] = th[s]
                         /\ pc'[s] \in Opening => pc[s] \in Opening
  BY DEF Others, Opening, InitSteps
<1>3. \A s \in Readers : Opens(s)' => Opens(s) BY <1>1, <1>2 DEF Opens
<1>4. \A o \in Valid' : o \in Valid /\ info'[o].tag = info[o].tag BY ValidKept
<1>5. \A s, q \in Readers : Opens(s)' /\ Opens(q)' => s = q BY <1>3 DEF InitsInv
<1>6. \A s \in Readers : \A i, j \in Nat :
        (Ahead(s, i) /\ Ahead(s, j))' /\ i < j => conn'[s][i].tag < conn'[s][j].tag
  BY <1>1 DEF InitsInv
<1>7. ASSUME NEW s \in Readers, NEW i \in Nat, Ahead(s, i)'
      PROVE  /\ pc'[s] \in InitSteps => th'[s].block.tag < conn'[s][i].tag
             /\ \A o \in Valid' : info'[o].tag < conn'[s][i].tag
  BY <1>1, <1>2, <1>4, <1>7 DEF InitsInv
<1>8. ASSUME NEW s \in Readers, NEW o \in Valid'
      PROVE  /\ pc'[s] \in InitSteps => info'[o].tag < th'[s].block.tag
             /\ pc'[s] = "init_adopt" => info'[o].tag <= info'[th'[s].new_buf].tag
 <2>1. o \in Valid /\ info'[o].tag = info[o].tag BY <1>4
 <2>2. pc'[s] \in InitSteps => info'[o].tag < th'[s].block.tag BY <1>2, <2>1 DEF InitsInv
 <2>3. ASSUME pc'[s] = "init_adopt" PROVE info'[o].tag <= info'[th'[s].new_buf].tag
  <3>1. pc[s] = "init_adopt" /\ th'[s] = th[s] BY <1>2, <2>3
  <3>2. th[s].new_buf \in Objects /\ info[o].tag <= info[th[s].new_buf].tag BY <2>1, <3>1 DEF InitsInv
  <3>3. QED BY <2>1, <3>1, <3>2 DEF Tagged
 <2>4. QED BY <2>2, <2>3
<1>9. \A o, p \in Valid' : info'[o].tag = info'[p].tag => o = p BY <1>4 DEF InitsInv
<1>10. \A s \in Readers : pc'[s] = "init_adopt" => th'[s].new_buf \in Objects'
  BY <1>2, ObjectKept DEF InitsInv
<1>11. QED BY <1>5, <1>6, <1>7, <1>8, <1>9, <1>10 DEF InitsInv

(* The next block of the connection is taken from it. *)
LEMMA ReadAhead ==
  ASSUME TypeOK, NEW r \in Readers, Read(r)
  PROVE  /\ pc'[r] = "init_lookup" => Ahead(r, 1) /\ th'[r].block = conn[r][1]
         /\ \A i \in Nat : Ahead(r, i)' => Ahead(r, i + 1) /\ conn'[r][i] = conn[r][i + 1]
         /\ \A s \in Readers \ {r} : \A i \in Nat :
              Ahead(s, i)' => Ahead(s, i) /\ conn'[s][i] = conn[s][i]
         /\ \A s \in Readers : Opens(s)' => Opens(s)
<1>1. Others(r) /\ pc'[r] \in {"init_lookup", "data_lookup"} BY ReadQuiet DEF Aside
<1>2. PICK c : c = conn[r] OBVIOUS
<1>3. c \in Seq(Blocks) /\ c # <<>> /\ Len(c) \in Nat BY <1>2 DEF Read, TypeOK
<1>4. conn'[r] = Tail(c) /\ \A s \in Readers \ {r} : conn'[s] = conn[s] BY <1>2 DEF Read, TypeOK
<1>5. th'[r].block = Head(c) BY <1>2, ThreadType DEF Read, Locals, TypeOK, LocalsType
<1>6. pc'[r] = "init_lookup" => Ahead(r, 1) /\ th'[r].block = conn[r][1]
  BY <1>2, <1>3, <1>5 DEF Ahead, Read, Goto, TypeOK
<1>7. \A i \in Nat : Ahead(r, i)' => Ahead(r, i + 1) /\ conn'[r][i] = conn[r][i + 1]
  BY <1>2, <1>3, <1>4 DEF Ahead
<1>8. \A s \in Readers \ {r} : \A i \in Nat : Ahead(s, i)' => Ahead(s, i) /\ conn'[s][i] = conn[s][i]
  BY <1>4 DEF Ahead
<1>9. QED BY <1>1, <1>6, <1>7, <1>8 DEF Opens, Others, Opening

LEMMA ReadInits ==
  ASSUME TypeOK, InitsInv, NEW r \in Readers, Read(r)
  PROVE  InitsInv'
<1>1. /\ Others(r) /\ Tallied /\ NoneFilled /\ info' = info
      /\ pc'[r] \in {"init_lookup", "data_lookup"}
  BY ReadQuiet DEF Aside, Read, heap
<1>11. Valid' = Valid BY <1>1 DEF Valid, Objects
<1>12. \A s \in Readers \ {r} : pc'[s] = pc[s] /\ th'[s] = th[s] BY <1>1 DEF Others
<1>13. pc'[r] \in InitSteps => pc'[r] = "init_lookup" BY <1>1 DEF InitSteps
<1>14. \A s \in Readers : \A i, j \in Nat :
        (Ahead(s, i) /\ Ahead(s, j))' /\ i < j => conn'[s][i].tag < conn'[s][j].tag
 <2> SUFFICES ASSUME NEW s \in Readers, NEW i \in Nat, NEW j \in Nat,
                     (Ahead(s, i) /\ Ahead(s, j))', i < j
              PROVE  conn'[s][i].tag < conn'[s][j].tag
   OBVIOUS
 <2>1. CASE s = r
  <3>1. Ahead(r, i + 1) /\ Ahead(r, j + 1) /\ i + 1 < j + 1 BY ReadAhead, <2>1
  <3>2. conn[r][i + 1].tag < conn[r][j + 1].tag BY <3>1 DEF InitsInv
  <3>3. QED BY ReadAhead, <2>1, <3>2
 <2>2. CASE s # r BY ReadAhead, <2>2 DEF InitsInv
 <2>3. QED BY <2>1, <2>2
<1>15. ASSUME NEW s \in Readers, NEW i \in Nat, Ahead(s, i)'
       PROVE  /\ pc'[s] \in InitSteps => th'[s].block.tag < conn'[s][i].tag
              /\ \A o \in Valid' : info'[o].tag < conn'[s][i].tag
 <2>1. CASE s = r
  <3>1. Ahead(r, i + 1) /\ conn'[r][i] = conn[r][i + 1] BY ReadAhead, <1>15, <2>1
  <3>3. 1 < i + 1 BY <1>15, <2>1 DEF Ahead
  <3>4. pc'[r] \in InitSteps => th'[r].block.tag < conn[r][i + 1].tag
    BY ReadAhead, <1>13, <3>1, <3>3 DEF InitsInv
  <3>5. \A o \in Valid : info[o].tag < conn[r][i + 1].tag BY <3>1 DEF InitsInv
  <3>6. QED BY <1>1, <1>11, <2>1, <3>1, <3>4, <3>5
 <2>2. CASE s # r BY <1>1, ReadAhead, <1>11, <1>12, <1>15, <2>2 DEF InitsInv
 <2>3. QED BY <2>1, <2>2
<1>16. ASSUME NEW s \in Readers, NEW o \in Valid'
       PROVE  /\ pc'[s] \in InitSteps => info'[o].tag < th'[s].block.tag
              /\ pc'[s] = "init_adopt" => info'[o].tag <= info'[th'[s].new_buf].tag
 <2>1. CASE s = r
  <3>1. pc'[r] \in InitSteps => info[o].tag < conn[r][1].tag BY ReadAhead, <1>11, <1>13 DEF InitsInv
  <3>2. QED BY <1>1, ReadAhead, <1>13, <2>1, <3>1
 <2>2. CASE s # r BY <1>1, <1>11, <1>12, <2>2 DEF InitsInv
 <2>3. QED BY <2>1, <2>2
<1>17. \A s \in Readers : pc'[s] = "init_adopt" => th'[s].new_buf \in Objects'
  BY <1>1, <1>12, MoreObjects DEF InitsInv
<1>18. QED BY <1>1, ReadAhead, <1>11, <1>14, <1>15, <1>16, <1>17 DEF InitsInv

(* The init block in hand fills x: its tag is above those of all filled, and *)
(* below those of the init blocks to come, which only this thread reads.    *)
LEMMA FilledInits ==
  ASSUME TypeOK, InitsInv, NEW r \in Readers, Others(r), Reads, Tagged,
         pc[r] \in InitSteps, pc'[r] \notin InitSteps,
         NEW x \in Objects', Valid' \subseteq Valid \cup {x}, info'[x].tag = th[r].block.tag,
         pc'[r] = "init_adopt" => th'[r].new_buf = x
  PROVE  InitsInv'
<1>t. PICK t : t = th[r].block.tag OBVIOUS
<1>0. t \in Int BY <1>t, BlockType DEF Tags
<1>1. \A s \in Readers : \A i \in Nat : Ahead(s, i)' => Ahead(s, i) /\ conn'[s] = conn[s] BY DEF Ahead, Reads
<1>2. \A s \in Readers : s # r => pc'[s] = pc[s] /\ th'[s] = th[s] BY DEF Others
<1>3. Opens(r) /\ \A s \in Readers : Opens(s) => s = r BY DEF Opens, Opening, InitSteps, InitsInv
<1>4. \A s \in Readers : Opens(s)' => s = r
 <2>1. \A s \in Readers : s # r /\ Opens(s)' => Opens(s) BY <1>1, <1>2 DEF Opens
 <2>2. QED BY <1>3, <2>1
<1>5. \A s \in Readers : /\ pc'[s] \notin InitSteps
                         /\ pc'[s] = "init_adopt" => s = r /\ th'[s].new_buf = x
                         /\ \A i \in Nat : Ahead(s, i)' => s = r
  BY <1>4 DEF Opens, Opening, InitSteps
<1>6. \A o \in Valid : o \in Objects' /\ info'[o].tag = info[o].tag /\ info[o].tag < t
  BY <1>t, ObjectKept DEF Valid, InitsInv
<1>7. \A o \in Valid' : o = x \/ (o \in Valid /\ info'[o].tag < t) BY <1>6
<1>8. info'[x].tag = t BY <1>t
<1>9. \A i \in Nat : Ahead(r, i)' => t < conn'[r][i].tag BY <1>1, <1>t DEF InitsInv
<1>10. \A s \in Readers : \A i, j \in Nat :
         (Ahead(s, i) /\ Ahead(s, j))' /\ i < j => conn'[s][i].tag < conn'[s][j].tag
  BY <1>1 DEF InitsInv
<1>11. ASSUME NEW s \in Readers, NEW i \in Nat, Ahead(s, i)', NEW o \in Valid'
       PROVE  info'[o].tag < conn'[s][i].tag
 <2>1. s = r /\ Ahead(r, i) /\ conn'[r] = conn[r] BY <1>1, <1>5, <1>11
 <2>2. CASE o = x BY <1>8, <1>9, <1>11, <2>1, <2>2
 <2>3. CASE o \in Valid BY <1>6, <2>1, <2>3 DEF InitsInv
 <2>4. QED BY <1>7, <2>2, <2>3
<1>12. ASSUME NEW o \in Valid', NEW p \in Valid', info'[o].tag = info'[p].tag
       PROVE  o = p
 <2>1. CASE o \in Valid /\ p \in Valid BY <1>6, <1>12, <2>1 DEF InitsInv
 <2>2. \A y \in Valid : info'[y].tag # t
  <3>1. \A y \in Valid : info[y].tag \in Int BY Sizes DEF Valid, Objects, InfoType, Keys, Tags, NO_TAG
  <3>2. QED BY <1>0, <1>6, <3>1
 <2>3. QED BY <1>7, <1>8, <1>12, <2>1, <2>2
<1>13. \A s \in Readers : \A o \in Valid' :
         pc'[s] = "init_adopt" => info'[o].tag <= info'[th'[s].new_buf].tag
 <2>1. \A o \in Valid' : info'[o].tag <= t
  <3>1. \A y \in Valid : info[y].tag \in Int BY Sizes DEF Valid, Objects, InfoType, Keys, Tags, NO_TAG
  <3>2. \A y \in Valid : info'[y].tag <= t BY <1>0, <1>6, <3>1
  <3>3. info'[x].tag <= t BY <1>0, <1>8
  <3>4. QED BY <1>7, <3>2, <3>3
 <2>2. QED BY <1>5, <1>8, <2>1
<1>14. \A s \in Readers : pc'[s] = "init_adopt" => th'[s].new_buf \in Objects' BY <1>5
<1>15. QED BY <1>4, <1>5, <1>10, <1>11, <1>12, <1>13, <1>14 DEF InitsInv

LEMMA OnlyFaultInits ==
  ASSUME InitsInv, UNCHANGED <<conn, info, pc, th>>
  PROVE  InitsInv'
BY DEF InitsInv, Ahead, Opens, Valid, Objects

LEMMA InitInits ==
  ASSUME TypeOK, OrderInv, ~ub, InitsInv, NEW r \in Readers, InitBlockStep(r)
  PROVE  InitsInv'
<1>1. CASE DuplicateExit(r) BY <1>1, OnlyFaultInits DEF DuplicateExit, heap
<1>2. CASE InitLookup(r)
 <2>1. Tallied /\ NoneFilled /\ Others(r) BY <1>2, InitQuiet DEF Aside
 <2>2. Reads /\ pc[r] = "init_lookup" BY <1>2, StillReads DEF InitLookup, At
 <2>3. pc'[r] \in {"init_insert", "init_valid"} BY <1>2 DEF InitLookup, Goto, TypeOK
 <2>4. th'[r].block = th[r].block
  <3>1. th'[r] = [th[r] EXCEPT !.new_buf = table[th[r].block.tag]] BY <1>2, Step DEF InitLookup
  <3>2. QED BY <3>1, ThreadType DEF LocalsType
 <2>5. QED BY <2>1, <2>2, <2>3, <2>4, TalliedTags, QuietInits DEF InitSteps
<1>3. CASE InitFill(r)
 <2>1. Tallied /\ Others(r) /\ pc'[r] = "drain" /\ th[r].new_buf \in Objects BY <1>3, FillQuiet DEF Aside
 <2>2. Reads /\ pc[r] = "init_fill" BY <1>3, StillReads DEF InitFill, At
 <2>3. PICK x : x = th[r].new_buf OBVIOUS
 <2>4. \A o \in Objects : o # x => info'[o] = info[o] BY <1>3, <2>3 DEF InitFill, TypeOK, Objects
 <2>5. Objects' = Objects BY <1>3, <2>1, Sizes DEF InitFill, Objects, TypeOK
 <2>6. Valid' \subseteq Valid \cup {x} BY <2>4, <2>5 DEF Valid
 <2>7. info'[x].tag = th[r].block.tag
   BY <2>1, <2>2, <2>3, OrderParts DEF ThreadOK, InitOK, HasTag, Tallied, Tally
 <2>8. QED BY <2>1, <2>2, <2>3, <2>5, <2>6, <2>7, TalliedTags, FilledInits DEF InitSteps
<1>4. CASE InitInsert(r)
 <2>1. Tallied /\ Others(r) /\ pc'[r] \in {"init_adopt", "drain_test", "read"} BY <1>4, InsertQuiet DEF Aside
 <2>2. Reads /\ pc[r] = "init_insert" BY <1>4, StillReads DEF InitInsert, At
 <2>3. PICK x : x = Len(info) + 1 OBVIOUS
 <2>4. PICK rec : rec = Filled([Calloc EXCEPT !.next_tag = NO_TAG], th[r].block) OBVIOUS
 <2>5. rec.tag = th[r].block.tag BY <2>4 DEF Filled, Calloc
 <2>6. info' = Append(info, rec) BY <1>4, <2>4 DEF InitInsert
 <2>7. /\ Objects' = Objects \cup {x} /\ info'[x] = rec
       /\ \A o \in Objects : info'[o] = info[o]
   BY <2>3, <2>6, Sizes DEF Objects, TypeOK
 <2>8. Valid' \subseteq Valid \cup {x} BY <2>7 DEF Valid
 <2>9. pc'[r] = "init_adopt" => th'[r].new_buf = x
  <3>1. ASSUME pc'[r] = "init_adopt" PROVE ~Return(r) BY <3>1 DEF Return, Goto, TypeOK
  <3>2. [th[r] EXCEPT !.new_buf = x, !.repeat = table[th[r].block.tag]].new_buf = x
    BY ThreadType DEF LocalsType
  <3>3. QED BY <1>4, <2>3, <3>1, <3>2 DEF InitInsert, Locals, TypeOK
 <2>10. QED BY <2>1, <2>2, <2>5, <2>7, <2>8, <2>9, TalliedTags, FilledInits DEF InitSteps
<1>5. CASE InitNotValid(r)
 <2>1. Tallied /\ NoneFilled /\ Others(r) BY <1>5, InitQuiet DEF Aside
 <2>2. Reads /\ pc[r] = "init_valid" /\ pc'[r] = "init_fill" /\ th' = th
   BY <1>5, StillReads DEF InitNotValid, At, Goto, TypeOK
 <2>3. QED BY <2>1, <2>2, TalliedTags, QuietInits DEF InitSteps
<1>6. CASE \/ InitAdopt(r) \/ DrainNothing(r) \/ DrainLoop(r) \/ DrainMore(r) \/ DrainEmpty(r)
           \/ DrainBlock(r) \/ DrainStale(r) \/ DrainFree(r) \/ DrainClear(r) \/ FreeRepeat(r)
 <2>1. Tallied /\ NoneFilled /\ Others(r) BY <1>6, InitQuiet DEF Aside
 <2>2. conn' = conn
   BY <1>6 DEF InitAdopt, DrainNothing, DrainLoop, DrainMore, DrainEmpty, DrainBlock, DrainStale,
      DrainFree, DrainClear, FreeRepeat, env
 <2>3. pc'[r] \notin Opening
   BY <1>6 DEF InitAdopt, DrainNothing, DrainLoop, DrainMore, DrainEmpty, DrainBlock, DrainStale,
      DrainFree, DrainClear, FreeRepeat, DrainDone, At, Goto, TypeOK, Opening
 <2>4. QED BY <2>1, <2>2, <2>3, TalliedTags, QuietInits DEF Reads
<1>7. QED BY <1>1, <1>2, <1>3, <1>4, <1>5, <1>6 DEF InitBlockStep

LEMMA FinishReads ==
  ASSUME TypeOK, NEW r \in Readers, Close(r) \/ FinishedStep(r)
  PROVE  Reads
<1>1. CASE Close(r) BY <1>1 DEF Close, Reads, TypeOK
<1>2. CASE FinishedStep(r)
 <2>1. conn' = conn
   BY <1>2 DEF FinishedStep, PrevLookup, PrevInsert, PrevPutBack, PrevSent, SetNext, FreePrev,
      CallHandler, HandlerReturns, NextLookup, NextCompleted, DoneRemove, Zombie, env
 <2>2. QED BY <2>1 DEF Reads
<1>3. QED BY <1>1, <1>2

LEMMA NextInits ==
  ASSUME TypeOK, OrderInv, ~ub, InitsInv, [Next]_vars
  PROVE  InitsInv'
<1>1. CASE UNCHANGED vars BY <1>1, OnlyFaultInits DEF vars
<1>2. CASE Stopped BY <1>1, <1>2 DEF Stopped
<1>3. ASSUME NEW r \in Readers, ReaderStep(r) PROVE InitsInv'
 <2>1. CASE Read(r) BY <2>1, ReadInits
 <2>2. CASE BadAccess(r) BY <2>2, OnlyFaultInits DEF BadAccess, heap
 <2>3. CASE InitBlockStep(r) BY <2>3, InitInits
 <2>4. CASE DataBlockStep(r)
  <3>1. conn' = conn BY <2>4 DEF DataBlockStep, DataLookup, DataInsert, PutBack, CheckValid, Park, Attach,
       Enqueue, Copy, Count, Complete, env
  <3>2. pc'[r] \notin Opening
    BY <2>4 DEF DataBlockStep, DataLookup, DataInsert, PutBack, CheckValid, Park, Attach,
       Enqueue, Copy, Count, Complete, Return, Goto, TypeOK, Opening
  <3>3. Tagged /\ NoneFilled /\ Others(r)
    BY <2>4, DataQuiet, CompleteQuiet, WriteQuiet, TalliedTags DEF DataBlockStep, Aside
  <3>4. QED BY <3>1, <3>2, <3>3, QuietInits DEF Reads
 <2>5. CASE Close(r) \/ FinishedStep(r)
  <3>1. Tallied /\ NoneFilled /\ Others(r) /\ pc'[r] \notin Opening BY <2>5, FinishQuiet DEF Aside, Opening
  <3>2. Reads BY <2>5, FinishReads
  <3>3. QED BY <3>1, <3>2, TalliedTags, QuietInits
 <2>6. QED BY <1>3, <2>1, <2>2, <2>3, <2>4, <2>5 DEF ReaderStep
<1>4. QED BY <1>1, <1>2, <1>3 DEF Next

LEMMA TalliedRipens ==
  ASSUME TypeOK, Tallied, NoneCompleted, AnnouncedAll
  PROVE  Ripens
<1>1. \A o \in Objects : info[o].n_written \in Nat BY Sizes DEF Objects, InfoType
<1>2. QED BY <1>1, TalliedTags DEF Tallied, Tally, NoneCompleted, Ripens

LEMMA CompletedGrow ==
  ASSUME TypeOK, Ripens
  PROVE  CompletedTags \subseteq CompletedTags'
BY ObjectKept DEF Ripens, CompletedTags

LEMMA SpentKept ==
  ASSUME TypeOK, TypeOK', Ripens, NEW o \in Objects, info[o].valid, Spent(o)
  PROVE  Spent(o)'
<1>1. info[o].buffer_size = info'[o].buffer_size BY DEF Ripens, AnnouncedAll, Announced, Objects
<1>2. info[o].n_written \in Nat /\ info[o].buffer_size \in 0 .. MaxSize /\ MaxSize \in Nat
  BY Sizes, StandardsAssumption DEF Objects, InfoType
<1>3. o \in Objects' /\ info'[o].n_written >= info[o].n_written BY ObjectKept DEF Ripens
<1>4. info'[o].n_written \in Nat
 <2>1. info' \in Seq(InfoType(Len(queue)')) BY DEF TypeOK
 <2>2. info'[o] \in InfoType(Len(queue)') BY <1>3, <2>1 DEF Objects
 <2>3. QED BY <2>2 DEF InfoType
<1>5. QED BY <1>1, <1>2, <1>3, <1>4 DEF Spent

LEMMA SpentStep ==
  ASSUME TypeOK, TypeOK', OrderInv, ~ub, SpentInv, NEW r \in Readers, Others(r), Ripens, Linked,
         DeliveredTags' \subseteq CompletedTags,
         pc'[r] = "complete" => Counter(r)',
         pc'[r] \in Passing => Done(r)',
         pc'[r] = "next_completed" => (info[th[r].done].tag + 1)' \in CompletedTags
  PROVE  SpentInv'
<1>1. CompletedTags \subseteq CompletedTags' BY CompletedGrow
<1>2. \A o \in Objects : o \in Objects' /\ info'[o].tag = info[o].tag BY ObjectKept DEF Ripens
<1>3. /\ \A o \in Objects : info[o].completed => info[o].valid
      /\ \A s \in Readers : pc[s] = "complete" => info[th[s].buffer].valid
  BY WholeFilled
<1>4. ASSUME NEW o \in Objects', info'[o].completed PROVE Spent(o)'
  BY <1>3, <1>4, SpentKept DEF Ripens, SpentInv
<1>5. \A o \in Objects' : info'[o].next_tag \in {NO_TAG} \cup CompletedTags' BY <1>1 DEF Linked
<1>6. ASSUME NEW s \in Readers, s # r
      PROVE  /\ pc'[s] = "complete" => Counter(s)'
             /\ pc'[s] \in Passing => Done(s)'
             /\ pc'[s] = "next_completed" => info'[th'[s].done].tag + 1 \in CompletedTags'
 <2>1. pc'[s] = pc[s] /\ th'[s] = th[s] BY <1>6 DEF Others
 <2>2. ASSUME pc[s] = "complete" PROVE Counter(s)'
  <3>1. th[s].buffer \in Objects /\ Spent(th[s].buffer) /\ info[th[s].buffer].valid
    BY <1>3, <2>2 DEF SpentInv, Counter
  <3>2. PICK o \in Objects : o = th[s].buffer BY <3>1
  <3>3. Spent(o)' /\ o \in Objects' BY <1>2, <3>1, <3>2, SpentKept
  <3>4. QED BY <2>1, <3>2, <3>3 DEF Counter, Spent
 <2>3. ASSUME pc[s] \in Passing PROVE Done(s)' BY <1>2, <2>1, <2>3 DEF SpentInv, Done, Ripens
 <2>4. ASSUME pc[s] = "next_completed" PROVE info'[th'[s].done].tag + 1 \in CompletedTags'
   BY <1>1, <1>2, <2>1, <2>4 DEF SpentInv, Done, Passing
 <2>5. QED BY <2>1, <2>2, <2>3, <2>4
<1>7. DeliveredTags' \subseteq CompletedTags' BY <1>1
<1>8. \A s \in Readers :
        /\ pc'[s] = "complete" => Counter(s)'
        /\ pc'[s] \in Passing => Done(s)'
        /\ pc'[s] = "next_completed" => info'[th'[s].done].tag + 1 \in CompletedTags'
  BY <1>1, <1>6
<1>9. QED BY <1>4, <1>5, <1>7, <1>8 DEF SpentInv

LEMMA UntiedSame ==
  ASSUME info' = info
  PROVE  Untied
BY DEF Untied, Objects

LEMMA UntiedAlloc ==
  ASSUME TypeOK, NEW rec, info' = Append(info, rec), rec.next_tag \in {NO_TAG} \cup CompletedTags
  PROVE  Untied
BY Sizes DEF Untied, Objects, TypeOK

LEMMA UntiedWrite ==
  ASSUME TypeOK, NEW o, NEW rec, info' = [info EXCEPT ![o] = rec],
         o \in Objects => rec.next_tag = info[o].next_tag
  PROVE  Untied
BY Sizes DEF Untied, Objects, TypeOK

LEMMA UntiedField ==
  ASSUME TypeOK, NEW o, NEW v,
         \/ info' = [info EXCEPT ![o].waiting_queue = v]
         \/ info' = [info EXCEPT ![o].buffer = v]
         \/ info' = [info EXCEPT ![o].sent = v]
         \/ info' = [info EXCEPT ![o].freed = v]
         \/ info' = [info EXCEPT ![o].written = v]
         \/ info' = [info EXCEPT ![o].n_written = v]
         \/ info' = [info EXCEPT ![o].completed = v]
  PROVE  Untied
<1>1. PICK rec :
        /\ info' = [info EXCEPT ![o] = rec]
        /\ \/ rec = [info[o] EXCEPT !.waiting_queue = v]
           \/ rec = [info[o] EXCEPT !.buffer = v]
           \/ rec = [info[o] EXCEPT !.sent = v]
           \/ rec = [info[o] EXCEPT !.freed = v]
           \/ rec = [info[o] EXCEPT !.written = v]
           \/ rec = [info[o] EXCEPT !.n_written = v]
           \/ rec = [info[o] EXCEPT !.completed = v]
  OBVIOUS
<1>2. ASSUME o \in Objects PROVE rec.next_tag = info[o].next_tag
 <2>1. info[o] \in InfoType(Len(queue)) BY <1>2, Sizes DEF Objects
 <2>2. QED BY <1>1, <2>1 DEF InfoType
<1>3. QED BY <1>1, <1>2, UntiedWrite

LEMMA InitUntied ==
  ASSUME TypeOK, NEW r \in Readers, InitBlockStep(r), ~InitAdopt(r)
  PROVE  Untied
<1>1. CASE InitFill(r)
 <2>1. PICK rec : rec = Filled(info[th[r].new_buf], th[r].block) OBVIOUS
 <2>2. ASSUME th[r].new_buf \in Objects PROVE rec.next_tag = info[th[r].new_buf].next_tag
  <3>1. info[th[r].new_buf] \in InfoType(Len(queue)) BY <2>2, Sizes DEF Objects
  <3>2. QED BY <2>1, <3>1 DEF Filled, InfoType
 <2>3. info' = [info EXCEPT ![th[r].new_buf] = rec] BY <1>1, <2>1 DEF InitFill
 <2>4. QED BY <2>2, <2>3, UntiedWrite
<1>2. CASE InitInsert(r)
 <2>1. PICK rec : rec = Filled([Calloc EXCEPT !.next_tag = NO_TAG], th[r].block) OBVIOUS
 <2>2. rec.next_tag = NO_TAG BY <2>1 DEF Filled, Calloc
 <2>3. info' = Append(info, rec) BY <1>2, <2>1 DEF InitInsert
 <2>4. QED BY <2>2, <2>3, UntiedAlloc
<1>3. CASE DrainClear(r) BY <1>3, UntiedField DEF DrainClear
<1>4. CASE FreeRepeat(r) BY <1>4, UntiedField DEF FreeRepeat
<1>5. CASE \/ InitLookup(r) \/ DuplicateExit(r) \/ InitNotValid(r) \/ DrainNothing(r) \/ DrainLoop(r)
           \/ DrainMore(r) \/ DrainEmpty(r) \/ DrainBlock(r) \/ DrainStale(r) \/ DrainFree(r)
  BY <1>5, UntiedSame DEF InitLookup, DuplicateExit, InitNotValid, DrainNothing, DrainLoop, DrainMore,
     DrainEmpty, DrainBlock, DrainStale, DrainFree, heap
<1>6. QED BY <1>1, <1>2, <1>3, <1>4, <1>5 DEF InitBlockStep

LEMMA DataUntied ==
  ASSUME TypeOK, NEW r \in Readers, DataBlockStep(r)
  PROVE  Untied
<1>1. CASE DataInsert(r)
 <2>1. PICK rec : rec = Dummy(th[r].block.tag, NO_TAG, Len(queue) + 1) OBVIOUS
 <2>2. rec.next_tag = NO_TAG BY <2>1 DEF Dummy, Calloc
 <2>3. info' = Append(info, rec) BY <1>1, <2>1 DEF DataInsert
 <2>4. QED BY <2>2, <2>3, UntiedAlloc
<1>2. CASE PutBack(r) BY <1>2, UntiedField DEF PutBack
<1>3. CASE Attach(r) BY <1>3, UntiedField DEF Attach
<1>4. CASE Copy(r) BY <1>4, UntiedField DEF Copy
<1>5. CASE Count(r) BY <1>5, UntiedField DEF Count
<1>6. CASE Complete(r) BY <1>6, UntiedField DEF Complete
<1>7. CASE DataLookup(r) \/ CheckValid(r) \/ Park(r) \/ Enqueue(r)
  BY <1>7, UntiedSame DEF DataLookup, CheckValid, Park, Enqueue, heap
<1>8. QED BY <1>1, <1>2, <1>3, <1>4, <1>5, <1>6, <1>7 DEF DataBlockStep

LEMMA FinishUntied ==
  ASSUME TypeOK, SpentInv, NEW r \in Readers, FinishedStep(r), ~SetNext(r)
  PROVE  Untied
<1>1. CASE PrevInsert(r)
 <2>1. PICK rec : rec = Dummy(info[th[r].done].prev_tag, info[th[r].done].tag, Null) OBVIOUS
 <2>2. Done(r) BY <1>1 DEF PrevInsert, At, SpentInv, Passing, Finishing
 <2>3. rec.next_tag = info[th[r].done].tag BY <2>1 DEF Dummy, Calloc
 <2>4. rec.next_tag \in CompletedTags BY <2>2, <2>3 DEF Done, CompletedTags
 <2>5. info' = Append(info, rec) BY <1>1, <2>1 DEF PrevInsert
 <2>6. QED BY <2>4, <2>5, UntiedAlloc
<1>2. CASE PrevPutBack(r) BY <1>2, UntiedField DEF PrevPutBack
<1>3. CASE FreePrev(r) BY <1>3, UntiedField DEF FreePrev
<1>4. CASE HandlerReturns(r) BY <1>4, UntiedField DEF HandlerReturns
<1>5. CASE Zombie(r) BY <1>5, UntiedField DEF Zombie
<1>6. CASE \/ PrevLookup(r) \/ PrevSent(r) \/ CallHandler(r) \/ NextLookup(r)
           \/ NextCompleted(r) \/ DoneRemove(r)
  BY <1>6, UntiedSame DEF PrevLookup, PrevSent, CallHandler, NextLookup, NextCompleted, DoneRemove, heap
<1>7. QED BY <1>1, <1>2, <1>3, <1>4, <1>5, <1>6 DEF FinishedStep

LEMMA UntiedLinked ==
  ASSUME SpentInv, Untied
  PROVE  Linked
BY DEF SpentInv, Untied, Linked

LEMMA QuietSpent ==
  ASSUME TypeOK, TypeOK', OrderInv, ~ub, SpentInv, NEW r \in Readers, Others(r), Ripens, Linked,
         delivered' = delivered, pc'[r] \notin Passing, pc'[r] # "complete"
  PROVE  SpentInv'
<1>1. DeliveredTags' \subseteq CompletedTags BY DEF DeliveredTags, SpentInv
<1>2. pc'[r] # "next_completed" BY DEF Passing
<1>3. QED BY <1>1, <1>2, SpentStep

LEMMA AdoptLinked ==
  ASSUME TypeOK, SpentInv, NEW r \in Readers, InitAdopt(r)
  PROVE  /\ Linked /\ th[r].new_buf \in Objects /\ th[r].repeat \in Objects
         /\ Objects' = Objects /\ info'[th[r].new_buf].next_tag = info[th[r].repeat].next_tag
         /\ \A o \in Objects : o # th[r].new_buf => info'[o] = info[o]
<1>1. PICK o, p : o = th[r].new_buf /\ p = th[r].repeat OBVIOUS
<1>2. o \in Objects /\ p \in Objects
 <2>1. Safe(r) /\ o \in InfoUsed(r) /\ p \in InfoUsed(r) BY <1>1 DEF InitAdopt, At, InfoUsed
 <2>2. o \in 0 .. Len(info) /\ p \in 0 .. Len(info) BY <1>1, ThreadType DEF LocalsType
 <2>3. QED BY <2>1, <2>2, Used
<1>3. PICK rec : rec = [info[o] EXCEPT !.next_tag = info[p].next_tag] OBVIOUS
<1>4. info' = [info EXCEPT ![o] = rec] BY <1>1, <1>3 DEF InitAdopt
<1>5. rec.next_tag = info[p].next_tag BY <1>2, <1>3, Sizes DEF Objects, InfoType
<1>6. /\ Objects' = Objects /\ info'[o] = rec
      /\ \A x \in Objects : x # o => info'[x] = info[x]
  BY <1>2, <1>4 DEF Objects, TypeOK
<1>7. Linked BY <1>2, <1>5, <1>6 DEF Linked, SpentInv
<1>8. QED BY <1>1, <1>2, <1>5, <1>6, <1>7

LEMMA SetNextLinked ==
  ASSUME TypeOK, SpentInv, NEW r \in Readers, SetNext(r)
  PROVE  /\ Linked /\ th[r].prev \in Objects /\ Done(r)
         /\ Objects' = Objects /\ info'[th[r].prev].next_tag = info[th[r].done].tag
         /\ \A o \in Objects : o # th[r].prev => info'[o] = info[o]
<1>1. PICK o : o = th[r].prev OBVIOUS
<1>2. o \in Objects
 <2>1. Safe(r) /\ o \in InfoUsed(r) BY <1>1 DEF SetNext, At, InfoUsed
 <2>2. o \in 0 .. Len(info) BY <1>1, ThreadType DEF LocalsType
 <2>3. QED BY <2>1, <2>2, Used
<1>3. Done(r) /\ info[th[r].done].tag \in CompletedTags
  BY DEF SetNext, At, SpentInv, Passing, Finishing, Done, CompletedTags
<1>4. PICK rec : rec = [info[o] EXCEPT !.next_tag = info[th[r].done].tag] OBVIOUS
<1>5. info' = [info EXCEPT ![o] = rec] BY <1>1, <1>4 DEF SetNext
<1>6. rec.next_tag = info[th[r].done].tag BY <1>2, <1>4, Sizes DEF Objects, InfoType
<1>7. /\ Objects' = Objects /\ info'[o] = rec
      /\ \A x \in Objects : x # o => info'[x] = info[x]
  BY <1>2, <1>5 DEF Objects, TypeOK
<1>8. Linked BY <1>3, <1>6, <1>7 DEF Linked, SpentInv
<1>9. QED BY <1>1, <1>2, <1>3, <1>6, <1>7, <1>8

LEMMA WriteRipens ==
  ASSUME TypeOK, NEW r \in Readers, Copy(r) \/ Count(r)
  PROVE  Ripens
<1>1. AnnouncedAll BY DataAnnounced DEF DataBlockStep
<1>2. QED BY <1>1, WriteQuiet DEF NoneCompleted, Ripens

(* The thread that has counted the last block of a buffer. *)
LEMMA CountSpent ==
  ASSUME TypeOK, TypeOK', OrderInv, ~ub, SpentInv, NEW r \in Readers, Count(r)
  PROVE  SpentInv'
<1>1. Ripens /\ Others(r) BY WriteRipens, WriteQuiet
<1>2. Linked /\ delivered' = delivered BY DataUntied, UntiedLinked DEF DataBlockStep, Count, env
<1>3. pc'[r] \in {"complete", "drain_test", "read"} /\ (pc'[r] = "complete" => LastBlock(info[th[r].buffer]) /\ th' = th)
  BY DEF Count, Return, Goto, TypeOK
<1>4. ASSUME pc'[r] = "complete" PROVE Counter(r)'
 <2>1. PICK b : b = th[r].buffer OBVIOUS
 <2>2. b \in Objects /\ b \in Objects' BY <2>1, BufferUsed, WriteQuiet DEF Count, At
 <2>3. PICK rec : rec = [info[b] EXCEPT !.n_written = info[b].n_written + 1] OBVIOUS
 <2>4. info'[b] = rec
  <3>1. info' = [info EXCEPT ![b] = rec] BY <2>1, <2>3 DEF Count
  <3>2. QED BY <2>2, <3>1 DEF Objects, TypeOK
 <2>5. rec.n_written = info[b].n_written + 1 /\ rec.buffer_size = info[b].buffer_size
   BY <2>2, <2>3, Sizes DEF Objects, InfoType
 <2>6. info[b].n_written \in Nat BY <2>2, Sizes DEF Objects, InfoType
 <2>7. Spent(b)' BY <1>3, <1>4, <2>1, <2>4, <2>5, <2>6 DEF LastBlock, Spent
 <2>8. QED BY <1>3, <1>4, <2>1, <2>2, <2>7 DEF Counter, Spent
<1>5. pc'[r] \notin Passing BY <1>3 DEF Passing, Finishing
<1>6. DeliveredTags' \subseteq CompletedTags BY <1>2 DEF DeliveredTags, SpentInv
<1>7. QED BY <1>1, <1>2, <1>4, <1>5, <1>6, SpentStep DEF Passing

LEMMA CompleteSpent ==
  ASSUME TypeOK, TypeOK', OrderInv, ~ub, ~ub', SpentInv, NEW r \in Readers, Complete(r)
  PROVE  /\ SpentInv' /\ Ripens /\ th'[r].done = th[r].buffer
<1>1. /\ Tallied /\ Others(r) /\ pc'[r] = "prev_lookup"
      /\ th[r].buffer \in Objects /\ Objects' = Objects /\ info'[th[r].buffer].completed
      /\ \A o \in Objects : o # th[r].buffer => info'[o] = info[o]
  BY CompleteQuiet DEF Aside
<1>2. pc[r] = "complete" /\ info[th[r].buffer].valid /\ Spent(th[r].buffer)
  BY WholeFilled DEF Complete, At, SpentInv, Counter
<1>3. AnnouncedAll BY DataAnnounced DEF DataBlockStep
<1>4. \A o \in Objects : info[o].n_written \in Nat BY Sizes DEF Objects, InfoType
<1>5. Ripens BY <1>1, <1>2, <1>3, <1>4, TalliedTags DEF Ripens, Tallied, Tally
<1>6. Linked /\ delivered' = delivered BY DataUntied, UntiedLinked DEF DataBlockStep, Complete
<1>7. th'[r].done = th[r].buffer
 <2>1. th[r].found BY DEF Complete
 <2>2. th[r].kv[Frame(r)] = th[r].buffer BY <2>1, OrderParts DEF ThreadOK, DataOK
 <2>3. Locals(r, [th[r] EXCEPT !.done = th[r].buffer]) BY <2>1, <2>2 DEF Complete
 <2>4. [th[r] EXCEPT !.done = th[r].buffer].done = th[r].buffer BY ThreadType DEF LocalsType
 <2>5. QED BY <2>3, <2>4 DEF Locals, TypeOK
<1>8. DeliveredTags' \subseteq CompletedTags BY <1>6 DEF DeliveredTags, SpentInv
<1>9. Done(r)' BY <1>1, <1>7 DEF Done
<1>10. SpentInv' BY <1>1, <1>5, <1>6, <1>8, <1>9, SpentStep
<1>11. QED BY <1>5, <1>7, <1>10

LEMMA FinishRipens ==
  ASSUME TypeOK, NEW r \in Readers, FinishedStep(r)
  PROVE  Ripens /\ Others(r) /\ pc'[r] # "complete"
BY FinishQuiet, FinishedAnnounced, TalliedRipens DEF Aside

(* The thread that finds a next_tag: it is the tag after the one it passed. *)
LEMMA LookupFinds ==
  ASSUME TypeOK, OrderInv, ~ub, SpentInv, NEW r \in Readers, NextLookup(r),
         pc'[r] = "next_completed"
  PROVE  /\ pc[r] = "next_lookup" /\ info' = info /\ delivered' = delivered
         /\ th'[r].done = th[r].done /\ Done(r)
         /\ info[th[r].done].next_tag = info[th[r].done].tag + 1
         /\ info[th[r].done].tag + 1 \in CompletedTags /\ info[th[r].done].tag \in DeliveredTags
<1>1. PICK o : o = info[th[r].done] OBVIOUS
<1>2. pc[r] = "next_lookup" /\ info' = info /\ delivered' = delivered BY DEF NextLookup, At, heap, env
<1>3. Done(r) /\ o.next_tag \in {NO_TAG} \cup CompletedTags BY <1>1, <1>2 DEF SpentInv, Passing, Done
<1>4. pc'[r] # "zombie" OBVIOUS
<1>5. PICK n : n # Null /\ Locals(r, [th[r] EXCEPT !.next = n]) /\ n = table[o.next_tag]
 <2>1. ~Goto(r, "zombie") BY <1>4 DEF Goto, TypeOK
 <2>2. QED BY <1>1, <2>1 DEF NextLookup
<1>6. th'[r].done = th[r].done
 <2>1. [th[r] EXCEPT !.next = n].done = th[r].done BY ThreadType DEF LocalsType
 <2>2. QED BY <1>5, <2>1 DEF Locals, TypeOK
<1>7. o.next_tag # NO_TAG /\ o.next_tag \in {NO_TAG, o.tag + 1}
  BY <1>1, <1>3, <1>5, OrderParts DEF TagsOK, Done
<1>8. o.tag \in DeliveredTags BY <1>1, <1>2, OrderParts DEF ThreadOK, FinishOK
<1>9. QED BY <1>1, <1>2, <1>3, <1>6, <1>7, <1>8

(* The thread whose handler call returns: its buffer has been delivered.    *)
LEMMA HandlerDelivers ==
  ASSUME TypeOK, SpentInv, NEW r \in Readers, HandlerReturns(r)
  PROVE  /\ pc[r] = "in_handler" /\ pc'[r] = "next_lookup" /\ Done(r) /\ th' = th
         /\ \E d : delivered' = Append(delivered, d) /\ d.tag = info[th[r].done].tag
         /\ DeliveredTags' = DeliveredTags \cup {info[th[r].done].tag}
<1>1. PICK d : d = [tag |-> info[th[r].done].tag, blocks |-> info[th[r].done].written] OBVIOUS
<1>2. delivered' = Append(delivered, d) /\ d.tag = info[th[r].done].tag BY <1>1 DEF HandlerReturns
<1>3. pc[r] = "in_handler" /\ pc'[r] = "next_lookup" /\ th' = th BY DEF HandlerReturns, At, Goto, TypeOK
<1>4. Done(r) BY <1>3 DEF SpentInv, Passing, Finishing
<1>5. QED BY <1>2, <1>3, <1>4, DeliveredGrows

(* What a thread of the chain still knows of the buffer it has finished.    *)
LEMMA FinishDoneKept ==
  ASSUME TypeOK, OrderInv, ~ub, SpentInv, NEW r \in Readers, FinishedStep(r)
  PROVE  /\ pc'[r] \in Passing => Done(r)'
         /\ pc'[r] = "next_completed" => (info[th[r].done].tag + 1)' \in CompletedTags
<1>1. Ripens BY FinishRipens
<1>2. \A o \in Objects : o \in Objects' /\ info'[o].tag = info[o].tag /\ (info[o].completed => info'[o].completed)
  BY <1>1, ObjectKept DEF Ripens
<1>3. ASSUME pc'[r] \in Finishing PROVE Done(r)'
 <2>1. pc[r] \in Finishing => Done(r) BY DEF SpentInv, Passing
 <2>2. th'[r].done \in Objects /\ info[th'[r].done].completed BY <1>3, <2>1, FinishDone
 <2>3. QED BY <1>2, <2>2 DEF Done
<1>4. ASSUME pc'[r] = "next_lookup" PROVE Done(r)'
 <2>1. HandlerReturns(r)
   BY <1>4 DEF FinishedStep, PrevLookup, PrevInsert, PrevPutBack, PrevSent, SetNext, FreePrev,
      CallHandler, NextLookup, NextCompleted, DoneRemove, Zombie, Return, Goto, TypeOK
 <2>2. Done(r) /\ th' = th BY <2>1, HandlerDelivers
 <2>3. QED BY <1>2, <2>2 DEF Done
<1>5. ASSUME pc'[r] = "next_completed"
      PROVE  Done(r)' /\ (info[th[r].done].tag + 1)' \in CompletedTags
 <2>1. NextLookup(r)
   BY <1>5 DEF FinishedStep, PrevLookup, PrevInsert, PrevPutBack, PrevSent, SetNext, FreePrev,
      CallHandler, HandlerReturns, NextCompleted, DoneRemove, Zombie, Return, Goto, TypeOK
 <2>2. /\ info' = info /\ th'[r].done = th[r].done /\ Done(r)
       /\ info[th[r].done].tag + 1 \in CompletedTags
   BY <1>5, <2>1, LookupFinds
 <2>3. QED BY <2>2 DEF Done, Objects
<1>6. QED BY <1>3, <1>4, <1>5 DEF Passing

LEMMA FinishSpent ==
  ASSUME TypeOK, TypeOK', OrderInv, ~ub, SpentInv, NEW r \in Readers, FinishedStep(r)
  PROVE  SpentInv'
<1>1. Ripens /\ Others(r) /\ pc'[r] # "complete" BY FinishRipens
<1>2. Linked BY FinishUntied, UntiedLinked, SetNextLinked
<1>3. DeliveredTags' \subseteq CompletedTags
 <2>1. CASE HandlerReturns(r) BY <2>1, HandlerDelivers DEF SpentInv, Done, CompletedTags
 <2>2. CASE ~HandlerReturns(r)
  <3>1. delivered' = delivered
    BY <2>2 DEF FinishedStep, PrevLookup, PrevInsert, PrevPutBack, PrevSent, SetNext, FreePrev,
       CallHandler, NextLookup, NextCompleted, DoneRemove, Zombie, env
  <3>2. QED BY <3>1 DEF DeliveredTags, SpentInv
 <2>3. QED BY <2>1, <2>2
<1>4. QED BY <1>1, <1>2, <1>3, FinishDoneKept, SpentStep

LEMMA SocketElsewhere ==
  ASSUME TypeOK, NEW r \in Readers, Read(r) \/ Close(r)
  PROVE  Elsewhere(r) /\ Untied
<1>1. info' = info /\ delivered' = delivered BY DEF Read, Close, heap
<1>2. Ripens /\ Untied BY <1>1, NoneWritten, TallySame, TalliedRipens, UntiedSame
<1>3. Others(r) BY ReadQuiet, FinishQuiet DEF Aside
<1>4. pc'[r] \in {"init_lookup", "data_lookup", "closed"} BY DEF Read, Close, Goto, TypeOK
<1>5. QED BY <1>1, <1>2, <1>3, <1>4 DEF Elsewhere, Passing, Finishing

LEMMA InitElsewhere ==
  ASSUME TypeOK, OrderInv, InitsInv, ~ub, NEW r \in Readers, InitBlockStep(r), ~DuplicateExit(r)
  PROVE  Elsewhere(r)
<1>1. Tallied /\ NoneCompleted /\ Others(r) BY InitQuiet, FillQuiet, InsertQuiet DEF InitBlockStep, Aside
<1>2. pc'[r] \notin Passing /\ pc'[r] # "complete"
  BY InitQuiet, FillQuiet, InsertQuiet DEF InitBlockStep, Passing, Finishing, Draining
<1>3. delivered' = delivered
  BY DEF InitBlockStep, InitLookup, InitNotValid, InitFill, InitInsert, InitAdopt, DrainNothing,
     DrainLoop, DrainMore, DrainEmpty, DrainBlock, DrainStale, DrainFree, DrainClear, FreeRepeat, env
<1>4. QED BY <1>1, <1>2, <1>3, InitAnnounced, TalliedRipens DEF Elsewhere

LEMMA DataElsewhere ==
  ASSUME TypeOK, NEW r \in Readers, DataBlockStep(r), ~Count(r), ~Complete(r)
  PROVE  Elsewhere(r)
<1>1. delivered' = delivered
  BY DEF DataBlockStep, DataLookup, DataInsert, PutBack, CheckValid, Park, Attach, Enqueue, Copy, env
<1>2. CASE Copy(r)
 <2>1. pc'[r] = "count" BY <1>2 DEF Copy, Goto, TypeOK
 <2>2. QED BY <1>1, <1>2, <2>1, WriteRipens, WriteQuiet DEF Elsewhere, Passing, Finishing
<1>3. CASE ~Copy(r)
 <2>1. Tallied /\ NoneCompleted /\ Others(r) /\ pc'[r] \notin Passing /\ pc'[r] # "complete"
   BY <1>3, DataQuiet DEF DataBlockStep, Aside, Passing, Finishing
 <2>2. QED BY <1>1, <2>1, DataAnnounced, TalliedRipens DEF Elsewhere
<1>4. QED BY <1>2, <1>3

LEMMA OnlyFaultSpent ==
  ASSUME SpentInv, UNCHANGED <<info, pc, th, delivered>>
  PROVE  SpentInv'
<1>1. info' = info /\ pc' = pc /\ th' = th /\ delivered' = delivered OBVIOUS
<1>2. /\ Objects' = Objects /\ CompletedTags' = CompletedTags /\ DeliveredTags' = DeliveredTags
      /\ \A r \in Readers : (Counter(r)' <=> Counter(r)) /\ (Done(r)' <=> Done(r))
      /\ \A o : Spent(o)' <=> Spent(o)
  BY <1>1 DEF Spent, Counter, Done, Objects, CompletedTags, DeliveredTags
<1>3. QED BY <1>1, <1>2 DEF SpentInv

LEMMA NextSpent ==
  ASSUME TypeOK, TypeOK', OrderInv, InitsInv, ~ub, ~ub', SpentInv, [Next]_vars
  PROVE  SpentInv'
<1>1. CASE UNCHANGED vars BY <1>1, OnlyFaultSpent DEF vars
<1>2. CASE Stopped BY <1>1, <1>2 DEF Stopped
<1>3. ASSUME NEW r \in Readers, ReaderStep(r) PROVE SpentInv'
 <2>1. CASE Read(r) \/ Close(r) BY <2>1, SocketElsewhere, UntiedLinked, QuietSpent DEF Elsewhere
 <2>2. CASE BadAccess(r) \/ DuplicateExit(r) BY <2>2, OnlyFaultSpent DEF BadAccess, DuplicateExit, heap
 <2>3. CASE InitBlockStep(r) /\ ~DuplicateExit(r)
  <3>1. Elsewhere(r) BY <2>3, InitElsewhere
  <3>2. Linked BY <2>3, InitUntied, UntiedLinked, AdoptLinked
  <3>3. QED BY <3>1, <3>2, QuietSpent DEF Elsewhere
 <2>4. CASE DataBlockStep(r) /\ ~Count(r) /\ ~Complete(r)
   BY <2>4, DataElsewhere, DataUntied, UntiedLinked, QuietSpent DEF Elsewhere
 <2>5. CASE Count(r) BY <2>5, CountSpent
 <2>6. CASE Complete(r) BY <2>6, CompleteSpent
 <2>7. CASE FinishedStep(r) BY <2>7, FinishSpent
 <2>8. QED BY <1>3, <2>1, <2>2, <2>3, <2>4, <2>5, <2>6, <2>7 DEF ReaderStep
<1>4. QED BY <1>1, <1>2, <1>3 DEF Next

LEMMA ValidTag ==
  ASSUME TypeOK, OrderInv, ~ub, NEW o \in Objects, info[o].valid
  PROVE  info[o].tag \in Tags
<1>1. info[o].tag \in Keys /\ info[o].prev_tag \in Keys BY Sizes DEF Objects, InfoType
<1>2. info[o].prev_tag = info[o].tag - 1 BY TypeOK, OrderInv, ~ub DEF OrderInv, TagsOK
<1>3. QED BY <1>1, <1>2 DEF Keys, Tags, NO_TAG

(* The other threads stay in the stage they are in. *)
LEMMA OthersStages ==
  ASSUME TypeOK, SpentInv, NEW r \in Readers, Others(r), Tagged, NEW s \in Readers, s # r
  PROVE  /\ \A t : s \in Finishers(t)' => s \in Finishers(t)
         /\ \A t : s \in Pickers(t)' => s \in Pickers(t)
         /\ \A t : s \in Lookers(t)' => s \in Lookers(t)
<1>1. pc'[s] = pc[s] /\ th'[s] = th[s] BY DEF Others
<1>2. \A o \in Objects : info'[o].tag = info[o].tag BY DEF Tagged
<1>3. pc[s] = "complete" => info'[th'[s].buffer].tag = info[th[s].buffer].tag
  BY <1>1, <1>2 DEF SpentInv, Counter
<1>4. pc[s] \in Passing => info'[th'[s].done].tag = info[th[s].done].tag BY <1>1, <1>2 DEF SpentInv, Done
<1>5. QED BY <1>1, <1>3, <1>4 DEF Finishers, Pickers, Lookers, Passing

LEMMA StagesFollow ==
  ASSUME TypeOK, SpentInv, NEW r \in Readers, Others(r), Tagged, NEW t
  PROVE  /\ Finishers(t)' \subseteq Finishers(t) \cup {r}
         /\ Pickers(t)' \subseteq Pickers(t) \cup {r} /\ Lookers(t)' \subseteq Lookers(t) \cup {r}
<1>1. \A s \in Finishers(t)' : s \in Readers BY DEF Finishers
<1>2. \A s \in Pickers(t)' : s \in Readers BY DEF Pickers
<1>3. \A s \in Lookers(t)' : s \in Readers BY DEF Lookers
<1>4. QED BY <1>1, <1>2, <1>3, OthersStages

LEMMA WaitingFollow ==
  ASSUME TypeOK, Tagged, LinksKept, NEW t \in Tags, Unread(t - 1)' => Unread(t - 1)
  PROVE  Waiting(t)' \subseteq Waiting(t)
<1>1. t # NO_TAG BY DEF Tags, NO_TAG
<1>2. ASSUME NEW o \in Waiting(t)' PROVE o \in Waiting(t)
 <2>1. o \in Valid' /\ info'[o].tag = t - 1 /\ info'[o].next_tag = t /\ Unread(t - 1)' BY <1>2 DEF Waiting
 <2>2. o \in Valid /\ info[o].next_tag = t BY <1>1, <2>1 DEF LinksKept
 <2>3. info[o].tag = t - 1 BY <2>1, <2>2 DEF Tagged, Valid
 <2>4. QED BY <2>1, <2>2, <2>3 DEF Waiting
<1>3. QED BY <1>2

(* A step of r in which the right to pass no buffer changes hands. *)
LEMMA QuietTokens ==
  ASSUME TypeOK, SpentInv, TokenInv, NEW r \in Readers, Others(r), Tagged, LinksKept,
         delivered' = delivered,
         \A t : r \in Finishers(t)' => r \in Finishers(t),
         \A t : r \in Pickers(t)' => r \in Pickers(t),
         \A t : r \in Lookers(t)' => r \in Lookers(t)
  PROVE  TokenInv'
<1> SUFFICES ASSUME NEW t \in Tags PROVE Stages(t)' /\ AtMostOne(Lookers(t))' BY DEF TokenInv
<1>1. Finishers(t)' \subseteq Finishers(t) /\ Pickers(t)' \subseteq Pickers(t) BY StagesFollow
<1>2. \A u : Lookers(u)' \subseteq Lookers(u) BY StagesFollow
<1>3. DeliveredTags' = DeliveredTags /\ Passed(t)' = Passed(t) BY DEF DeliveredTags, Passed
<1>4. Unread(t - 1)' => Unread(t - 1) BY <1>2, <1>3 DEF Unread
<1>5. Waiting(t)' \subseteq Waiting(t) BY <1>4, WaitingFollow
<1>6. Stages(t) /\ AtMostOne(Lookers(t)) BY DEF TokenInv
<1>7. Stages(t)' BY <1>1, <1>3, <1>5, <1>6, SoleShrinks DEF Stages
<1>8. AtMostOne(Lookers(t))' BY <1>2, <1>6 DEF AtMostOne
<1>9. QED BY <1>7, <1>8

LEMMA UntiedLinks ==
  ASSUME Untied, NoneFilled
  PROVE  LinksKept
BY DEF Untied, NoneFilled, LinksKept, Valid

(* The buffer an init block opens is not named by a next_tag yet: the one   *)
(* after it would be completed, and announced.                              *)
LEMMA OpenedLinks ==
  ASSUME TypeOK, OrderInv, ~ub, NEW t \in Int, \A o \in Valid : info[o].tag <= t,
         NEW x, \A o \in Valid' : o # x => o \in Valid /\ info'[o].next_tag = info[o].next_tag,
         info'[x].next_tag \in {NO_TAG, t + 1}, info'[x].next_tag \in {NO_TAG} \cup CompletedTags
  PROVE  LinksKept
<1>1. t + 1 \notin CompletedTags
 <2>1. \A o \in Objects : info[o].completed => o \in Valid BY WholeFilled DEF Valid
 <2>2. \A o \in Valid : info[o].tag \in Int BY Sizes DEF Valid, Objects, InfoType, Keys, Tags, NO_TAG
 <2>3. \A o \in Valid : info[o].tag # t + 1 BY <2>2
 <2>4. QED BY <2>1, <2>3 DEF CompletedTags
<1>2. info'[x].next_tag = NO_TAG BY <1>1
<1>3. QED BY <1>2 DEF LinksKept

LEMMA FillLinks ==
  ASSUME TypeOK, OrderInv, ~ub, InitsInv, SpentInv, NEW r \in Readers, InitFill(r)
  PROVE  LinksKept
<1>1. PICK x, t : x = th[r].new_buf /\ t = th[r].block.tag OBVIOUS
<1>2. pc[r] = "init_fill" /\ x \in Objects BY <1>1, FillQuiet DEF InitFill, At
<1>3. t \in Int /\ info[x].tag = t /\ \A o \in Valid : info[o].tag <= t
 <2>1. t \in Tags BY <1>1, <1>2, BlockType DEF InitSteps
 <2>2. info[x].tag = t BY <1>1, <1>2, OrderParts DEF ThreadOK, InitOK, HasTag
 <2>3. \A o \in Valid : info[o].tag < t BY <1>1, <1>2 DEF InitsInv, InitSteps
 <2>4. \A o \in Valid : info[o].tag \in Int BY Sizes DEF Valid, Objects, InfoType, Keys, Tags, NO_TAG
 <2>5. QED BY <2>1, <2>2, <2>3, <2>4 DEF Tags
<1>4. Untied BY InitUntied DEF InitBlockStep, InitFill, InitAdopt, At
<1>5. info'[x].next_tag = info[x].next_tag BY <1>2, <1>4 DEF Untied
<1>6. info[x].next_tag \in {NO_TAG, t + 1} /\ info[x].next_tag \in {NO_TAG} \cup CompletedTags
  BY <1>2, <1>3, OrderParts DEF TagsOK, SpentInv
<1>7. \A o \in Valid' : o # x => o \in Valid /\ info'[o].next_tag = info[o].next_tag
 <2>1. Objects' = Objects /\ \A o \in Objects : o # x => info'[o] = info[o]
   BY <1>1, <1>2 DEF InitFill, TypeOK, Objects
 <2>2. QED BY <2>1 DEF Valid
<1>8. QED BY <1>3, <1>5, <1>6, <1>7, OpenedLinks

LEMMA InsertLinks ==
  ASSUME TypeOK, NEW r \in Readers, InitInsert(r)
  PROVE  LinksKept
<1>1. PICK rec : rec = Filled([Calloc EXCEPT !.next_tag = NO_TAG], th[r].block) OBVIOUS
<1>2. rec.next_tag = NO_TAG BY <1>1 DEF Filled, Calloc
<1>3. info' = Append(info, rec) BY <1>1 DEF InitInsert
<1>4. /\ Objects' = Objects \cup {Len(info) + 1} /\ info'[Len(info) + 1] = rec
      /\ \A o \in Objects : info'[o] = info[o]
  BY <1>3, Sizes DEF Objects, TypeOK
<1>5. QED BY <1>2, <1>4 DEF LinksKept, Valid

LEMMA AdoptLinks ==
  ASSUME TypeOK, OrderInv, ~ub, InitsInv, SpentInv, NEW r \in Readers, InitAdopt(r)
  PROVE  LinksKept
<1>1. PICK x, p, t : x = th[r].new_buf /\ p = th[r].repeat /\ t = info[x].tag OBVIOUS
<1>2. /\ pc[r] = "init_adopt" /\ x \in Objects /\ p \in Objects /\ Objects' = Objects
      /\ info'[x].next_tag = info[p].next_tag
      /\ \A o \in Objects : o # x => info'[o] = info[o]
  BY <1>1, AdoptLinked DEF InitAdopt, At
<1>3. t \in Int BY <1>1, <1>2, Sizes DEF Objects, InfoType, Keys, Tags, NO_TAG
<1>4. \A o \in Valid : info[o].tag <= t BY <1>1, <1>2 DEF InitsInv
<1>5. info[p].tag = t
 <2>1. p # Null BY <1>2 DEF Objects, Null
 <2>2. QED BY <1>1, <2>1, OrderParts DEF ThreadOK, InitOK, HasTag
<1>6. info[p].next_tag \in {NO_TAG, t + 1} /\ info[p].next_tag \in {NO_TAG} \cup CompletedTags
  BY <1>2, <1>5, OrderParts DEF TagsOK, SpentInv
<1>7. Objects' = Objects /\ \A o \in Objects : info'[o].valid => info[o].valid
  BY <1>2, InitQuiet DEF NoneFilled
<1>8. \A o \in Valid' : o # x => o \in Valid /\ info'[o].next_tag = info[o].next_tag BY <1>2, <1>7 DEF Valid
<1>9. QED BY <1>2, <1>3, <1>4, <1>6, <1>8, OpenedLinks

LEMMA ElsewhereTokens ==
  ASSUME TypeOK, SpentInv, TokenInv, NEW r \in Readers, Elsewhere(r), LinksKept
  PROVE  TokenInv'
<1>1. /\ \A t : r \notin Finishers(t)'
      /\ \A t : r \notin Pickers(t)'
      /\ \A t : r \notin Lookers(t)'
  BY DEF Elsewhere, Passing, Finishers, Pickers, Lookers
<1>2. Others(r) /\ Tagged /\ delivered' = delivered BY DEF Elsewhere, Ripens
<1>3. QED BY <1>1, <1>2, QuietTokens

(* The last block of b is counted once: its counter is the first to finish  *)
(* it, so nobody else has, and no next_tag names it.                        *)
LEMMA LastCounted ==
  ASSUME TypeOK, OrderInv, ~ub, InitsInv, SpentInv, NEW b \in Objects, info[b].valid, LastBlock(info[b]),
         NEW t \in Tags, t = info[b].tag
  PROVE  Finishers(t) = {} /\ Waiting(t) = {} /\ Pickers(t) = {} /\ Passed(t) = {}
<1>1. ~Spent(b) BY Sizes DEF Objects, InfoType, LastBlock, Spent
<1>2. \A o \in Objects : info[o].valid /\ info[o].tag = t => o = b BY DEF InitsInv, Valid
<1>3. \A o \in Objects : info[o].completed => info[o].valid BY WholeFilled
<1>4. t \notin CompletedTags BY <1>1, <1>2, <1>3 DEF SpentInv, CompletedTags
<1>5. Finishers(t) = {}
 <2>1. \A r \in Readers : pc[r] = "complete" => info[th[r].buffer].tag # t
   BY <1>1, <1>2, WholeFilled DEF SpentInv, Counter
 <2>2. \A r \in Readers : pc[r] \in Finishing => info[th[r].done].tag # t
   BY <1>4 DEF SpentInv, Passing, Done, CompletedTags
 <2>3. QED BY <2>1, <2>2 DEF Finishers
<1>6. Waiting(t) = {}
 <2>1. \A o \in Valid : info[o].next_tag # t BY <1>4 DEF SpentInv, Valid, Tags, NO_TAG
 <2>2. QED BY <2>1 DEF Waiting
<1>7. Pickers(t) = {}
 <2>1. \A r \in Pickers(t) : info[th[r].done].tag + 1 \in CompletedTags /\ info[th[r].done].tag = t - 1
   BY DEF Pickers, SpentInv
 <2>2. \A r \in Pickers(t) : t \in CompletedTags BY <2>1 DEF Tags
 <2>3. QED BY <1>4, <2>2
<1>8. Passed(t) = {} BY <1>4 DEF SpentInv, DeliveredTags, Passed
<1>9. QED BY <1>5, <1>6, <1>7, <1>8

LEMMA CountTokens ==
  ASSUME TypeOK, OrderInv, ~ub, InitsInv, SpentInv, TokenInv, NEW r \in Readers, Count(r)
  PROVE  TokenInv'
<1>1. Tagged /\ NoneFilled /\ Others(r) /\ th[r].buffer \in Objects /\ pc[r] = "count"
  BY WriteQuiet, BufferUsed DEF Count, At
<1>2. LinksKept /\ delivered' = delivered BY <1>1, DataUntied, UntiedLinks DEF DataBlockStep, Count, env
<1>3. CASE pc'[r] # "complete"
 <2>1. pc'[r] \in {"drain_test", "read"} BY <1>3 DEF Count, Return, Goto, TypeOK
 <2>2. /\ \A t : r \notin Finishers(t)'
       /\ \A t : r \notin Pickers(t)'
       /\ \A t : r \notin Lookers(t)'
   BY <2>1 DEF Finishing, Finishers, Pickers, Lookers
 <2>3. QED BY <1>1, <1>2, <2>2, QuietTokens
<1>4. CASE pc'[r] = "complete"
 <2>1. PICK b : b = th[r].buffer OBVIOUS
 <2>2. b \in Objects /\ info[b].valid /\ info[b].tag \in Tags BY <1>1, <2>1, WholeFilled, ValidTag
 <2>3. LastBlock(info[b]) /\ th' = th BY <1>4, <2>1 DEF Count, Return, Goto, TypeOK
 <2>4. info'[th'[r].buffer].tag = info[b].tag BY <1>1, <2>1, <2>2, <2>3 DEF Tagged
 <2>5. /\ \A t : r \in Finishers(t)' => t = info[b].tag
       /\ \A t : r \notin Pickers(t)'
       /\ \A t : r \notin Lookers(t)'
   BY <1>4, <2>4 DEF Finishing, Finishers, Pickers, Lookers
 <2> SUFFICES ASSUME NEW t \in Tags PROVE Stages(t)' /\ AtMostOne(Lookers(t))' BY DEF TokenInv
 <2>6. /\ Finishers(t)' \subseteq Finishers(t) \cup {r} /\ Pickers(t)' \subseteq Pickers(t)
       /\ \A u : Lookers(u)' \subseteq Lookers(u)
   BY <1>1, <2>5, StagesFollow
 <2>7. DeliveredTags' = DeliveredTags /\ Passed(t)' = Passed(t) BY <1>2 DEF DeliveredTags, Passed
 <2>8. Unread(t - 1)' => Unread(t - 1) BY <2>6, <2>7 DEF Unread
 <2>9. Waiting(t)' \subseteq Waiting(t) BY <1>1, <1>2, <2>8, WaitingFollow
 <2>10. Stages(t) /\ AtMostOne(Lookers(t)) BY DEF TokenInv
 <2>11. CASE t = info[b].tag
  <3>1. Finishers(t) = {} /\ Waiting(t) = {} /\ Pickers(t) = {} /\ Passed(t) = {}
    BY <2>2, <2>3, <2>11, LastCounted
  <3>2. Stages(t)' BY <2>6, <2>7, <2>9, <3>1 DEF Stages, Sole, AtMostOne
  <3>3. QED BY <2>6, <2>10, <3>2 DEF AtMostOne
 <2>12. CASE t # info[b].tag
  <3>1. Finishers(t)' \subseteq Finishers(t) BY <2>5, <2>6, <2>12
  <3>2. Stages(t)' BY <2>6, <2>7, <2>9, <2>10, <3>1, SoleShrinks DEF Stages
  <3>3. QED BY <2>6, <2>10, <3>2 DEF AtMostOne
 <2>13. QED BY <2>11, <2>12
<1>5. QED BY <1>3, <1>4

(* The thread that completes a buffer is the one that finishes it. *)
LEMMA CompleteTokens ==
  ASSUME TypeOK, TypeOK', OrderInv, ~ub, ~ub', SpentInv, TokenInv, NEW r \in Readers, Complete(r)
  PROVE  TokenInv'
<1>1. /\ Tagged /\ NoneFilled /\ Others(r) /\ pc'[r] = "prev_lookup" /\ th[r].buffer \in Objects
      /\ th'[r].done = th[r].buffer
  BY CompleteQuiet, CompleteSpent, TalliedTags DEF Aside
<1>2. LinksKept /\ delivered' = delivered BY <1>1, DataUntied, UntiedLinks DEF DataBlockStep, Complete
<1>3. info'[th'[r].done].tag = info[th[r].buffer].tag /\ pc[r] = "complete" BY <1>1 DEF Tagged, Complete, At
<1>4. /\ \A t : r \in Finishers(t)' => r \in Finishers(t)
      /\ \A t : r \notin Pickers(t)'
      /\ \A t : r \notin Lookers(t)'
  BY <1>1, <1>3 DEF Finishing, Finishers, Pickers, Lookers
<1>5. QED BY <1>1, <1>2, <1>4, QuietTokens

(* On its way to the handler, and once it is through with the chain. *)
LEMMA FinishQuietTokens ==
  ASSUME TypeOK, OrderInv, ~ub, SpentInv, TokenInv, NEW r \in Readers, FinishedStep(r),
         ~SetNext(r), ~HandlerReturns(r), pc'[r] # "next_completed",
         NextCompleted(r) => pc'[r] = "zombie"
  PROVE  TokenInv'
<1>1. Ripens /\ Others(r) /\ pc'[r] # "complete" /\ Tagged /\ NoneFilled
  BY FinishRipens, FinishQuiet DEF Ripens
<1>2. Untied /\ LinksKept BY <1>1, FinishUntied, UntiedLinks
<1>3. delivered' = delivered BY DEF FinishedStep, PrevLookup, PrevInsert, PrevPutBack, PrevSent, FreePrev,
     CallHandler, NextLookup, NextCompleted, DoneRemove, Zombie, env
<1>4. pc'[r] # "next_lookup" BY DEF FinishedStep, PrevLookup, PrevInsert, PrevPutBack, PrevSent, FreePrev,
     CallHandler, NextLookup, NextCompleted, DoneRemove, Zombie, Return, Goto, TypeOK
<1>5. ASSUME pc'[r] \in Finishing
      PROVE  pc[r] \in Finishing /\ info'[th'[r].done].tag = info[th[r].done].tag
 <2>1. pc'[r] \notin {"zombie", "drain_test", "read", "remove"} BY <1>5 DEF Finishing
 <2>2. ~NextLookup(r) /\ ~DoneRemove(r) /\ ~Zombie(r) /\ ~NextCompleted(r)
   BY <2>1 DEF NextLookup, DoneRemove, Zombie, Return, Goto, TypeOK
 <2>3. pc[r] \in Finishing /\ th'[r].done = th[r].done BY <1>5, <2>2, SameDone DEF FinishedStep
 <2>4. QED BY <1>1, <2>3 DEF Tagged, SpentInv, Passing, Done
<1>6. /\ \A t : r \in Finishers(t)' => r \in Finishers(t)
      /\ \A t : r \notin Pickers(t)'
      /\ \A t : r \notin Lookers(t)'
  BY <1>1, <1>4, <1>5 DEF Finishers, Pickers, Lookers
<1>7. QED BY <1>1, <1>2, <1>3, <1>6, QuietTokens

(* The right goes to the buffer before it: prev, whose next_tag is set.     *)
LEMMA SetNextTokens ==
  ASSUME TypeOK, OrderInv, ~ub, SpentInv, TokenInv, NEW r \in Readers, SetNext(r)
  PROVE  TokenInv'
<1>1. Tagged /\ Others(r) /\ NoneFilled BY FinishRipens, FinishQuiet DEF FinishedStep, Ripens
<1>2. PICK p, s : p = th[r].prev /\ s = info[th[r].done].tag OBVIOUS
<1>3. /\ Objects' = Objects /\ info'[p].next_tag = s
      /\ \A o \in Objects : o # p => info'[o] = info[o]
  BY <1>2, SetNextLinked
<1>4. pc[r] = "set_next" /\ pc'[r] \in {"drain_test", "read"} /\ delivered' = delivered
  BY DEF SetNext, At, Return, Goto, TypeOK, env
<1>5. /\ \A t : r \notin Finishers(t)'
      /\ \A t : r \notin Pickers(t)'
      /\ \A t : r \notin Lookers(t)'
  BY <1>4 DEF Finishing, Finishers, Pickers, Lookers
<1>6. r \in Finishers(s) BY <1>2, <1>4 DEF Finishers, Finishing
<1> SUFFICES ASSUME NEW t \in Tags PROVE Stages(t)' /\ AtMostOne(Lookers(t))' BY DEF TokenInv
<1>7. /\ Finishers(t)' \subseteq Finishers(t) \ {r} /\ Pickers(t)' \subseteq Pickers(t)
      /\ \A u : Lookers(u)' \subseteq Lookers(u)
  BY <1>1, <1>5, StagesFollow
<1>8. DeliveredTags' = DeliveredTags /\ Passed(t)' = Passed(t) BY <1>4 DEF DeliveredTags, Passed
<1>9. Unread(t - 1)' => Unread(t - 1) BY <1>7, <1>8 DEF Unread
<1>10. ASSUME NEW o \in Waiting(t)', o # p PROVE o \in Waiting(t)
 <2>1. o \in Objects /\ info'[o] = info[o] BY <1>3, <1>10 DEF Waiting, Valid
 <2>2. QED BY <1>9, <1>10, <2>1 DEF Waiting, Valid
<1>11. p \in Waiting(t)' => t = s BY <1>3 DEF Waiting
<1>12. Stages(t) /\ AtMostOne(Lookers(t)) BY DEF TokenInv
<1>13. CASE t = s
 <2>1. Waiting(t)' \subseteq Waiting(t) \cup {p} BY <1>10
 <2>2. Sole(Finishers(t)', Waiting(t)', Pickers(t)', Passed(t)')
   BY <1>6, <1>7, <1>8, <1>12, <1>13, <2>1, SoleRead DEF Stages
 <2>3. QED BY <1>7, <1>12, <2>2 DEF Stages, AtMostOne
<1>14. CASE t # s
 <2>1. Waiting(t)' \subseteq Waiting(t) BY <1>10, <1>11, <1>14
 <2>2. Stages(t)' BY <1>7, <1>8, <1>12, <2>1, SoleShrinks DEF Stages
 <2>3. QED BY <1>7, <1>12, <2>2 DEF AtMostOne
<1>15. QED BY <1>13, <1>14

(* The right is taken by the only thread that reads that next_tag. *)
LEMMA LookupTokens ==
  ASSUME TypeOK, OrderInv, ~ub, SpentInv, TokenInv, NEW r \in Readers, NextLookup(r),
         pc'[r] = "next_completed"
  PROVE  TokenInv'
<1>1. Tagged /\ Others(r) /\ NoneFilled /\ LinksKept
  BY FinishRipens, FinishQuiet, FinishUntied, UntiedLinks DEF FinishedStep, Ripens, NextLookup, SetNext, At
<1>2. PICK d, s : d = th[r].done /\ s = info[d].tag OBVIOUS
<1>3. /\ pc[r] = "next_lookup" /\ info' = info /\ delivered' = delivered /\ th'[r].done = d
      /\ d \in Objects /\ info[d].completed /\ info[d].next_tag = s + 1 /\ s \in DeliveredTags
  BY <1>2, LookupFinds DEF Done
<1>4. d \in Valid /\ s \in Tags BY <1>2, <1>3, WholeFilled, ValidTag DEF Valid
<1>5. /\ \A t : r \notin Finishers(t)'
      /\ \A t : r \notin Lookers(t)'
      /\ \A t : r \in Pickers(t)' => s = t - 1
  BY <1>2, <1>3 DEF Finishing, Finishers, Pickers, Lookers
<1>6. r \in Lookers(s) BY <1>2, <1>3 DEF Lookers
<1>7. \A u : Lookers(u)' \subseteq Lookers(u) \ {r} BY <1>1, <1>5, StagesFollow
<1> SUFFICES ASSUME NEW t \in Tags PROVE Stages(t)' /\ AtMostOne(Lookers(t))' BY DEF TokenInv
<1>8. /\ Finishers(t)' \subseteq Finishers(t) /\ Pickers(t)' \subseteq Pickers(t) \cup {r}
  BY <1>1, <1>5, StagesFollow
<1>9. DeliveredTags' = DeliveredTags /\ Passed(t)' = Passed(t) BY <1>3 DEF DeliveredTags, Passed
<1>10. Unread(t - 1)' => Unread(t - 1) BY <1>7, <1>9 DEF Unread
<1>11. Waiting(t)' \subseteq Waiting(t) BY <1>1, <1>10, WaitingFollow
<1>12. Stages(t) /\ AtMostOne(Lookers(t)) BY DEF TokenInv
<1>13. CASE s = t - 1
 <2>1. d \in Waiting(t)
  <3>1. info[d].next_tag = t BY <1>3, <1>4, <1>13 DEF Tags
  <3>2. Unread(s) BY <1>6 DEF Unread
  <3>3. QED BY <1>2, <1>4, <1>13, <3>1, <3>2 DEF Waiting
 <2>2. ~Unread(s)'
  <3>1. AtMostOne(Lookers(s)) BY <1>4 DEF TokenInv
  <3>2. Lookers(s)' = {} BY <1>6, <1>7, <3>1 DEF AtMostOne
  <3>3. QED BY <1>3, <1>9, <3>2 DEF Unread
 <2>3. Waiting(t)' = {} BY <1>13, <2>2 DEF Waiting
 <2>4. AtMostOne({r}) BY DEF AtMostOne
 <2>5. Waiting(t)' \subseteq Waiting(t) \ {d} BY <2>3
 <2>6. Sole(Finishers(t)', Waiting(t)', Pickers(t)', Passed(t)')
   BY <1>8, <1>9, <1>12, <2>1, <2>4, <2>5, SoleParks DEF Stages
 <2>7. QED BY <1>7, <1>12, <2>6 DEF Stages, AtMostOne
<1>14. CASE s # t - 1
 <2>1. Pickers(t)' \subseteq Pickers(t) BY <1>5, <1>8, <1>14
 <2>2. Stages(t)' BY <1>8, <1>9, <1>11, <1>12, <2>1, SoleShrinks DEF Stages
 <2>3. QED BY <1>7, <1>12, <2>2 DEF AtMostOne
<1>15. QED BY <1>13, <1>14

LEMMA SolePicks ==
  ASSUME NEW W, NEW H, NEW P, NEW C, Sole(W, H, P, C),
         NEW W2, NEW H2, NEW P2, NEW C2, NEW x \in P,
         W2 \subseteq W \cup {x}, H2 \subseteq H, P2 \subseteq P \ {x}, C2 \subseteq C
  PROVE  Sole(W2, H2, P2, C2)
BY DEF Sole, AtMostOne

LEMMA SolePasses ==
  ASSUME NEW W, NEW H, NEW P, NEW C, Sole(W, H, P, C),
         NEW W2, NEW H2, NEW P2, NEW C2, NEW x \in W, NEW y,
         W2 \subseteq W \ {x}, H2 \subseteq H, P2 \subseteq P, C2 \subseteq C \cup {y}
  PROVE  Sole(W2, H2, P2, C2)
BY DEF Sole, AtMostOne

(* Who has read the next_tag finishes the buffer it found, if completed.    *)
LEMMA PickTokens ==
  ASSUME TypeOK, OrderInv, ~ub, SpentInv, TokenInv, NEW r \in Readers, NextCompleted(r),
         pc'[r] # "zombie"
  PROVE  TokenInv'
<1>1. Tagged /\ Others(r) /\ NoneFilled /\ LinksKept
  BY FinishRipens, FinishQuiet, FinishUntied, UntiedLinks DEF FinishedStep, Ripens, NextCompleted, SetNext, At
<1>2. PICK n, s : n = th[r].next /\ s = info[th[r].done].tag OBVIOUS
<1>3. pc[r] = "next_completed" /\ pc'[r] = "deliver" /\ info' = info /\ delivered' = delivered
  BY DEF NextCompleted, At, Goto, TypeOK, heap, env
<1>4. th'[r].done = n
 <2>1. PICK l : l = [th[r] EXCEPT !.calls = Append(@, th[r].done), !.done = th[r].next, !.next = Null] OBVIOUS
 <2>2. l.done = n BY <1>2, <2>1, ThreadType DEF LocalsType
 <2>3. Locals(r, l) BY <2>1 DEF NextCompleted, Goto, TypeOK
 <2>4. QED BY <2>2, <2>3 DEF Locals, TypeOK
<1>5. info[n].tag = s + 1 BY <1>2, <1>3, OrderParts DEF ThreadOK, FinishOK, HasTag
<1>6. s \in Int BY <1>2, <1>3, Sizes DEF SpentInv, Passing, Done, Objects, InfoType, Keys, Tags, NO_TAG
<1>7. /\ \A t \in Tags : r \in Finishers(t)' => r \in Pickers(t)
      /\ \A t : r \notin Pickers(t)'
      /\ \A t : r \notin Lookers(t)'
 <2>1. \A t \in Tags : t = s + 1 => s = t - 1 BY <1>6 DEF Tags
 <2>2. QED BY <1>2, <1>3, <1>4, <1>5, <2>1 DEF Finishing, Finishers, Pickers, Lookers
<1> SUFFICES ASSUME NEW t \in Tags PROVE Stages(t)' /\ AtMostOne(Lookers(t))' BY DEF TokenInv
<1>8. /\ Finishers(t)' \subseteq Finishers(t) \cup {r} /\ Pickers(t)' \subseteq Pickers(t) \ {r}
      /\ \A u : Lookers(u)' \subseteq Lookers(u)
  BY <1>1, <1>7, StagesFollow
<1>9. DeliveredTags' = DeliveredTags /\ Passed(t)' = Passed(t) BY <1>3 DEF DeliveredTags, Passed
<1>10. Unread(t - 1)' => Unread(t - 1) BY <1>8, <1>9 DEF Unread
<1>11. Waiting(t)' \subseteq Waiting(t) BY <1>1, <1>10, WaitingFollow
<1>12. Stages(t) /\ AtMostOne(Lookers(t)) BY DEF TokenInv
<1>13. CASE r \in Pickers(t)
 <2>1. Sole(Finishers(t)', Waiting(t)', Pickers(t)', Passed(t)')
   BY <1>8, <1>9, <1>11, <1>12, <1>13, SolePicks DEF Stages
 <2>2. QED BY <1>8, <1>12, <2>1 DEF Stages, AtMostOne
<1>14. CASE r \notin Pickers(t)
 <2>1. Finishers(t)' \subseteq Finishers(t) BY <1>7, <1>8, <1>14
 <2>2. Stages(t)' BY <1>8, <1>9, <1>11, <1>12, <2>1, SoleShrinks DEF Stages
 <2>3. QED BY <1>8, <1>12, <2>2 DEF AtMostOne
<1>15. QED BY <1>13, <1>14

(* The buffer has been passed; the thread goes on to read its next_tag, and *)
(* is the only one to: nobody had passed it before.                         *)
LEMMA HandlerTokens ==
  ASSUME TypeOK, OrderInv, ~ub, SpentInv, TokenInv, NEW r \in Readers, HandlerReturns(r)
  PROVE  TokenInv'
<1>1. Tagged /\ Others(r) /\ NoneFilled /\ LinksKept
  BY FinishRipens, FinishQuiet, FinishUntied, UntiedLinks DEF FinishedStep, Ripens, HandlerReturns, SetNext, At
<1>2. PICK s : s = info[th[r].done].tag OBVIOUS
<1>3. PICK d : delivered' = Append(delivered, d) /\ d.tag = s BY <1>2, HandlerDelivers
<1>4. /\ pc[r] = "in_handler" /\ pc'[r] = "next_lookup" /\ Done(r) /\ th' = th
      /\ DeliveredTags' = DeliveredTags \cup {s}
  BY <1>2, HandlerDelivers
<1>5. s \in Tags /\ info'[th'[r].done].tag = s BY <1>1, <1>2, <1>4, WholeFilled, ValidTag DEF Done, Tagged
<1>6. /\ \A t : r \notin Finishers(t)'
      /\ \A t : r \notin Pickers(t)'
      /\ \A t : r \in Lookers(t)' => t = s
      /\ r \in Finishers(s)
  BY <1>2, <1>4, <1>5 DEF Finishing, Finishers, Pickers, Lookers
<1>7. /\ Passed(s)' \subseteq Passed(s) \cup {Len(delivered) + 1}
      /\ \A t : t # s => Passed(t)' = Passed(t)
 <2>1. /\ Len(delivered) \in Nat /\ Len(delivered') = Len(delivered) + 1
       /\ delivered'[Len(delivered) + 1] = d
       /\ \A i \in 1 .. Len(delivered) : delivered'[i] = delivered[i]
   BY <1>3 DEF TypeOK
 <2>2. 1 .. Len(delivered) + 1 = (1 .. Len(delivered)) \cup {Len(delivered) + 1} BY <2>1
 <2>3. QED BY <1>3, <2>1, <2>2 DEF Passed
<1>8. Passed(s) = {} /\ Stages(s) BY <1>5, <1>6 DEF TokenInv, Stages, Sole
<1>9. s \notin DeliveredTags BY <1>8 DEF Passed, DeliveredTags
<1>10. Lookers(s) = {}
 <2>1. \A q \in Lookers(s) : s \in DeliveredTags BY OrderParts DEF Lookers, ThreadOK, FinishOK
 <2>2. QED BY <1>9, <2>1
<1>11. /\ Lookers(s)' \subseteq {r}
       /\ \A t : t # s => Lookers(t)' \subseteq Lookers(t)
  BY <1>1, <1>6, <1>10, StagesFollow
<1> SUFFICES ASSUME NEW t \in Tags PROVE Stages(t)' /\ AtMostOne(Lookers(t))' BY DEF TokenInv
<1>12. /\ Finishers(t)' \subseteq Finishers(t) \ {r} /\ Pickers(t)' \subseteq Pickers(t)
  BY <1>1, <1>6, StagesFollow
<1>13. Unread(t - 1)' => Unread(t - 1)
 <2>1. CASE t - 1 = s BY <1>9, <2>1 DEF Unread
 <2>2. CASE t - 1 # s BY <1>4, <1>11, <2>2 DEF Unread
 <2>3. QED BY <2>1, <2>2
<1>14. Waiting(t)' \subseteq Waiting(t) BY <1>1, <1>13, WaitingFollow
<1>15. Stages(t) /\ AtMostOne(Lookers(t)) BY DEF TokenInv
<1>16. AtMostOne(Lookers(t))'
 <2>1. CASE t = s BY <1>11, <2>1 DEF AtMostOne
 <2>2. CASE t # s BY <1>11, <1>15, <2>2 DEF AtMostOne
 <2>3. QED BY <2>1, <2>2
<1>17. CASE t = s
 <2>1. Passed(t)' \subseteq Passed(t) \cup {Len(delivered) + 1} BY <1>7, <1>17
 <2>2. Sole(Finishers(t)', Waiting(t)', Pickers(t)', Passed(t)')
   BY <1>6, <1>12, <1>14, <1>15, <1>17, <2>1, SolePasses DEF Stages
 <2>3. QED BY <1>16, <2>2 DEF Stages
<1>18. CASE t # s
 <2>1. Passed(t)' = Passed(t) BY <1>7, <1>18
 <2>2. Stages(t)' BY <1>12, <1>14, <1>15, <2>1, SoleShrinks DEF Stages
 <2>3. QED BY <1>16, <2>2
<1>19. QED BY <1>17, <1>18

LEMMA FinishTokens ==
  ASSUME TypeOK, OrderInv, ~ub, SpentInv, TokenInv, NEW r \in Readers, FinishedStep(r)
  PROVE  TokenInv'
<1>1. NextCompleted(r) => ~NextLookup(r) /\ ~SetNext(r) /\ ~HandlerReturns(r) /\ pc'[r] # "next_completed"
  BY DEF NextCompleted, NextLookup, SetNext, HandlerReturns, At, Goto, TypeOK
<1>2. pc'[r] = "next_completed" => NextLookup(r)
  BY <1>1 DEF FinishedStep, PrevLookup, PrevInsert, PrevPutBack, PrevSent, SetNext, FreePrev,
     CallHandler, HandlerReturns, DoneRemove, Zombie, Return, Goto, TypeOK
<1>3. QED BY <1>1, <1>2, SetNextTokens, HandlerTokens, LookupTokens, PickTokens, FinishQuietTokens

LEMMA OnlyFaultTokens ==
  ASSUME TokenInv, UNCHANGED <<info, pc, th, delivered>>
  PROVE  TokenInv'
<1>1. info' = info /\ pc' = pc /\ th' = th /\ delivered' = delivered OBVIOUS
<1>2. Valid' = Valid /\ DeliveredTags' = DeliveredTags /\ \A t : Lookers(t)' = Lookers(t)
  BY <1>1 DEF Valid, Objects, DeliveredTags, Lookers
<1>3. \A t : /\ Finishers(t)' = Finishers(t) /\ Waiting(t)' = Waiting(t)
             /\ Pickers(t)' = Pickers(t) /\ Passed(t)' = Passed(t)
  BY <1>1, <1>2 DEF Finishers, Waiting, Pickers, Passed, Unread
<1>4. \A t : (Stages(t)' <=> Stages(t)) /\ (AtMostOne(Lookers(t))' <=> AtMostOne(Lookers(t)))
  BY <1>2, <1>3 DEF Stages, AtMostOne
<1>5. QED BY <1>4 DEF TokenInv

LEMMA NextTokens ==
  ASSUME TypeOK, TypeOK', OrderInv, ~ub, ~ub', InitsInv, SpentInv, TokenInv, [Next]_vars
  PROVE  TokenInv'
<1>1. CASE UNCHANGED vars BY <1>1, OnlyFaultTokens DEF vars
<1>2. CASE Stopped BY <1>1, <1>2 DEF Stopped
<1>3. ASSUME NEW r \in Readers, ReaderStep(r) PROVE TokenInv'
 <2>1. CASE Read(r) \/ Close(r)
  <3>1. Elsewhere(r) /\ Untied /\ NoneFilled BY <2>1, SocketElsewhere, ReadQuiet, FinishQuiet
  <3>2. QED BY <3>1, UntiedLinks, ElsewhereTokens
 <2>2. CASE BadAccess(r) \/ DuplicateExit(r) BY <2>2, OnlyFaultTokens DEF BadAccess, DuplicateExit, heap
 <2>3. CASE InitBlockStep(r) /\ ~DuplicateExit(r)
  <3>1. Elsewhere(r) BY <2>3, InitElsewhere
  <3>2. CASE ~InitFill(r) /\ ~InitInsert(r) /\ ~InitAdopt(r)
   <4>1. Untied /\ NoneFilled BY <2>3, <3>2, InitUntied, InitQuiet DEF InitBlockStep
   <4>2. QED BY <3>1, <4>1, UntiedLinks, ElsewhereTokens
  <3>3. CASE InitFill(r) \/ InitInsert(r) \/ InitAdopt(r)
    BY <3>1, <3>3, FillLinks, InsertLinks, AdoptLinks, ElsewhereTokens
  <3>4. QED BY <3>2, <3>3
 <2>4. CASE DataBlockStep(r) /\ ~Count(r) /\ ~Complete(r)
  <3>1. Elsewhere(r) /\ Untied BY <2>4, DataElsewhere, DataUntied
  <3>2. NoneFilled BY <2>4, DataQuiet, WriteQuiet DEF DataBlockStep
  <3>3. QED BY <3>1, <3>2, UntiedLinks, ElsewhereTokens
 <2>5. CASE Count(r) BY <2>5, CountTokens
 <2>6. CASE Complete(r) BY <2>6, CompleteTokens
 <2>7. CASE FinishedStep(r) BY <2>7, FinishTokens
 <2>8. QED BY <1>3, <2>1, <2>2, <2>3, <2>4, <2>5, <2>6, <2>7 DEF ReaderStep
<1>4. QED BY <1>1, <1>2, <1>3 DEF Next

LEMMA InitTurnsInv ==
  ASSUME Init, InitsInOrder(conn)
  PROVE  TurnsInv
<1>1. Len(info) = 0 /\ Objects = {} /\ Valid = {} /\ DeliveredTags = {} /\ Len(delivered) = 0
  BY DEF Init, Objects, Valid, DeliveredTags
<1>2. \A r \in Readers : pc[r] = "read" BY DEF Init
<1>3. InitsInv
 <2>1. \A r, q \in Readers : Opens(r) /\ Opens(q) => r = q
  <3>1. ASSUME NEW r \in Readers, NEW q \in Readers, Opens(r), Opens(q) PROVE r = q
   <4>1. PICK i \in Nat, j \in Nat : Ahead(r, i) /\ Ahead(q, j) BY <1>2, <3>1 DEF Opens, Opening
   <4>2. QED BY <4>1 DEF Ahead, InitsInOrder
  <3>2. QED BY <3>1
 <2>2. \A r \in Readers : \A i, j \in Nat :
         Ahead(r, i) /\ Ahead(r, j) /\ i < j => conn[r][i].tag < conn[r][j].tag
   BY DEF Ahead, InitsInOrder
 <2>3. QED BY <1>1, <1>2, <2>1, <2>2 DEF InitsInv, InitSteps
<1>4. SpentInv BY <1>1, <1>2 DEF SpentInv, Passing, Finishing
<1>5. TokenInv
 <2>1. \A t : Finishers(t) = {} /\ Waiting(t) = {} /\ Pickers(t) = {} /\ Passed(t) = {} /\ Lookers(t) = {}
   BY <1>1, <1>2 DEF Finishers, Waiting, Pickers, Passed, Lookers, Finishing
 <2>2. QED BY <2>1 DEF TokenInv, Stages, Sole, AtMostOne
<1>6. QED BY <1>3, <1>4, <1>5 DEF TurnsInv

LEMMA NextTurnsInv ==
  ASSUME TypeOK, TypeOK', OrderInv, ub \/ TurnsInv, [Next]_vars
  PROVE  (ub \/ TurnsInv)'
<1>1. CASE ub' BY <1>1
<1>2. CASE ~ub'
 <2>1. ~ub /\ TurnsInv BY <1>2, UbStays
 <2>2. QED BY <1>2, <2>1, NextInits, NextSpent, NextTokens DEF TurnsInv
<1>3. QED BY <1>1, <1>2

LEMMA TurnsPassedOnce ==
  ASSUME TypeOK, OrderInv, ub \/ TurnsInv
  PROVE  PassedOnce
<1> SUFFICES ASSUME ~ub, TurnsInv, NEW r \in Readers, pc[r] = "in_handler"
             PROVE  /\ info[th[r].done].tag \notin DeliveredTags
                    /\ \A q \in Readers \ {r} : pc[q] = "in_handler" =>
                         info[th[q].done].tag # info[th[r].done].tag
  BY DEF PassedOnce
<1>1. PICK t : t = info[th[r].done].tag OBVIOUS
<1>2. Done(r) BY DEF TurnsInv, SpentInv, Passing, Finishing
<1>3. t \in Tags BY <1>1, <1>2, WholeFilled, ValidTag DEF Done
<1>4. r \in Finishers(t) BY <1>1 DEF Finishers, Finishing
<1>5. Passed(t) = {} /\ AtMostOne(Finishers(t)) BY <1>3, <1>4 DEF TurnsInv, TokenInv, Stages, Sole
<1>6. t \notin DeliveredTags BY <1>5 DEF Passed, DeliveredTags
<1>7. \A q \in Readers : pc[q] = "in_handler" /\ info[th[q].done].tag = t => q = r
  BY <1>4, <1>5 DEF Finishers, Finishing, AtMostOne
<1>8. QED BY <1>1, <1>6, <1>7

(* multiplex_reader.c:254-256, 261-316.  The thread that writes the last    *)
(* block and one that follows the next_tag of the buffer before may both    *)
(* come to pass a buffer.  If the init blocks arrive on one connection in   *)
(* the order of their tags, then, as long as no uninitialised buffer_kv has *)
(* been used, no thread enters the handler with a buffer that another has   *)
(* passed or is passing; the handler frees its bytes.                       *)
THEOREM BuffersPassedOnce ==
  ASSUME \A s \in Streams : InitsInOrder(s)
  PROVE  Spec => []PassedOnce
<1>1. Init => ub \/ TurnsInv BY InitTurnsInv DEF Init
<1>2. TypeOK /\ TypeOK' /\ OrderInv /\ (ub \/ TurnsInv) /\ [Next]_vars => (ub \/ TurnsInv)' BY NextTurnsInv
<1>3. TypeOK /\ OrderInv /\ (ub \/ TurnsInv) => PassedOnce BY TurnsPassedOnce
<1>4. QED BY <1>1, <1>2, <1>3, TypeCorrect, OrderPreserved, PTL DEF Spec

(* What is_empty saw is there when dequeue comes: QueueInv, under TurnsInv.  *)

LEMMA OwnerObject ==
  ASSUME TypeOK, NEW r \in Readers, th[r].new_buf # Null
  PROVE  Owner(r) \in Objects
BY Pointers DEF Owner

LEMMA QueueStep ==
  ASSUME TypeOK, QueueInv, NEW r \in Readers, Others(r), Tagged, DueLess, NothingOwed,
         Carried(r) \/ (pc[r] \in Opening /\ (Draws(r)' => Owner(r)' \in Owed) /\ Past(r)'),
         \A o \in Owed : o \in Owed' => info'[o].waiting_queue = info[o].waiting_queue,
         th[r].new_buf # Null \/ Fuller, Finds(r)',
         pc'[r] = "attach" => th'[r].buffer \in Objects \ Owed
  PROVE  QueueInv'
<1> USE DEF QueueInv
<1>1. \A s \in Readers \ {r} : /\ pc'[s] = pc[s] /\ th'[s] = th[s] /\ Owner(s)' = Owner(s)
                               /\ Draws(s)' <=> Draws(s)
  BY DEF Others, Owner, Draws
<1>2. \A s \in Readers : Opener(s)' => Opener(s) BY <1>1 DEF DueLess, Opener, Carried, Opens
<1>3. \A o \in Objects : o \in Objects' /\ info'[o].tag = info[o].tag BY ObjectKept
<1>4. \A s \in Readers : Draws(s)' => Owner(s)' \in Owed BY <1>1, OwnerObject DEF Owed, Draws, Carried, Owner
<1>5. \A o \in Owed' : o \in Owed \/ (o \in Objects' \ Objects /\ info'[o].tag \in Due')
 <2>1. Owed \subseteq Objects BY DEF Owed
 <2>2. QED BY <1>3, <1>4, <2>1 DEF Owed, DueLess
<1>6. \A o \in Owed' : Stowed(o)'
 <2> SUFFICES ASSUME NEW o \in Owed' PROVE Stowed(o)' OBVIOUS
 <2>1. CASE o \in Owed BY <1>1, <2>1 DEF Stowed
 <2>2. CASE o \in Objects' \ Objects /\ info'[o].tag \in Due'
  <3>1. \A s \in Readers : th[s].buffer # o BY <2>2, Pointers
  <3>2. QED BY <1>1, <2>2, <3>1 DEF Stowed, NothingOwed
 <2>3. QED BY <1>5, <2>1, <2>2
<1>7. \A s \in Readers \ {r} : Finds(s)'
 <2> SUFFICES ASSUME NEW s \in Readers \ {r}, pc[s] = "drain_take"
              PROVE  /\ Owner(s) \in Owed' /\ th[s].new_buf # Null
                     /\ queue'[info'[Owner(s)].waiting_queue].blocks # <<>>
   BY <1>1 DEF Finds
 <2>1. PICK o, q : o = Owner(s) /\ q = info[o].waiting_queue OBVIOUS
 <2>2. o \in Owed /\ th[s].new_buf # Null /\ queue[q].blocks # <<>> /\ q # Null BY <2>1 DEF Finds, Stowed
 <2>3. o \in Objects /\ q \in 1 .. Len(queue) BY <2>1, <2>2, Sizes DEF Owed, Objects, InfoType, Null
 <2>4. o \in Owed' BY <1>1, <1>3, <2>1, <2>2, <2>3 DEF Owed, Draws
 <2>5. Fuller BY <2>2 DEF Opener
 <2>6. QED BY <2>1, <2>2, <2>3, <2>4, <2>5 DEF Fuller
<1>8. \A s \in Readers : Past(s)'
 <2>1. \A s \in Readers \ {r} : Past(s)' BY <1>1, <1>3, OwnerObject DEF Past, DueLess
 <2>2. Past(r)' BY <1>3, OwnerObject DEF Past, DueLess, Carried, Owner
 <2>3. QED BY <2>1, <2>2
<1>9. QED BY <1>2, <1>6, <1>7, <1>8

LEMMA DueShrinks ==
  ASSUME TypeOK, NEW r \in Readers, Others(r), Reads,
         pc'[r] \in Opening => pc[r] \in Opening,
         pc'[r] \in InitSteps => pc[r] \in InitSteps /\ th'[r].block = th[r].block
  PROVE  DueLess
<1>1. \A s \in Readers : \A i \in 1 .. Len(conn'[s]) : conn'[s] = conn[s] BY DEF Reads
<1>2. \A s \in Readers : \A i : Ahead(s, i)' => Ahead(s, i) /\ conn'[s] = conn[s] BY <1>1 DEF Ahead
<1>3. QED BY <1>1, <1>2 DEF DueLess, Due, Opens, Others

(* The tag of the init block a thread has just opened is due no more. *)
LEMMA TagOpened ==
  ASSUME TypeOK, InitsInv, NEW r \in Readers, Others(r), conn' = conn,
         pc[r] \in InitSteps, pc'[r] \notin InitSteps
  PROVE  th[r].block.tag \notin Due'
<1>1. \A s \in Readers : Opens(s) => s = r BY DEF InitsInv, Opens, Opening, InitSteps
<1>2. \A s \in Readers, i \in Nat : Ahead(s, i) => s = r /\ th[r].block.tag < conn[r][i].tag
  BY <1>1 DEF InitsInv, Opens
<1>0. InitSteps \subseteq Opening BY DEF InitSteps, Opening
<1>3. \A s \in Readers : pc'[s] \notin InitSteps BY <1>0, <1>1 DEF Others, Opens
<1>4. th[r].block.tag \in Int BY BlockType DEF Tags
<1>5. ASSUME NEW s \in Readers, NEW i \in 1 .. Len(conn[s]), Ahead(s, i), conn[s][i].tag = th[r].block.tag
      PROVE  FALSE
  BY <1>2, <1>4, <1>5
<1>6. QED BY <1>3, <1>5 DEF Due, Ahead

(* The steps of a thread that is not at an init block. *)
LEMMA FrameCarried ==
  ASSUME TypeOK, NEW r \in Readers, Read(r) \/ Close(r) \/ DataBlockStep(r) \/ FinishedStep(r)
  PROVE  Carried(r)
<1>1. "new_buf" \in DOMAIN th[r] /\ "repeat" \in DOMAIN th[r] BY ThreadType DEF LocalsType
<1>2. pc[r] \notin {"drain_clear", "free_repeat", "init_valid", "init_fill"}
  BY DEF Read, Close, DataBlockStep, DataLookup, DataInsert, PutBack, CheckValid, Park, Attach,
     Enqueue, Copy, Count, Complete, FinishedStep, PrevLookup, PrevInsert, PrevPutBack, PrevSent,
     SetNext, FreePrev, CallHandler, HandlerReturns, NextLookup, NextCompleted, DoneRemove, Zombie, At
<1>3. CASE Return(r)
 <2>1. Locals(r, Fresh(th[r])) BY <1>3 DEF Return
 <2>2. th'[r] = Fresh(th[r]) BY <2>1 DEF Locals, TypeOK
 <2>3. QED BY <1>2, <2>2, FreshFields DEF Carried
<1>4. CASE ~Return(r)
 <2> DEFINE Same(l) == l.new_buf = th[r].new_buf /\ l.repeat = th[r].repeat
 <2>0. ASSUME NEW l, Same(l), Locals(r, l) PROVE Same(th'[r]) BY <2>0 DEF Locals, TypeOK
 <2>1. CASE DataBlockStep(r)
   BY <1>1, <1>2, <1>4, <2>0, <2>1 DEF DataBlockStep, DataLookup, DataInsert, PutBack, CheckValid, Park,
      Attach, Enqueue, Copy, Count, Complete, Carried
 <2>2. CASE FinishedStep(r)
   BY <1>1, <1>2, <1>4, <2>0, <2>2 DEF FinishedStep, PrevLookup, PrevInsert, PrevPutBack, PrevSent, SetNext,
      FreePrev, CallHandler, HandlerReturns, NextLookup, NextCompleted, DoneRemove, Zombie, Carried
 <2>3. CASE Read(r) \/ Close(r) BY <1>1, <1>2, <2>0, <2>3 DEF Read, Close, Carried
 <2>4. QED BY <2>1, <2>2, <2>3
<1>5. QED BY <1>3, <1>4

LEMMA QueueFields ==
  ASSUME TypeOK
  PROVE  /\ DOMAIN queue = 1 .. Len(queue)
         /\ \A q \in 1 .. Len(queue) : "blocks" \in DOMAIN queue[q] /\ queue[q].blocks \in Seq(DataBlocks)
BY Sizes DEF TypeOK, QueueType

(* A write to an object o that leaves its queue alone. *)
LEMMA QueuesKept ==
  ASSUME TypeOK, NEW o, NEW v,
         \/ info' = info
         \/ info' = [info EXCEPT ![o] = Filled(@, v)]
         \/ info' = [info EXCEPT ![o].buffer = v]
         \/ info' = [info EXCEPT ![o].next_tag = v]
         \/ info' = [info EXCEPT ![o].written = v]
         \/ info' = [info EXCEPT ![o].n_written = v]
         \/ info' = [info EXCEPT ![o].completed = v]
         \/ info' = [info EXCEPT ![o].sent = v]
         \/ info' = [info EXCEPT ![o].freed = v]
  PROVE  NothingOwed /\ QueuesSame
<1>1. o \in Objects => "waiting_queue" \in DOMAIN info[o] BY Sizes DEF Objects, InfoType
<1>2. info' = info \/ \E rec : /\ info' = [info EXCEPT ![o] = rec]
                               /\ o \in Objects => rec.waiting_queue = info[o].waiting_queue
  BY <1>1 DEF Filled
<1>3. Len(info') = Len(info) /\ \A x \in Objects : info'[x].waiting_queue = info[x].waiting_queue
 <2>1. ASSUME NEW rec, info' = [info EXCEPT ![o] = rec]
       PROVE  Len(info') = Len(info) /\ \A x \in Objects : info'[x] = IF x = o THEN rec ELSE info[x]
   BY <2>1, Sizes DEF Objects, TypeOK
 <2>2. QED BY <1>2, <2>1
<1>4. QED BY <1>3 DEF NothingOwed, QueuesSame, Objects

LEMMA QueueSet ==
  ASSUME TypeOK, NEW o, NEW v, info' = [info EXCEPT ![o].waiting_queue = v]
  PROVE  NothingOwed /\ \A x \in Objects \ {o} : info'[x].waiting_queue = info[x].waiting_queue
<1>1. Len(info') = Len(info) /\ \A x \in Objects \ {o} : info'[x] = info[x] BY Sizes DEF Objects, TypeOK
<1>2. QED BY <1>1 DEF NothingOwed, Objects

LEMMA QueueFuller ==
  ASSUME TypeOK, NEW q, NEW b, NEW p, NEW f,
         LET written == [queue EXCEPT ![q].blocks = Append(@, b)] IN
           \/ queue' = queue \/ queue' = Append(queue, p) \/ queue' = [queue EXCEPT ![f].freed = TRUE]
           \/ queue' = written \/ queue' = [written EXCEPT ![f].freed = TRUE]
  PROVE  Fuller
<1>1. \A i \in 1 .. Len(queue) : Append(queue[i].blocks, b) # <<>> BY QueueFields
<1>2. QED BY <1>1, QueueFields DEF Fuller

LEMMA DataQueues ==
  ASSUME TypeOK, QueueInv, NEW r \in Readers, DataBlockStep(r)
  PROVE  QueueInv'
<1>1. Tagged /\ Others(r) BY DataQuiet, CompleteQuiet, WriteQuiet, TalliedTags DEF DataBlockStep, Aside
<1>2. /\ conn' = conn /\ pc'[r] \notin Opening \cup {"drain_take"}
      /\ pc'[r] = "attach" => Park(r) /\ info[th[r].buffer].waiting_queue = Null
  BY DEF DataBlockStep, DataLookup, DataInsert, PutBack, CheckValid, Park, Attach, Enqueue,
     Copy, Count, Complete, Return, Goto, TypeOK, env, Opening
<1>3. DueLess /\ Carried(r) /\ Finds(r)'
 <2>1. InitSteps \subseteq Opening BY DEF InitSteps, Opening
 <2>2. QED BY <1>1, <1>2, <2>1, DueShrinks, FrameCarried DEF Reads, Finds
<1>4. pc'[r] = "attach" => th'[r].buffer \in Objects \ Owed
 <2>1. Park(r) => th[r].buffer \in Objects /\ th'[r] = th[r] BY Pointers DEF Park, At, Safe, InfoUsed
 <2>2. QED BY <1>2, <2>1 DEF QueueInv, Stowed
<1>5. Fuller
  BY QueueFuller DEF DataBlockStep, DataLookup, DataInsert, PutBack, CheckValid, Park, Attach, Enqueue,
     Copy, Count, Complete, FreeLocalQueue, heap
<1>6. CASE DataInsert(r)
 <2>1. PICK rec : rec = Dummy(th[r].block.tag, NO_TAG, Len(queue) + 1) OBVIOUS
 <2>2. rec.waiting_queue # Null BY <2>1, Sizes DEF Dummy, Calloc, Null
 <2>3. info' = Append(info, rec) BY <1>6, <2>1 DEF DataInsert
 <2>4. NothingOwed /\ \A o \in Objects : info'[o] = info[o]
   BY <2>2, <2>3, Sizes DEF NothingOwed, Objects, TypeOK
 <2>5. QED BY <1>1, <1>3, <1>4, <1>5, <2>4, QueueStep DEF Owed
<1>7. CASE ~DataInsert(r)
 <2>1. NothingOwed /\ \A o \in Owed : info'[o].waiting_queue = info[o].waiting_queue
  <3>1. CASE Attach(r)
   <4>1. th[r].buffer \notin Owed BY <3>1 DEF Attach, At, QueueInv, Stowed
   <4>2. PICK o, v : info' = [info EXCEPT ![o].waiting_queue = v] /\ o = th[r].buffer BY <3>1 DEF Attach
   <4>3. Owed \subseteq Objects \ {o} BY <4>1, <4>2 DEF Owed
   <4>4. QED BY <4>2, <4>3, QueueSet
  <3>2. CASE PutBack(r) \/ Copy(r) \/ Count(r) \/ Complete(r)
    BY <3>2, QueuesKept DEF PutBack, Copy, Count, Complete, Owed, QueuesSame
  <3>3. CASE DataLookup(r) \/ CheckValid(r) \/ Park(r) \/ Enqueue(r)
    BY <3>3, QueuesKept DEF DataLookup, CheckValid, Park, Enqueue, heap, Owed, QueuesSame
  <3>4. QED BY <1>7, <3>1, <3>2, <3>3 DEF DataBlockStep
 <2>2. QED BY <1>1, <1>3, <1>4, <1>5, <2>1, QueueStep
<1>8. QED BY <1>6, <1>7

LEMMA FinishQueues ==
  ASSUME TypeOK, OrderInv, ~ub, InitsInv, QueueInv, NEW r \in Readers, Close(r) \/ FinishedStep(r)
  PROVE  QueueInv'
<1>1. Tagged /\ Others(r) /\ pc'[r] \notin Opening \cup {"attach", "drain_take"}
  BY FinishQuiet, TalliedTags DEF Aside, Opening
<1>2. DueLess /\ Carried(r) /\ Finds(r)'
 <2>1. InitSteps \subseteq Opening BY DEF InitSteps, Opening
 <2>2. QED BY <1>1, <2>1, FinishReads, DueShrinks, FrameCarried DEF Finds
<1>3. Fuller
  BY QueueFuller DEF FinishedStep, PrevLookup, PrevInsert, PrevPutBack, PrevSent, SetNext, FreePrev,
     CallHandler, HandlerReturns, NextLookup, NextCompleted, DoneRemove, Zombie, Close, heap
<1>4. NothingOwed /\ QueuesSame
 <2>1. CASE PrevInsert(r)
  <3>1. PICK d, p, rec : d = th[r].done /\ p = info[d].prev_tag /\ rec = Dummy(p, info[d].tag, Null) OBVIOUS
  <3>6. d \in Objects /\ info[d].valid
    BY <2>1, <3>1, OrderParts, Pointers DEF PrevInsert, At, ThreadOK, FinishOK, Finishing, Objects
  <3>2. d \in Valid /\ p = info[d].tag - 1 /\ info[d].tag \in Int
    BY <3>1, <3>6, OrderParts, Sizes DEF TagsOK, Valid, Objects, InfoType, Keys, Tags, NO_TAG
  <3>3. p \notin Due BY <3>2 DEF Due, InitsInv
  <3>4. info' = Append(info, rec) /\ rec.tag = p BY <2>1, <3>1 DEF PrevInsert, Dummy, Calloc
  <3>5. QED BY <1>2, <3>3, <3>4, Sizes DEF NothingOwed, QueuesSame, Objects, TypeOK, DueLess
 <2>2. CASE PrevPutBack(r) \/ SetNext(r) \/ FreePrev(r) \/ Zombie(r) \/ HandlerReturns(r)
   BY <2>2, QueuesKept DEF PrevPutBack, SetNext, FreePrev, Zombie, HandlerReturns
 <2>3. CASE info' = info BY <2>3, QueuesKept
 <2>4. QED BY <2>1, <2>2, <2>3 DEF FinishedStep, PrevLookup, PrevSent, CallHandler, NextLookup,
      NextCompleted, DoneRemove, Close, heap, env
<1>5. QED BY <1>1, <1>2, <1>3, <1>4, QueueStep DEF Owed, QueuesSame

LEMMA ReadQueues ==
  ASSUME TypeOK, QueueInv, NEW r \in Readers, Read(r)
  PROVE  QueueInv'
<1>1. /\ Others(r) /\ Tagged /\ UNCHANGED <<info, queue>>
      /\ pc'[r] \in {"init_lookup", "data_lookup"}
  BY ReadQuiet, TalliedTags DEF Aside, Read, heap
<1>2. Due' \subseteq Due
 <2> SUFFICES ASSUME NEW t \in Due', NEW s \in Readers,
                     \/ pc'[s] \in InitSteps /\ th'[s].block.tag = t
                     \/ \E i \in 1 .. Len(conn'[s]) : Ahead(s, i)' /\ conn'[s][i].tag = t
              PROVE  t \in Due
   BY DEF Due
 <2>1. \A i : Ahead(s, i)' => i \in Nat BY DEF Ahead
 <2>2. CASE pc'[s] \in InitSteps /\ th'[s].block.tag = t
   BY <1>1, <2>2, ReadAhead DEF Due, Others, Ahead, InitSteps
 <2>3. CASE \E i \in 1 .. Len(conn'[s]) : Ahead(s, i)' /\ conn'[s][i].tag = t
  <3>1. \E j : Ahead(s, j) /\ conn[s][j].tag = t BY <2>1, <2>3, ReadAhead
  <3>2. QED BY <3>1 DEF Due, Ahead
 <2>4. QED BY <2>2, <2>3
<1>3. DueLess BY <1>2, ReadAhead DEF DueLess
<1>4. NothingOwed /\ Fuller /\ Finds(r)' BY <1>1 DEF NothingOwed, Fuller, Finds, Objects
<1>5. QED BY <1>1, <1>3, <1>4, FrameCarried, QueueStep

LEMMA OpenQueues ==
  ASSUME TypeOK, OrderInv, ~ub, InitsInv, QueueInv, NEW r \in Readers,
         InitLookup(r) \/ InitNotValid(r) \/ InitFill(r) \/ InitInsert(r)
  PROVE  QueueInv'
<1>1. Tagged /\ Others(r) /\ conn' = conn /\ queue' = queue BY InitQuiet, FillQuiet, InsertQuiet, TalliedTags
     DEF Aside, InitLookup, InitNotValid, InitFill, InitInsert, env, heap
<1>2. PICK t : t = th[r].block.tag OBVIOUS
<1>3. pc[r] \in InitSteps /\ t \in Due /\ t \in Tags /\ Fuller
 <2>1. pc[r] \in InitSteps BY DEF InitLookup, InitNotValid, InitFill, InitInsert, At, InitSteps
 <2>2. QED BY <1>1, <1>2, <2>1, BlockType DEF Due, Fuller
<1>4. pc'[r] \notin {"drain_take", "attach"} /\ (pc'[r] \in InitSteps => th'[r].block = th[r].block)
 <2>1. th[r].block = [th[r] EXCEPT !.new_buf = table[t]].block BY ThreadType DEF LocalsType
 <2>2. QED BY <1>2, <2>1 DEF InitLookup, InitNotValid, InitFill, InitInsert, Return, Goto, Locals, TypeOK, InitSteps
<1>5. DueLess /\ Finds(r)'
 <2>1. InitSteps \subseteq Opening BY DEF InitSteps, Opening
 <2>2. QED BY <1>1, <1>3, <1>4, <2>1, DueShrinks DEF Reads, Finds
<1>6. ThreadOK(r) /\ TableOK(table) BY OrderParts, TagsParts
<1>7. table[t] # Null => table[t] \in Objects /\ info[table[t]].tag = t /\ table[t] \in Owed
  BY <1>3, <1>6 DEF TableOK, Owed
<1>8. CASE InitLookup(r)
 <2>1. NothingOwed /\ QueuesSame BY <1>8, QueuesKept DEF InitLookup, heap
 <2>2. th[r].repeat = Null BY <1>6, <1>8 DEF ThreadOK, InitOK, HasTag, InitLookup, At
 <2>3. th'[r] = [th[r] EXCEPT !.new_buf = table[t]] BY <1>2, <1>8, Step DEF InitLookup
 <2>4. th'[r].new_buf = table[t] /\ th'[r].repeat = Null BY <2>2, <2>3, ThreadType DEF LocalsType
 <2>5. table[t] # Null => pc'[r] = "init_valid" BY <1>2, <1>8 DEF InitLookup, Goto, TypeOK
 <2>6. (Draws(r)' => Owner(r)' \in Owed) /\ Past(r)' BY <1>7, <2>4, <2>5 DEF Draws, Owner, Past
 <2>7. QED BY <1>1, <1>3, <1>4, <1>5, <2>1, <2>6, QueueStep DEF Owed, QueuesSame, InitSteps, Opening
<1>9. CASE InitNotValid(r)
 <2>1. NothingOwed /\ QueuesSame BY <1>9, QueuesKept DEF InitNotValid, heap
 <2>2. Carried(r) BY <1>9 DEF InitNotValid, Carried, At, Goto, TypeOK
 <2>3. QED BY <1>1, <1>3, <1>4, <1>5, <2>1, <2>2, QueueStep DEF Owed, QueuesSame
<1>10. CASE InitFill(r)
 <2>1. NothingOwed /\ QueuesSame BY <1>10, QueuesKept DEF InitFill
 <2>2. pc[r] = "init_fill" /\ pc'[r] = "drain" /\ th' = th BY <1>10 DEF InitFill, At, Goto, TypeOK
 <2>3. t \notin Due' BY <1>1, <1>2, <2>2, TagOpened DEF InitSteps
 <2>4. th[r].new_buf # Null /\ info[Owner(r)].tag = t /\ Owner(r) \in Objects
   BY <1>2, <1>6, <2>2, OwnerObject DEF ThreadOK, InitOK, HasTag, Owner
 <2>5. info'[Owner(r)].tag = t /\ Owner(r)' = Owner(r) BY <1>1, <2>2, <2>4 DEF Tagged, Owner
 <2>6. Past(r)' BY <2>3, <2>5 DEF Past
 <2>7. Draws(r)' => Owner(r)' \in Owed BY <2>2, <2>4, <2>5 DEF Draws, Owed
 <2>8. QED BY <1>1, <1>3, <1>4, <1>5, <2>1, <2>2, <2>6, <2>7, QueueStep DEF Owed, QueuesSame, Opening
<1>11. CASE InitInsert(r)
 <2>1. PICK rec : rec = Filled([Calloc EXCEPT !.next_tag = NO_TAG], th[r].block) OBVIOUS
 <2>2. info' = Append(info, rec) /\ rec.tag = t BY <1>2, <1>11, <2>1 DEF InitInsert, Filled, Calloc
 <2>3. pc[r] = "init_insert" /\ pc'[r] \notin InitSteps BY <1>11, InsertQuiet DEF InitInsert, At, InitSteps
 <2>4. t \notin Due' BY <1>1, <1>2, <2>3, TagOpened DEF InitSteps
 <2>5. NothingOwed /\ QueuesSame BY <2>2, <2>4, Sizes DEF NothingOwed, QueuesSame, Objects, TypeOK
 <2>6. CASE Return(r)
  <3>1. th'[r] = Fresh(th[r]) BY <2>6, Step DEF Return
  <3>2. Carried(r) BY <2>3, <3>1, FreshFields DEF Carried
  <3>3. QED BY <1>1, <1>3, <1>4, <1>5, <2>5, <3>2, QueueStep DEF Owed, QueuesSame
 <2>7. CASE ~Return(r)
  <3>1. PICK n : n = Len(info) + 1 OBVIOUS
  <3>2. table[t] # Null /\ th'[r] = [th[r] EXCEPT !.new_buf = n, !.repeat = table[t]]
    BY <1>2, <1>11, <2>7, <3>1, Step DEF InitInsert
  <3>3. Owner(r)' = table[t] BY <3>2, ThreadType DEF Owner, LocalsType
  <3>4. info'[table[t]].tag = t BY <1>1, <1>7, <3>2 DEF Tagged
  <3>5. Past(r)' BY <2>4, <3>3, <3>4 DEF Past
  <3>6. Draws(r)' => Owner(r)' \in Owed BY <1>7, <3>2, <3>3
  <3>7. QED BY <1>1, <1>3, <1>4, <1>5, <2>3, <2>5, <3>5, <3>6, QueueStep DEF Owed, QueuesSame, Opening
 <2>8. QED BY <2>6, <2>7
<1>12. QED BY <1>8, <1>9, <1>10, <1>11

LEMMA DrainQueues ==
  ASSUME TypeOK, OrderInv, ~ub, QueueInv, NEW r \in Readers,
         \/ InitAdopt(r) \/ DrainNothing(r) \/ DrainLoop(r) \/ DrainMore(r) \/ DrainEmpty(r)
         \/ DrainBlock(r) \/ DrainFree(r) \/ DrainClear(r) \/ FreeRepeat(r)
  PROVE  QueueInv'
<1>1. /\ Tagged /\ Others(r)
      /\ pc'[r] \in Draining \cup {"init_valid", "init_insert", "init_fill", "free_repeat", "read", "data_lookup"}
  BY InitQuiet, TalliedTags DEF Aside
<1>2. /\ conn' = conn /\ pc'[r] \notin Opening
      /\ pc'[r] # "attach" /\ (pc'[r] = "drain_take" => DrainMore(r))
  BY DEF InitAdopt, DrainNothing, DrainLoop, DrainMore, DrainEmpty, DrainBlock, DrainFree, DrainClear,
     FreeRepeat, DrainDone, At, Goto, TypeOK, env, Opening
<1>3. DueLess
 <2>1. InitSteps \subseteq Opening BY DEF InitSteps, Opening
 <2>2. QED BY <1>1, <1>2, <2>1, DueShrinks DEF Reads
<1>4. Carried(r)
 <2>1. "new_buf" \in DOMAIN th[r] /\ "repeat" \in DOMAIN th[r] BY ThreadType DEF LocalsType
 <2>2. \A l : Locals(r, l) => th'[r] = l BY DEF Locals, TypeOK
 <2>3. CASE InitAdopt(r) \/ DrainMore(r) \/ DrainEmpty(r) \/ DrainFree(r)
   BY <2>3 DEF InitAdopt, DrainMore, DrainEmpty, DrainFree, At, Carried
 <2>4. CASE DrainLoop(r) \/ DrainBlock(r) BY <2>1, <2>2, <2>4 DEF DrainLoop, DrainBlock, At, Carried
 <2>5. CASE DrainNothing(r) \/ DrainClear(r)
   BY <2>1, <2>2, <2>5 DEF DrainNothing, DrainClear, DrainDone, At, Carried, Goto, TypeOK, Fresh
 <2>6. CASE FreeRepeat(r) BY <2>1, <2>2, <2>6 DEF FreeRepeat, Carried, Fresh
 <2>7. QED BY <2>3, <2>4, <2>5, <2>6
<1>5. th[r].new_buf # Null
 <2>1. ThreadOK(r) BY OrderParts
 <2>2. CASE InitAdopt(r) \/ FreeRepeat(r)
   BY <2>1, <2>2 DEF ThreadOK, InitOK, HasTag, InitAdopt, FreeRepeat, At, Safe, InfoUsed
 <2>3. CASE ~(InitAdopt(r) \/ FreeRepeat(r))
  <3>1. Owner(r) # Null
    BY <2>3 DEF DrainNothing, DrainLoop, DrainMore, DrainEmpty, DrainBlock, DrainFree, DrainClear, At, Safe, InfoUsed
  <3>2. QED BY <2>1, <3>1 DEF ThreadOK, InitOK, HasTag, Owner
 <2>4. QED BY <2>2, <2>3
<1>6. Finds(r)'
 <2>1. CASE DrainMore(r)
  <3>1. UNCHANGED <<info, queue, th>> /\ pc[r] = "drain_test" /\ pc'[r] = "drain_take"
    BY <2>1 DEF DrainMore, heap, At, Goto, TypeOK
  <3>2. queue[info[Owner(r)].waiting_queue].blocks # <<>> BY <2>1 DEF DrainMore
  <3>3. Owner(r)' = Owner(r) /\ Owner(r) \in Owed' BY <1>5, <3>1, OwnerObject DEF Owner, Owed, Draws, Objects
  <3>4. QED BY <1>5, <3>1, <3>2, <3>3 DEF Finds
 <2>2. QED BY <1>2, <2>1 DEF Finds
<1>7. NothingOwed /\ \A o \in Owed : o \in Owed' => info'[o].waiting_queue = info[o].waiting_queue
 <2>1. CASE DrainClear(r)
  <3>1. PICK x : x = Owner(r) OBVIOUS
  <3>2. info' = [info EXCEPT ![x].waiting_queue = Null] /\ pc[r] = "drain_clear"
    BY <2>1, <3>1 DEF DrainClear, At
  <3>3. x \in Objects /\ info[x].tag \notin Due BY <1>5, <3>1, <3>2, OwnerObject DEF QueueInv, Past
  <3>4. info'[x].tag \notin Due' BY <1>1, <1>3, <3>3 DEF Tagged, DueLess
  <3>5. \A s \in Readers : ~Draws(s)'
   <4>1. ~Draws(r)' BY <1>4, <3>2 DEF Draws, Carried
   <4>2. \A s \in Readers \ {r} : th[s].new_buf = Null BY <1>5 DEF QueueInv, Opener
   <4>3. QED BY <1>1, <4>1, <4>2 DEF Others, Draws
  <3>6. x \notin Owed' BY <3>4, <3>5 DEF Owed
  <3>7. QED BY <3>2, <3>6, QueueSet DEF Owed
 <2>2. CASE InitAdopt(r) \/ FreeRepeat(r) BY <2>2, QueuesKept DEF InitAdopt, FreeRepeat, QueuesSame, Owed
 <2>3. CASE info' = info BY <2>3, QueuesKept DEF QueuesSame, Owed
 <2>4. QED BY <2>1, <2>2, <2>3 DEF DrainNothing, DrainLoop, DrainMore, DrainEmpty, DrainBlock, DrainFree, heap
<1>8. QED BY <1>1, <1>2, <1>3, <1>4, <1>5, <1>6, <1>7, QueueStep

LEMMA NextQueues ==
  ASSUME TypeOK, OrderInv, ~ub, InitsInv, QueueInv, [Next]_vars
  PROVE  QueueInv'
<1>1. ASSUME UNCHANGED <<conn, info, queue, pc, th>> PROVE QueueInv'
 <2>1. /\ Due' = Due /\ Objects' = Objects
       /\ \A r : Opens(r)' = Opens(r) /\ Draws(r)' = Draws(r) /\ Owner(r)' = Owner(r)
   BY <1>1 DEF Due, Opens, Ahead, Draws, Owner, Objects
 <2>2. Owed' = Owed BY <1>1, <2>1 DEF Owed
 <2>3. QED BY <1>1, <2>1, <2>2 DEF QueueInv, Opener, Stowed, Finds, Past
<1>2. ASSUME NEW r \in Readers, ReaderStep(r) PROVE QueueInv'
 <2>1. CASE Read(r) BY <2>1, ReadQueues
 <2>2. CASE BadAccess(r) \/ DuplicateExit(r) BY <1>1, <2>2 DEF BadAccess, DuplicateExit, heap
 <2>3. CASE DataBlockStep(r) BY <2>3, DataQueues
 <2>4. CASE Close(r) \/ FinishedStep(r) BY <2>4, FinishQueues
 <2>5. CASE InitLookup(r) \/ InitNotValid(r) \/ InitFill(r) \/ InitInsert(r) BY <2>5, OpenQueues
 <2>6. CASE \/ InitAdopt(r) \/ DrainNothing(r) \/ DrainLoop(r) \/ DrainMore(r) \/ DrainEmpty(r)
            \/ DrainBlock(r) \/ DrainFree(r) \/ DrainClear(r) \/ FreeRepeat(r)
   BY <2>6, DrainQueues
 <2>7. ~DrainStale(r) BY DEF DrainStale, At, QueueInv, Finds
 <2>8. QED BY <1>2, <2>1, <2>2, <2>3, <2>4, <2>5, <2>6, <2>7 DEF ReaderStep, InitBlockStep
<1>3. QED BY <1>1, <1>2 DEF Next, Stopped, vars

LEMMA InitQueueInv ==
  ASSUME Init, InitsInOrder(conn)
  PROVE  QueueInv
<1>1. Objects = {} /\ \A r \in Readers : pc[r] = "read" /\ th[r].new_buf = Null BY DEF Init, Objects
<1>2. InitsInv BY InitTurnsInv DEF TurnsInv
<1>3. QED BY <1>1, <1>2 DEF QueueInv, InitsInv, Opener, Owed, Finds, Past

LEMMA QueuesFound == TypeOK /\ (ub \/ QueueInv) => DrainFinds
BY DEF QueueInv, DrainFinds, Finds, Stowed

LEMMA NextFound ==
  ASSUME TypeOK, TypeOK', OrderInv, ub \/ (TurnsInv /\ QueueInv), [Next]_vars
  PROVE  (ub \/ (TurnsInv /\ QueueInv))'
<1>1. CASE ~ub'
 <2>1. ~ub /\ TurnsInv /\ QueueInv BY <1>1, UbStays
 <2>2. QED BY <1>1, <2>1, NextTurnsInv, NextQueues DEF TurnsInv
<1>2. QED BY <1>1

LEMMA FoundAlways ==
  ASSUME \A s \in Streams : InitsInOrder(s)
  PROVE  Spec => [](ub \/ (TurnsInv /\ QueueInv))
<1>1. Init => ub \/ (TurnsInv /\ QueueInv) BY InitTurnsInv, InitQueueInv DEF Init
<1>2. TypeOK /\ TypeOK' /\ OrderInv /\ (ub \/ (TurnsInv /\ QueueInv)) /\ [Next]_vars =>
        (ub \/ (TurnsInv /\ QueueInv))'
  BY NextFound
<1>3. QED BY <1>1, <1>2, TypeCorrect, OrderPreserved, PTL DEF Spec

(* multiplex_reader.c:176-180, 190-194, 240.  is_empty and dequeue are two  *)
(* calls, each on the waiting_queue the dummy has at that moment, and what  *)
(* dequeue returns is not looked at.  If the init blocks arrive on one      *)
(* connection in the order of their tags, then, as long as no uninitialised *)
(* buffer_kv has been used, dequeue finds the block that is_empty saw: no   *)
(* other thread drains this dummy, and none replaces the queue of a dummy   *)
(* whose init block is still to be handled.                                 *)
THEOREM DrainsFind ==
  ASSUME \A s \in Streams : InitsInOrder(s)
  PROVE  Spec => []DrainFinds
<1>1. TypeOK /\ (ub \/ (TurnsInv /\ QueueInv)) => DrainFinds BY QueuesFound
<1>2. QED BY <1>1, FoundAlways, TypeCorrect, PTL

(* multiplex_reader.c:247-255.  Every block is copied without a lock and    *)
(* counted afterwards, by threads in any order, some of them from waiting   *)
(* queues that other threads put in place.  If the writer sends each block  *)
(* once and within the size it announces, and its init blocks on one        *)
(* connection in the order of their tags, then, as long as no uninitialised *)
(* buffer_kv has been used, a buffer whose count is full, and which is then *)
(* completed and handed on, has every block in it.                          *)
THEOREM BuffersWhole ==
  ASSUME \A s \in Streams : SentOnce(s) /\ InitsInOrder(s)
  PROVE  Spec => []WholeBuffers
<1>1. Init => ub \/ BlocksInv BY InitBlocksInv DEF Init
<1>2. TypeOK /\ OrderInv /\ (ub \/ (TurnsInv /\ QueueInv)) /\ (ub \/ BlocksInv) /\ [Next]_vars =>
        (ub \/ BlocksInv)'
 <2>1. TypeOK /\ [Next]_vars /\ ~ub' => ~ub BY UbStays
 <2>2. QED BY <2>1, QueuesFound, NextBlocksInv DEF TurnsInv
<1>3. ub \/ BlocksInv => WholeBuffers BY DEF BlocksInv, WholeInv, Done, Whole, WholeBuffers, Finishing
<1>4. Spec => [](ub \/ (TurnsInv /\ QueueInv)) BY FoundAlways
<1>5. QED BY <1>1, <1>2, <1>3, <1>4, TypeCorrect, OrderPreserved, PTL DEF Spec
=============================================================================
