--------------------------- MODULE BlockSplitProofs ---------------------------
(***************************************************************************)
(* Theorems about BlockSplit, for every number of queues, block size and   *)
(* set of lengths: the blocks of a buffer carry each of its bytes exactly  *)
(* once, and none is larger than the receiver has room for.                *)
(***************************************************************************)
EXTENDS BlockSplit, FiniteSetTheorems, TLAPS

-----------------------------------------------------------------------------
(* Arithmetic of the cut. *)

(* Multiplication by a natural number is monotonic. *)
LEMMA TimesMonotonic ==
  ASSUME NEW a \in Nat, NEW b \in Nat, NEW m \in Nat, a <= b
  PROVE  a * m <= b * m
<1> DEFINE d == b - a
<1>1. d \in Nat
  BY DEF d
<1>2. d * m \in Nat
  BY <1>1
<1>3. b * m = a * m + d * m
  BY <1>1 DEF d
<1> QED BY <1>2, <1>3

(* A quotient is at most b when the dividend is at most b divisors. *)
LEMMA QuotientBound ==
  ASSUME NEW len \in Nat, NEW b \in Nat, NEW m \in Nat \ {0}, len <= b * m
  PROVE  len \div m \in Nat /\ len \div m <= b
<1> DEFINE q == len \div m
<1>1. q \in Nat /\ m * q <= len
  BY Z3 DEF q
<1>2. ASSUME b + 1 <= q PROVE FALSE
  <2>1. (b + 1) * m <= q * m
    BY <1>1, <1>2, TimesMonotonic
  <2>2. (b + 1) * m = b * m + m /\ b * m \in Nat
    OBVIOUS
  <2>3. q * m = m * q
    BY <1>1
  <2> QED BY <1>1, <2>1, <2>2, <2>3
<1> QED BY <1>1, <1>2
-----------------------------------------------------------------------------
(* The inductive invariant: the blocks written so far carry the bytes      *)
(* before i (before the end, after the last block) once each.              *)
Written == min(i, buf_len)

CutInv ==
  /\ TypeOK
  /\ pc # "idle" => next_tag >= 0
  /\ init.buffer_size = buf_len
  /\ pc = "divide" => i = 0 /\ out = {}
  /\ pc = "idle" => i >= buf_len
  /\ unif_size <= BLOCK_SIZE
  /\ Capped
  /\ \A x \in out : x.seq_number + x.size <= i
  /\ UNION {Bytes(x) : x \in out} = 0 .. Written - 1
  /\ \A x, y \in out : x # y => Bytes(x) \cap Bytes(y) = {}

(* Before the first call nothing is cut and nothing is announced. *)
LEMMA InitCut == Init => CutInv
<1> SUFFICES ASSUME Init PROVE CutInv
  OBVIOUS
<1> USE SplitAssumption DEF Init
<1>1. TypeOK
  BY DEF TypeOK, Queues
<1>2. Capped
  BY DEF Capped
<1>3. UNION {Bytes(x) : x \in out} = 0 .. Written - 1
  BY DEF Written, min
<1> QED BY <1>1, <1>2, <1>3 DEF CutInv

(* The block that starts at i carries the bytes from i up to the start of  *)
(* the next one, or to the end of the buffer, and is not too large.        *)
LEMMA BlockAtI ==
  ASSUME CutInv, pc = "loop", i < buf_len
  PROVE  /\ Block(i) \in [queue : Queues, tag : 0 .. MaxTag, seq_number : Nat, size : Nat]
         /\ Block(i).size <= BLOCK_SIZE
         /\ Block(i).seq_number = i
         /\ i + Block(i).size = min(i + unif_size, buf_len)
         /\ i + Block(i).size <= i + unif_size
         /\ Bytes(Block(i)) = i .. min(i + unif_size, buf_len) - 1
<1> USE SplitAssumption
<1>1. /\ i \in Nat /\ buf_len \in Nat /\ unif_size \in Nat
      /\ unif_size <= BLOCK_SIZE /\ next_tag \in 0 .. MaxTag
  BY DEF CutInv, TypeOK
<1>2. i % NumQueues \in Queues
  BY <1>1 DEF Queues
<1>3. /\ min(unif_size, buf_len - i) \in Nat
      /\ min(unif_size, buf_len - i) <= unif_size
      /\ i + min(unif_size, buf_len - i) = min(i + unif_size, buf_len)
  BY <1>1 DEF min
<1>4. Block(i).seq_number = i /\ Block(i).size = min(unif_size, buf_len - i)
  BY DEF Block
<1>5. Block(i) \in [queue : Queues, tag : 0 .. MaxTag, seq_number : Nat, size : Nat]
  BY <1>1, <1>2, <1>3 DEF Block
<1>6. Bytes(Block(i)) = i .. min(i + unif_size, buf_len) - 1
  BY <1>1, <1>3, <1>4 DEF Bytes
<1> QED BY <1>1, <1>3, <1>4, <1>5, <1>6

(* Writing the block at i keeps what is written in one piece. *)
LEMMA WriteBlockCut ==
  ASSUME CutInv, WriteBlock
  PROVE  CutInv'
<1> USE SplitAssumption
<1>1. /\ pc = "loop" /\ i < buf_len /\ out' = out \cup {Block(i)}
      /\ i' = i + unif_size
      /\ UNCHANGED <<pc, next_tag, init, buf_len, divisor, unif_size>>
  BY DEF WriteBlock
<1>2. /\ i \in Nat /\ buf_len \in Nat /\ unif_size \in Nat
      /\ out \subseteq [queue : Queues, tag : 0 .. MaxTag, seq_number : Nat, size : Nat]
  BY DEF CutInv, TypeOK
<1> DEFINE b == Block(i)
<1>3. /\ b \in [queue : Queues, tag : 0 .. MaxTag, seq_number : Nat, size : Nat]
      /\ b.size <= BLOCK_SIZE /\ b.seq_number = i
      /\ i + b.size = min(i + unif_size, buf_len) /\ i + b.size <= i + unif_size
      /\ Bytes(b) = i .. min(i + unif_size, buf_len) - 1
  BY <1>1, BlockAtI
<1> HIDE DEF b
<1>4. out' = out \cup {b}
  BY <1>1 DEF b
<1>5. TypeOK'
  BY <1>1, <1>2, <1>3, <1>4 DEF CutInv, TypeOK, Queues
<1>6. Capped'
  BY <1>3, <1>4 DEF CutInv, Capped
<1>7. \A x \in out' : x.seq_number + x.size <= i'
  <2> SUFFICES ASSUME NEW x \in out' PROVE x.seq_number + x.size <= i'
    OBVIOUS
  <2>1. CASE x = b
    BY <2>1, <1>1, <1>3
  <2>2. CASE x \in out
    BY <2>2, <1>1, <1>2 DEF CutInv
  <2> QED BY <2>1, <2>2, <1>4
<1>8. UNION {Bytes(x) : x \in out'} = 0 .. Written' - 1
  <2>1. UNION {Bytes(x) : x \in out'} = (UNION {Bytes(x) : x \in out}) \cup Bytes(b)
    <3>1. {Bytes(x) : x \in out'} = {Bytes(x) : x \in out} \cup {Bytes(b)}
      BY <1>4
    <3> QED BY <3>1
  <2>2. UNION {Bytes(x) : x \in out} = 0 .. i - 1
    BY <1>1, <1>2 DEF CutInv, Written, min
  <2>3. Written' = min(i + unif_size, buf_len)
    BY <1>1 DEF Written, min
  <2>4. (0 .. i - 1) \cup (i .. Written' - 1) = 0 .. Written' - 1
    BY <2>3, <1>1, <1>2 DEF min
  <2>5. Bytes(b) = i .. Written' - 1
    BY <2>3, <1>3
  <2> QED BY <2>1, <2>2, <2>4, <2>5
<1>9. \A x, y \in out' : x # y => Bytes(x) \cap Bytes(y) = {}
  <2>1. \A x \in out : Bytes(x) \cap Bytes(b) = {}
    <3> SUFFICES ASSUME NEW x \in out PROVE Bytes(x) \cap Bytes(b) = {}
      OBVIOUS
    <3>1. x.seq_number + x.size <= i /\ x.seq_number \in Nat /\ x.size \in Nat
      BY <1>2 DEF CutInv
    <3>2. min(i + unif_size, buf_len) \in Nat
      BY <1>2 DEF min
    <3>3. Bytes(x) = x.seq_number .. x.seq_number + x.size - 1
      BY DEF Bytes
    <3>4. ASSUME NEW k \in Bytes(x), k \in Bytes(b) PROVE FALSE
      <4>1. k \in Nat /\ k < i
        BY <3>1, <3>3, <3>4, <1>2
      <4>2. k >= i
        BY <3>2, <3>4, <1>2, <1>3
      <4> QED BY <4>1, <4>2, <1>2
    <3> QED BY <3>4
  <2>2. \A x, y \in out : x # y => Bytes(x) \cap Bytes(y) = {}
    BY DEF CutInv
  <2> QED BY <2>1, <2>2, <1>4
<1> QED BY <1>1, <1>5, <1>6, <1>7, <1>8, <1>9 DEF CutInv

(* StartLoop settles for a block size that fits. *)
LEMMA StartLoopCut ==
  ASSUME CutInv, StartLoop
  PROVE  CutInv'
<1> USE SplitAssumption
<1>1. /\ pc = "divide" /\ Fits(buf_len, divisor)
      /\ unif_size' = UnifSize(buf_len, divisor) /\ pc' = "loop"
      /\ UNCHANGED <<next_tag, init, buf_len, divisor, i, out>>
  BY DEF StartLoop
<1>2. buf_len \in Nat /\ divisor \in Nat \ {0}
  BY DEF CutInv, TypeOK
<1> DEFINE m == divisor * NumQueues
<1>3. m \in Nat \ {0}
  <2>1. 1 * NumQueues <= divisor * NumQueues
    BY <1>2, TimesMonotonic
  <2> QED BY <2>1, <1>2
<1>4. buf_len <= BLOCK_SIZE * m
  BY <1>1 DEF Fits
<1> HIDE DEF m
<1>5. buf_len \div m \in Nat /\ buf_len \div m <= BLOCK_SIZE
  BY <1>2, <1>3, <1>4, QuotientBound
<1>6. unif_size' \in Nat /\ unif_size' <= BLOCK_SIZE
  BY <1>1, <1>5 DEF UnifSize, m
<1>7. TypeOK'
  BY <1>1, <1>6 DEF CutInv, TypeOK
<1>8. Capped' /\ Written' = Written
  BY <1>1 DEF CutInv, Capped, Written, min
<1> QED BY <1>1, <1>6, <1>7, <1>8 DEF CutInv, Bytes

(* Every step keeps the invariant. *)
LEMMA NextCut == CutInv /\ [Next]_vars => CutInv'
<1> SUFFICES ASSUME CutInv, [Next]_vars PROVE CutInv'
  OBVIOUS
<1> USE SplitAssumption
<1>1. CASE Call
  <2>1. /\ next_tag' = next_tag + 1 /\ next_tag' \in 0 .. MaxTag
        /\ buf_len' \in Nat /\ init'.buffer_size = buf_len'
        /\ init' \in [queue : Queues, tag : -1 .. MaxTag, prev_tag : -1 .. MaxTag,
                      buffer_size : Nat]
    BY <1>1 DEF Call, CutInv, TypeOK, Queues
  <2>2. /\ pc' = "divide" /\ i' = 0 /\ out' = {} /\ unif_size' = 0 /\ divisor' = 1
    BY <1>1 DEF Call
  <2>3. TypeOK'
    BY <2>1, <2>2 DEF TypeOK
  <2>4. Capped' /\ UNION {Bytes(x) : x \in out'} = 0 .. Written' - 1
    BY <2>1, <2>2 DEF Capped, Written, min
  <2> QED BY <2>1, <2>2, <2>3, <2>4 DEF CutInv
<1>2. CASE Divide
  <2>1. /\ divisor' = divisor + 1
        /\ UNCHANGED <<pc, next_tag, init, buf_len, unif_size, i, out>>
    BY <1>2 DEF Divide
  <2>2. TypeOK'
    BY <2>1 DEF CutInv, TypeOK
  <2> QED BY <2>1, <2>2 DEF CutInv, Capped, Written, Bytes, min
<1>3. CASE StartLoop
  BY <1>3, StartLoopCut
<1>4. CASE WriteBlock
  BY <1>4, WriteBlockCut
<1>5. CASE Return
  <2>1. /\ pc' = "idle" /\ i >= buf_len
        /\ UNCHANGED <<next_tag, init, buf_len, divisor, unif_size, i, out>>
    BY <1>5 DEF Return
  <2>2. TypeOK'
    BY <2>1 DEF CutInv, TypeOK
  <2> QED BY <2>1, <2>2 DEF CutInv, Capped, Written, Bytes, min
<1>6. CASE UNCHANGED vars
  BY <1>6 DEF vars, CutInv, TypeOK, Capped, Written, Bytes, min
<1> QED BY <1>1, <1>2, <1>3, <1>4, <1>5, <1>6 DEF Next, Finished

(* The invariant holds throughout. *)
LEMMA CutAlways == Spec => []CutInv
<1> QED BY InitCut, NextCut, PTL DEF Spec

(* The counters and blocks of a cut have the right types, and every block   *)
(* is put on a queue that exists (multiplex_writer.c:92-112).               *)
THEOREM SplitTypeCorrect == Spec => []TypeOK
<1>1. CutInv => TypeOK
  BY DEF CutInv
<1> QED BY <1>1, CutAlways, PTL

(* When a call returns its blocks carry every byte of the announced buffer, *)
(* no byte twice and none beyond the end (multiplex_writer.c:94-113),       *)
(* whatever the block size the division came to.                            *)
THEOREM BlocksTile == Spec => []Tiled
<1>1. CutInv => Tiled
  <2> SUFFICES ASSUME CutInv, pc = "idle"
               PROVE  /\ UNION {Bytes(x) : x \in out} = 0 .. init.buffer_size - 1
                      /\ \A x, y \in out : x # y => Bytes(x) \cap Bytes(y) = {}
    BY DEF Tiled
  <2>1. Written = buf_len
    BY DEF CutInv, TypeOK, Written, min
  <2> QED BY <2>1 DEF CutInv
<1> QED BY <1>1, CutAlways, PTL

(* No block has a larger payload than BLOCK_SIZE, which is all the receiver *)
(* allocates (multiplex_reader.c:48).                                       *)
THEOREM BlocksFit == Spec => []Capped
<1>1. CutInv => Capped
  BY DEF CutInv
<1> QED BY <1>1, CutAlways, PTL

-----------------------------------------------------------------------------
(* How many blocks there are, and which queues they are put on.            *)

(* The remainder is the only number below q that differs from x by a       *)
(* multiple of q.                                                           *)
LEMMA RemainderUnique ==
  ASSUME NEW x \in Nat, NEW q \in Nat \ {0}, NEW c \in Nat, NEW r \in 0 .. q - 1,
         x = c * q + r
  PROVE  x % q = r
<1> DEFINE d == x \div q
           e == x % q
<1>1. d \in Nat /\ e \in 0 .. q - 1 /\ x = q * d + e
  BY Z3
<1>2. d * q = q * d
  BY <1>1
<1> HIDE DEF d, e
<1>3. ASSUME NEW a \in Nat, NEW b \in Nat, NEW s \in 0 .. q - 1, NEW t \in 0 .. q - 1,
             a * q + s = b * q + t, a < b
      PROVE  FALSE
  <2>1. (a + 1) * q <= b * q
    BY <1>3, TimesMonotonic
  <2>2. (a + 1) * q = a * q + q /\ a * q \in Nat /\ b * q \in Nat
    OBVIOUS
  <2>3. QED
    BY <1>3, <2>1, <2>2
<1>4. c * q + r = d * q + e
  BY <1>1, <1>2
<1>5. ~(c < d) /\ ~(d < c)
  BY <1>1, <1>3, <1>4
<1>6. c = d
  BY <1>1, <1>5
<1>7. c * q \in Nat /\ e = r
  BY <1>1, <1>4, <1>6
<1>8. QED
  BY <1>7 DEF e

(* Strides of u go round q queues. *)
LEMMA StridesGoRound ==
  ASSUME NEW k \in Nat, NEW u \in Nat, NEW q \in Nat \ {0}
  PROVE  /\ k % q \in 0 .. q - 1
         /\ (k * u) % q = ((k % q) * u) % q
<1> DEFINE d == k \div q
           e == k % q
           y == e * u
           f == y \div q
           r == y % q
<1>1. d \in Nat /\ e \in 0 .. q - 1 /\ k = q * d + e
  BY Z3
<1> HIDE DEF d, e
<1>2. y \in Nat
  BY <1>1
<1> HIDE DEF y
<1>3. f \in Nat /\ r \in 0 .. q - 1 /\ y = q * f + r
  BY <1>2, Z3
<1> HIDE DEF f, r
<1>4. k * u = (d * u + f) * q + r
  <2>1. k * u = (q * d + e) * u
    BY <1>1
  <2>2. (q * d + e) * u = (d * u) * q + e * u
    BY <1>1
  <2>3. (d * u + f) * q = (d * u) * q + q * f /\ d * u \in Nat
    BY <1>1, <1>3
  <2>4. QED
    BY <1>1, <1>2, <1>3, <2>1, <2>2, <2>3 DEF y
<1>5. k * u \in Nat /\ d * u + f \in Nat
  BY <1>1, <1>3
<1>6. (k * u) % q = r
  BY <1>3, <1>4, <1>5, RemainderUnique
<1>7. QED
  BY <1>1, <1>6 DEF e, y, r

(* Equal products have equal factors. *)
LEMMA TimesInjective ==
  ASSUME NEW a \in Nat, NEW b \in Nat, NEW u \in Nat \ {0}, a * u = b * u
  PROVE  a = b
<1>1. ASSUME NEW c \in Nat, NEW d \in Nat, c * u = d * u, c < d PROVE FALSE
  <2>1. (c + 1) * u <= d * u
    BY <1>1, TimesMonotonic
  <2>2. (c + 1) * u = c * u + u /\ c * u \in Nat
    OBVIOUS
  <2>3. QED
    BY <1>1, <2>1, <2>2
<1>2. QED
  BY <1>1

(* The blocks written so far are n, unif_size apart. *)
StrideInv ==
  pc \in {"loop", "idle"} =>
    /\ unif_size = UnifSize(buf_len, divisor)
    /\ IsFiniteSet(out)
    /\ \E n \in Nat : i = n * unif_size /\ out = {Block(k * unif_size) : k \in 0 .. n - 1}

LEMMA InitStride == Init => StrideInv
<1> SUFFICES ASSUME Init PROVE StrideInv
  OBVIOUS
<1>1. unif_size = 0 /\ buf_len = 0 /\ divisor = 1 /\ i = 0 /\ out = {}
  BY DEF Init
<1>2. UnifSize(buf_len, divisor) = 0
  BY <1>1, SplitAssumption, Z3 DEF UnifSize
<1>3. IsFiniteSet({})
  BY FS_EmptySet
<1>4. i = 0 * unif_size /\ out = {Block(k * unif_size) : k \in 0 .. 0 - 1}
  BY <1>1
<1>5. QED
  BY <1>1, <1>2, <1>3, <1>4 DEF StrideInv

LEMMA NextStride == CutInv /\ StrideInv /\ [Next]_vars => StrideInv'
<1> SUFFICES ASSUME CutInv, StrideInv, [Next]_vars PROVE StrideInv'
  OBVIOUS
<1>1. CASE Call
  BY <1>1 DEF Call, StrideInv
<1>2. CASE Divide
  BY <1>2 DEF Divide, StrideInv
<1>3. CASE StartLoop
  <2>1. /\ pc' = "loop" /\ unif_size' = UnifSize(buf_len', divisor')
        /\ i' = 0 /\ out' = {} /\ buf_len' = buf_len /\ divisor' = divisor
    BY <1>3 DEF StartLoop, CutInv
  <2>2. unif_size' \in Nat
    BY <1>3, StartLoopCut DEF CutInv, TypeOK
  <2>3. IsFiniteSet({})
    BY FS_EmptySet
  <2>4. i' = 0 * unif_size' /\ out' = {Block(k * unif_size)' : k \in 0 .. 0 - 1}
    BY <2>1, <2>2
  <2>5. QED
    BY <2>1, <2>3, <2>4 DEF StrideInv, UnifSize
<1>4. CASE WriteBlock
  <2>1. /\ pc = "loop" /\ out' = out \cup {Block(i)} /\ i' = i + unif_size
        /\ UNCHANGED <<pc, next_tag, init, buf_len, divisor, unif_size>>
    BY <1>4 DEF WriteBlock
  <2>2. PICK n \in Nat : i = n * unif_size /\ out = {Block(k * unif_size) : k \in 0 .. n - 1}
    BY <2>1 DEF StrideInv
  <2>3. unif_size \in Nat
    BY DEF CutInv, TypeOK
  <2>4. IsFiniteSet(out')
    BY <2>1, FS_AddElement DEF StrideInv
  <2>5. i' = (n + 1) * unif_size'
    BY <2>1, <2>2, <2>3
  <2>6. 0 .. (n + 1) - 1 = (0 .. n - 1) \cup {n}
    BY <2>2
  <2>7. out' = {Block(k * unif_size) : k \in 0 .. (n + 1) - 1}
    BY <2>1, <2>2, <2>6
  <2>8. out' = {Block(k * unif_size)' : k \in 0 .. (n + 1) - 1}
    BY <2>1, <2>7 DEF Block
  <2>9. n + 1 \in Nat
    OBVIOUS
  <2>10. QED
    BY <2>1, <2>4, <2>5, <2>8, <2>9 DEF StrideInv, UnifSize
<1>5. CASE Return
  BY <1>5 DEF Return, StrideInv, Block, UnifSize
<1>6. CASE UNCHANGED vars
  BY <1>6 DEF vars, StrideInv, Block, UnifSize
<1>7. QED
  BY <1>1, <1>2, <1>3, <1>4, <1>5, <1>6 DEF Next, Finished

(* A buffer with a byte for every queue is cut into divisor * NumQueues     *)
(* blocks or more.                                                          *)
LEMMA ManyBlocks ==
  ASSUME CutInv, pc = "idle", buf_len >= NumQueues,
         unif_size = UnifSize(buf_len, divisor),
         NEW n \in Nat, i = n * unif_size
  PROVE  unif_size > 0 /\ n >= NumQueues
<1> DEFINE m == divisor * NumQueues
           u == unif_size
<1>1. /\ buf_len \in Nat /\ buf_len > 0 /\ u \in Nat /\ divisor \in Nat \ {0}
      /\ i >= buf_len /\ NumQueues \in Nat \ {0}
  BY SplitAssumption DEF CutInv, TypeOK
<1>2. m \in Nat /\ m >= NumQueues /\ m > 0
  <2>1. 1 * NumQueues <= divisor * NumQueues
    BY <1>1, TimesMonotonic
  <2>2. QED
    BY <1>1, <2>1
<1>3. u = buf_len \div m
  BY DEF UnifSize
<1> HIDE DEF m, u
<1>4. m * u <= buf_len
  BY <1>1, <1>2, <1>3, Z3
<1>5. u > 0
  <2>1. u = 0 => n * u = 0
    OBVIOUS
  <2>2. QED
    BY <1>1, <2>1 DEF u
<1>6. n >= m
  <2>1. SUFFICES ASSUME n + 1 <= m PROVE FALSE
    BY <1>2
  <2>2. (n + 1) * u <= m * u
    BY <1>1, <1>2, <2>1, TimesMonotonic
  <2>3. (n + 1) * u = n * u + u /\ n * u \in Nat /\ m * u \in Nat
    BY <1>1, <1>2
  <2>4. n * u >= buf_len
    BY <1>1 DEF u
  <2>5. QED
    BY <1>1, <1>4, <1>5, <2>2, <2>3, <2>4
<1>7. QED
  BY <1>1, <1>2, <1>5, <1>6 DEF u

LEMMA CountBlocks ==
  ASSUME NEW n \in Nat, NEW u \in Nat \ {0}, NumQueues <= n,
         out = {Block(k * u) : k \in 0 .. n - 1}, IsFiniteSet(out)
  PROVE  Cardinality(out) >= NumQueues
<1> DEFINE Q == 0 .. NumQueues - 1
           f == [k \in Q |-> Block(k * u)]
<1>1. NumQueues \in Nat \ {0}
  BY SplitAssumption
<1>2. f \in [Q -> out]
  BY <1>1
<1>3. ASSUME NEW k \in Q, NEW j \in Q, f[k] = f[j] PROVE k = j
  <2>1. Block(k * u) = Block(j * u)
    BY <1>3
  <2>2. k * u = j * u
    BY <2>1 DEF Block
  <2>3. QED
    BY <1>1, <2>2, TimesInjective
<1>4. f \in Injection(Q, out)
  <2>1. DOMAIN f = Q
    OBVIOUS
  <2> HIDE DEF f
  <2>2. QED
    BY <1>2, <1>3, <2>1 DEF Injection, IsInjective
<1>5. Cardinality(Q) <= Cardinality(out)
  BY <1>4, FS_Injection
<1>6. Cardinality(Q) = NumQueues
  BY <1>1, FS_Interval
<1>7. Cardinality(out) \in Nat
  BY FS_CardinalityType
<1>8. QED
  BY <1>1, <1>5, <1>6, <1>7

LEMMA QueuesInTurn ==
  ASSUME NEW n \in Nat, NEW u \in Nat, NumQueues <= n,
         out = {Block(k * u) : k \in 0 .. n - 1}
  PROVE  {x.queue : x \in out} = {(k * u) % NumQueues : k \in 0 .. NumQueues - 1}
<1>1. NumQueues \in Nat \ {0}
  BY SplitAssumption
<1> DEFINE Reached == {(k * u) % NumQueues : k \in 0 .. NumQueues - 1}
<1>2. \A k : Block(k).queue = k % NumQueues
  BY DEF Block
<1>3. ASSUME NEW x \in out PROVE x.queue \in Reached
  <2>1. PICK k \in 0 .. n - 1 : x = Block(k * u)
    OBVIOUS
  <2>2. x.queue = (k * u) % NumQueues
    BY <1>2, <2>1
  <2>3. k \in Nat /\ k % NumQueues \in 0 .. NumQueues - 1
    BY <1>1
  <2>4. (k * u) % NumQueues = ((k % NumQueues) * u) % NumQueues
    BY <1>1, <2>3, StridesGoRound
  <2>5. QED
    BY <2>2, <2>3, <2>4
<1>4. ASSUME NEW y \in Reached PROVE \E x \in out : x.queue = y
  <2>1. PICK k \in 0 .. NumQueues - 1 : y = (k * u) % NumQueues
    OBVIOUS
  <2>2. Block(k * u) \in out
    BY <1>1
  <2>3. QED
    BY <1>2, <2>1, <2>2
<1>5. QED
  BY <1>3, <1>4

(* A buffer with a byte for every connection is cut into at least as many   *)
(* blocks as there are connections, and they visit the queues that strides  *)
(* of unif_size reach, not always all of them (multiplex_writer.c:92-112),  *)
(* for any number of queues, block size and length.                         *)
THEOREM BlocksForAll == Spec => []EnoughBlocks
<1>1. CutInv /\ StrideInv => EnoughBlocks
  <2> SUFFICES ASSUME CutInv, StrideInv, pc = "idle", buf_len >= NumQueues
               PROVE  /\ Cardinality(out) >= NumQueues
                      /\ {x.queue : x \in out} =
                           {(k * unif_size) % NumQueues : k \in 0 .. NumQueues - 1}
    BY DEF EnoughBlocks
  <2>1. unif_size = UnifSize(buf_len, divisor) /\ IsFiniteSet(out)
    BY DEF StrideInv
  <2>2. PICK n \in Nat : i = n * unif_size /\ out = {Block(k * unif_size) : k \in 0 .. n - 1}
    BY DEF StrideInv
  <2>3. unif_size > 0 /\ n >= NumQueues
    BY <2>1, <2>2, ManyBlocks
  <2>4. unif_size \in Nat \ {0} /\ NumQueues <= n
    BY <2>3, SplitAssumption DEF CutInv, TypeOK
  <2>5. QED
    BY <2>1, <2>2, <2>4, CountBlocks, QueuesInTurn
<1>2. StrideInv /\ CutInv /\ [Next]_vars => StrideInv'
  BY NextStride
<1>3. Spec => []StrideInv
  BY InitStride, CutAlways, <1>2, PTL DEF Spec
<1>4. QED
  BY <1>1, <1>3, CutAlways, PTL

=============================================================================
