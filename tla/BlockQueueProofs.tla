--------------------------- MODULE BlockQueueProofs ---------------------------
(***************************************************************************)
(* Proofs about BlockQueue: its types, that the doubly linked list is whole *)
(* whenever the semaphore is free, and that the queue is an atomic FIFO     *)
(* queue to the threads that use it.                                        *)
(***************************************************************************)
EXTENDS BlockQueue, Integers, SequenceTheorems, FiniteSetTheorems,
        WellFoundedInduction, TLAPS

(* Induction, for a set of numbers: one that holds 0 and the successor of   *)
(* each of its members holds them all.                                      *)
LEMMA Rising ==
  ASSUME NEW T, T \subseteq Nat, 0 \in T, \A n \in T : n + 1 \in T
  PROVE  T = Nat
<1> SUFFICES ASSUME Nat \ T # {} PROVE FALSE
  OBVIOUS
<1>1. PICK x \in Nat \ T : \A y \in Nat \ T : ~ (<<y, x>> \in OpToRel(<, Nat))
  BY WFMin, NatLessThanWellFounded
<1>2. \A y \in Nat \ T : ~(y < x)
  BY <1>1 DEF OpToRel
<1>3. x \in Nat /\ x \notin T /\ x # 0
  BY <1>1
<1> HIDE <1>1
<1>4. x - 1 \in Nat /\ x - 1 < x /\ (x - 1) + 1 = x
  BY <1>3
<1>5. x - 1 \in T
  BY <1>2, <1>4
<1>6. QED
  BY <1>3, <1>4, <1>5

-----------------------------------------------------------------------------
(* The recursion of Walk, for the first n links.                            *)

WalkStep(first, link, F, i) ==
  IF i = 0 THEN first ELSE IF F[i - 1] = NULL THEN NULL ELSE link[F[i - 1]]

WalkRec(first, link, F, n) == F = [i \in 0 .. n |-> WalkStep(first, link, F, i)]

WalkFcn(first, link) == CHOOSE F : WalkRec(first, link, F, NumNodes)

LEMMA WalkIsFcn ==
  ASSUME NEW first, NEW link
  PROVE  Walk(first, link) =
           [k \in 1 .. Cardinality({i \in 0 .. NumNodes : WalkFcn(first, link)[i] # NULL})
              |-> WalkFcn(first, link)[k - 1]]
BY DEF Walk, WalkFcn, WalkRec, WalkStep

LEMMA WalkExists ==
  ASSUME NEW first, NEW link, NEW n \in Nat
  PROVE  \E F : WalkRec(first, link, F, n)
<1> DEFINE T == {m \in Nat : \E F : WalkRec(first, link, F, m)}
<1>1. 0 \in T
  <2>1. WalkRec(first, link, [i \in 0 .. 0 |-> first], 0)
    BY DEF WalkRec, WalkStep
  <2>2. QED
    BY <2>1
<1>2. ASSUME NEW m \in T PROVE m + 1 \in T
  <2>1. PICK F : WalkRec(first, link, F, m)
    OBVIOUS
  <2> DEFINE G == [i \in 0 .. m + 1 |-> IF i <= m THEN F[i] ELSE WalkStep(first, link, F, i)]
             H == [i \in 0 .. m + 1 |-> WalkStep(first, link, G, i)]
  <2>2. m \in Nat
    OBVIOUS
  <2>3. \A i \in 0 .. m : F[i] = WalkStep(first, link, F, i)
    BY <2>1, <2>2 DEF WalkRec
  <2>4. ASSUME NEW i \in 0 .. m + 1 PROVE G[i] = H[i]
    <3>1. i # 0 => G[i - 1] = F[i - 1]
      BY <2>2
    <3>2. WalkStep(first, link, G, i) = WalkStep(first, link, F, i)
      BY <3>1 DEF WalkStep
    <3>3. QED
      BY <2>2, <2>3, <3>2
  <2>5. G = H
    BY <2>4
  <2>6. WalkRec(first, link, G, m + 1)
    BY <2>5 DEF WalkRec
  <2>7. QED
    BY <2>2, <2>6
<1>3. T = Nat
  BY <1>1, <1>2, Rising
<1>4. QED
  BY <1>3

LEMMA WalkFcnRec ==
  ASSUME NEW first, NEW link
  PROVE  /\ WalkFcn(first, link)[0] = first
         /\ \A i \in 0 .. NumNodes - 1 :
              WalkFcn(first, link)[i + 1] =
                IF WalkFcn(first, link)[i] = NULL THEN NULL ELSE link[WalkFcn(first, link)[i]]
<1>1. NumNodes \in Nat
  BY QueueAssumption
<1>2. \E F : WalkRec(first, link, F, NumNodes)
  BY <1>1, WalkExists
<1>3. WalkRec(first, link, WalkFcn(first, link), NumNodes)
  BY <1>2, Zenon DEF WalkFcn
<1>4. ASSUME NEW F, WalkRec(first, link, F, NumNodes), NEW i \in 0 .. NumNodes
      PROVE  F[i] = WalkStep(first, link, F, i)
  BY <1>4 DEF WalkRec
<1>5. \A i \in 0 .. NumNodes :
        WalkFcn(first, link)[i] = WalkStep(first, link, WalkFcn(first, link), i)
  BY <1>3, <1>4
<1>6. WalkFcn(first, link)[0] = first
  BY <1>1, <1>5 DEF WalkStep
<1>7. ASSUME NEW i \in 0 .. NumNodes - 1
      PROVE  WalkFcn(first, link)[i + 1] =
               IF WalkFcn(first, link)[i] = NULL THEN NULL ELSE link[WalkFcn(first, link)[i]]
  <2>1. i + 1 \in 0 .. NumNodes /\ (i + 1) - 1 = i /\ i + 1 # 0
    BY <1>1
  <2>2. WalkFcn(first, link)[i + 1] = WalkStep(first, link, WalkFcn(first, link), i + 1)
    BY <1>5, <2>1
  <2>3. QED
    BY <2>1, <2>2 DEF WalkStep
<1>8. QED
  BY <1>6, <1>7

LEMMA Intervals ==
  ASSUME NEW n \in Nat
  PROVE  Cardinality(0 .. n - 1) = n /\ Cardinality(1 .. n) = n
<1>1. n - 1 \in Int /\ n \in Int
  OBVIOUS
<1>2. QED
  BY <1>1, FS_Interval

(* A walk that follows the sequence c and then meets NULL is c. *)
LEMMA WalkIs ==
  ASSUME NEW c \in Seq(Nodes), NEW first, NEW link, Len(c) <= NumNodes,
         first = IF c = <<>> THEN NULL ELSE c[1],
         \A k \in 1 .. Len(c) : link[c[k]] = IF k < Len(c) THEN c[k + 1] ELSE NULL
  PROVE  Walk(first, link) = c
<1> DEFINE F == WalkFcn(first, link)
           At(k) == IF k < Len(c) THEN c[k + 1] ELSE NULL
           T == {m \in Nat : m <= NumNodes => F[m] = At(m)}
<1>1. NumNodes \in Nat /\ Len(c) \in Nat
  BY QueueAssumption
<1>2. /\ F[0] = first
      /\ \A i \in 0 .. NumNodes - 1 : F[i + 1] = IF F[i] = NULL THEN NULL ELSE link[F[i]]
  BY WalkFcnRec
<1> HIDE DEF F
<1>3. \A k \in 1 .. Len(c) : c[k] # NULL /\ c[k] \in Nodes
  <2>1. \A k \in 1 .. Len(c) : c[k] \in Nodes
    OBVIOUS
  <2>2. \A x \in Nodes : x # NULL
    BY <1>1 DEF Nodes, NULL
  <2>3. QED
    BY <2>1, <2>2
<1>4. 0 \in T
  BY <1>1, <1>2
<1>5. ASSUME NEW m \in T PROVE m + 1 \in T
  <2>1. m \in Nat
    OBVIOUS
  <2>2. SUFFICES ASSUME m + 1 <= NumNodes PROVE F[m + 1] = At(m + 1)
    BY <2>1
  <2>3. m \in 0 .. NumNodes - 1 /\ F[m] = At(m)
    BY <1>1, <2>1, <2>2
  <2>4. CASE m < Len(c)
    <3>1. m + 1 \in 1 .. Len(c) /\ F[m] = c[m + 1]
      BY <1>1, <2>1, <2>3, <2>4
    <3>2. F[m + 1] = link[c[m + 1]]
      BY <1>2, <1>3, <2>3, <3>1
    <3>3. QED
      BY <3>1, <3>2
  <2>5. CASE ~(m < Len(c))
    BY <1>1, <1>2, <2>1, <2>3, <2>5
  <2>6. QED
    BY <2>4, <2>5
<1>6. T = Nat
  BY <1>4, <1>5, Rising
<1>7. \A k \in 0 .. NumNodes : F[k] = At(k)
  BY <1>1, <1>6
<1>8. {i \in 0 .. NumNodes : F[i] # NULL} = 0 .. Len(c) - 1
  <2>1. ASSUME NEW i \in 0 .. NumNodes PROVE F[i] # NULL <=> i \in 0 .. Len(c) - 1
    BY <1>1, <1>3, <1>7
  <2>2. 0 .. Len(c) - 1 \subseteq 0 .. NumNodes
    BY <1>1
  <2>3. QED
    BY <2>1, <2>2
<1>9. Cardinality(0 .. Len(c) - 1) = Len(c)
  BY <1>1, Intervals, Zenon
<1>10. Walk(first, link) = [k \in 1 .. Len(c) |-> F[k - 1]]
  BY <1>8, <1>9, WalkIsFcn DEF F
<1>11. \A k \in 1 .. Len(c) : F[k - 1] = c[k]
  <2>1. ASSUME NEW k \in 1 .. Len(c) PROVE F[k - 1] = c[k]
    <3>1. k - 1 \in 0 .. NumNodes /\ k - 1 < Len(c) /\ (k - 1) + 1 = k
      BY <1>1
    <3>2. QED
      BY <1>7, <3>1
  <2>2. QED
    BY <2>1
<1>12. c = [k \in 1 .. Len(c) |-> c[k]]
  OBVIOUS
<1>13. QED
  BY <1>10, <1>11, <1>12

(* A sequence of different nodes is no longer than the memory. *)
LEMMA ShortChain ==
  ASSUME NEW c \in Seq(Nodes), \A j, k \in 1 .. Len(c) : c[j] = c[k] => j = k
  PROVE  Len(c) <= NumNodes
<1>1. NumNodes \in Nat /\ Len(c) \in Nat
  BY QueueAssumption
<1>2. c \in [1 .. Len(c) -> Nodes] /\ DOMAIN c = 1 .. Len(c)
  OBVIOUS
<1>3. c \in Injection(1 .. Len(c), Nodes)
  BY <1>2 DEF Injection, IsInjective
<1>4. IsFiniteSet(Nodes) /\ Cardinality(Nodes) = NumNodes
  BY <1>1, FS_Interval DEF Nodes
<1>5. Cardinality(1 .. Len(c)) <= Cardinality(Nodes)
  BY <1>3, <1>4, FS_Injection
<1>6. Cardinality(1 .. Len(c)) = Len(c)
  BY <1>1, Intervals, Zenon
<1>7. QED
  BY <1>4, <1>5, <1>6

-----------------------------------------------------------------------------
(* The inductive invariant: there is a sequence c of the nodes of the queue, *)
(* the oldest first.  The links along prev follow c at every step; head, the *)
(* links along next and the memory in use follow it but for the node that   *)
(* the thread in the middle of an operation is adding or removing.          *)

In(c) == {c[k] : k \in 1 .. Len(c)}

Oldest(c) == IF c = <<>> THEN NULL ELSE c[1]
Newest(c) == IF c = <<>> THEN NULL ELSE c[Len(c)]

Chain(c) ==
  /\ c \in Seq(Nodes)
  /\ \A j, k \in 1 .. Len(c) : c[j] = c[k] => j = k
  /\ tail = Oldest(c)
  /\ \A k \in 1 .. Len(c) : node[c[k]].prev = IF k < Len(c) THEN c[k + 1] ELSE NULL

NextLinks(c, m) == \A k \in 1 .. Len(c) : node[c[k]].next = IF k = 1 THEN m ELSE c[k - 1]

Extra(c, n) == n \in Nodes /\ n \notin In(c) /\ allocated = In(c) \cup {n}

Quiet(c) == head = Newest(c) /\ NextLinks(c, NULL) /\ allocated = In(c)

Adding(c, t) ==
  /\ Extra(c, mine[t]) /\ NextLinks(c, NULL)
  /\ node[mine[t]] = [buf |-> arg[t], next |-> Newest(c), prev |-> NULL]
  /\ was_empty[t] = (c = <<>>)
  /\ head = IF pc[t] = "enq_head" THEN Newest(c) ELSE mine[t]

Removed(c, t) ==
  /\ Extra(c, mine[t])
  /\ NextLinks(c, mine[t])
  /\ head = IF c = <<>> THEN mine[t] ELSE c[Len(c)]

Unlinked(c, t) == Extra(c, mine[t]) /\ head = Newest(c) /\ NextLinks(c, NULL)

Middle == {"enq_head", "enq_link", "deq_head", "deq_free"}

Shape(c) ==
  /\ Chain(c)
  /\ (\A t \in Threads : pc[t] \notin Middle) => Quiet(c)
  /\ \A t \in Threads : /\ pc[t] \in {"enq_head", "enq_link"} => Adding(c, t)
                        /\ pc[t] = "deq_head" => Removed(c, t)
                        /\ pc[t] = "deq_free" => Unlinked(c, t)

Outside == {"idle", "enqueue", "dequeue", "is_empty"}

(* Only one thread is between sem_wait and sem_post. *)
Mutex ==
  /\ \A t, u \in Threads : pc[t] \notin Outside /\ pc[u] \notin Outside => t = u
  /\ \A t \in Threads : pc[t] \notin Outside => wrt = 0

Types ==
  /\ node \in [Nodes -> [buf : Bufs \cup {NoBuf}, next : Nodes \cup {NULL},
                         prev : Nodes \cup {NULL}]]
  /\ allocated \subseteq Nodes
  /\ head \in Nodes \cup {NULL}
  /\ wrt \in {0, 1}
  /\ pc \in [Threads -> Steps]
  /\ arg \in [Threads -> Bufs \cup {NoBuf}]
  /\ mine \in [Threads -> Nodes \cup {NULL}]
  /\ was_empty \in [Threads -> BOOLEAN]
  /\ result \in [Threads -> Bufs \cup {NoBuf, "yes", "no"}]
  /\ exited \in BOOLEAN

NullIsNoNode == NULL \notin Nodes

LEMMA NullOutside == NullIsNoNode
BY QueueAssumption DEF NullIsNoNode, NULL, Nodes

LEMMA ChainFacts ==
  ASSUME NEW c, Chain(c)
  PROVE  /\ Len(c) \in Nat /\ In(c) \subseteq Nodes
         /\ \A k \in 1 .. Len(c) : c[k] \in In(c) /\ c[k] \in Nodes
         /\ c # <<>> => Len(c) \in 1 .. Len(c) /\ 1 \in 1 .. Len(c)
         /\ Oldest(c) \in In(c) \cup {NULL} /\ (Oldest(c) = NULL <=> c = <<>>)
         /\ Newest(c) \in In(c) \cup {NULL} /\ (Newest(c) = NULL <=> c = <<>>)
<1>1. c \in Seq(Nodes)
  BY DEF Chain
<1>2. Len(c) \in Nat /\ \A k \in 1 .. Len(c) : c[k] \in In(c) /\ c[k] \in Nodes
  BY <1>1 DEF In
<1>3. In(c) \subseteq Nodes
  BY <1>2 DEF In
<1>4. c # <<>> => Len(c) \in 1 .. Len(c) /\ 1 \in 1 .. Len(c)
  BY <1>1
<1>5. QED
  BY <1>2, <1>3, <1>4, NullOutside DEF Oldest, Newest, NullIsNoNode

(* What FromTail is, before and after a step. *)
LEMMA FromTailIs ==
  ASSUME NEW c, Chain(c)
  PROVE  FromTail = c
<1> DEFINE link == [n \in Nodes |-> node[n].prev]
<1>1. c \in Seq(Nodes) /\ Len(c) <= NumNodes
  BY ShortChain DEF Chain
<1>2. tail = IF c = <<>> THEN NULL ELSE c[1]
  BY DEF Chain, Oldest
<1>3. \A k \in 1 .. Len(c) : link[c[k]] = IF k < Len(c) THEN c[k + 1] ELSE NULL
  BY <1>1 DEF Chain
<1> HIDE DEF link
<1>4. Walk(tail, link) = c
  BY <1>1, <1>2, <1>3, WalkIs
<1>5. QED
  BY <1>4 DEF FromTail, link

LEMMA FromTailNext ==
  ASSUME NEW c, Chain(c)'
  PROVE  FromTail' = c
<1> DEFINE link == [n \in Nodes |-> node'[n].prev]
<1>1. c \in Seq(Nodes) /\ Len(c) <= NumNodes
  BY ShortChain DEF Chain
<1>2. tail' = IF c = <<>> THEN NULL ELSE c[1]
  BY DEF Chain, Oldest
<1>3. \A k \in 1 .. Len(c) : link[c[k]] = IF k < Len(c) THEN c[k + 1] ELSE NULL
  BY <1>1 DEF Chain
<1> HIDE DEF link
<1>4. Walk(tail', link) = c
  BY <1>1, <1>2, <1>3, WalkIs
<1>5. QED
  BY <1>4 DEF FromTail, link

(* When nobody is in the middle, the list reads backwards from the head. *)
LEMMA FromHeadIs ==
  ASSUME NEW c, Chain(c), Quiet(c)
  PROVE  FromHead = Reverse(c)
<1> DEFINE link == [n \in Nodes |-> node[n].next]
           r == Reverse(c)
           n == Len(c)
<1>1. c \in Seq(Nodes) /\ n <= NumNodes /\ n \in Nat
  BY ShortChain DEF Chain
<1>2. r \in Seq(Nodes) /\ Len(r) = n /\ \A k \in 1 .. n : r[k] = c[n - k + 1]
  BY <1>1 DEF Reverse
<1> HIDE DEF r
<1>3. head = IF r = <<>> THEN NULL ELSE r[1]
  BY <1>1, <1>2 DEF Quiet, Newest
<1>4. \A k \in 1 .. Len(r) : link[r[k]] = IF k < Len(r) THEN r[k + 1] ELSE NULL
  <2> SUFFICES ASSUME NEW k \in 1 .. n
               PROVE  link[r[k]] = IF k < n THEN r[k + 1] ELSE NULL
    BY <1>2
  <2> DEFINE j == n - k + 1
  <2>1. j \in 1 .. n /\ r[k] = c[j] /\ c[j] \in Nodes
    BY <1>1, <1>2
  <2>2. link[r[k]] = IF j = 1 THEN NULL ELSE c[j - 1]
    <3>1. link[c[j]] = node[c[j]].next
      BY <2>1
    <3>2. node[c[j]].next = IF j = 1 THEN NULL ELSE c[j - 1]
      BY <2>1 DEF Quiet, NextLinks
    <3>3. QED
      BY <2>1, <3>1, <3>2
  <2>3. k < n => k + 1 \in 1 .. n /\ n - (k + 1) + 1 = j - 1
    BY <1>1
  <2>4. k < n => r[k + 1] = c[j - 1]
    BY <1>2, <2>3
  <2>5. k < n <=> j # 1
    BY <1>1
  <2>6. QED
    BY <2>2, <2>4, <2>5
<1> HIDE DEF link
<1>5. Walk(head, link) = r
  BY <1>1, <1>2, <1>3, <1>4, WalkIs
<1>6. QED
  BY <1>5 DEF FromHead, link, r

-----------------------------------------------------------------------------
(* What the steps do to the sequence of nodes                               *)

LEMMA OthersOutside ==
  ASSUME Mutex, NEW t \in Threads, pc[t] \notin Outside
  PROVE  \A u \in Threads : u # t => pc[u] \in Outside /\ pc[u] \notin Middle
BY DEF Mutex, Outside, Middle

LEMMA ShapeIntro ==
  ASSUME NEW c, NEW t \in Threads, Chain(c)',
         \A u \in Threads : u # t => pc'[u] \notin Middle,
         pc'[t] \notin Middle => Quiet(c)',
         pc'[t] \in {"enq_head", "enq_link"} => Adding(c, t)',
         pc'[t] = "deq_head" => Removed(c, t)',
         pc'[t] = "deq_free" => Unlinked(c, t)'
  PROVE  Shape(c)'
<1>1. ASSUME \A u \in Threads : pc'[u] \notin Middle PROVE Quiet(c)'
  BY <1>1
<1>2. ASSUME NEW u \in Threads
      PROVE  /\ pc'[u] \in {"enq_head", "enq_link"} => Adding(c, u)'
             /\ pc'[u] = "deq_head" => Removed(c, u)'
             /\ pc'[u] = "deq_free" => Unlinked(c, u)'
  <2>1. CASE u = t
    BY <2>1
  <2>2. CASE u # t
    <3>1. pc'[u] \notin Middle
      BY <2>2
    <3>2. QED
      BY <3>1 DEF Middle
  <2>3. QED
    BY <2>1, <2>2
<1>3. QED
  BY <1>1, <1>2 DEF Shape

LEMMA ChainSame ==
  ASSUME NEW c, Chain(c), tail' = tail,
         \A k \in 1 .. Len(c) : node'[c[k]].prev = node[c[k]].prev
  PROVE  Chain(c)'
BY DEF Chain, Oldest

(* A step that leaves the list alone and does not concern a thread in the   *)
(* middle of an operation. *)
LEMMA ShapeSame ==
  ASSUME NEW c, Shape(c), UNCHANGED list,
         \A u \in Threads : pc[u] \in Middle \/ pc'[u] \in Middle =>
           /\ pc'[u] = pc[u] /\ mine'[u] = mine[u] /\ arg'[u] = arg[u]
           /\ was_empty'[u] = was_empty[u]
  PROVE  Shape(c)'
<1>1. node' = node /\ allocated' = allocated /\ head' = head /\ tail' = tail
  BY DEF list
<1>2. Chain(c)'
  BY <1>1 DEF Shape, Chain
<1>3. ASSUME \A u \in Threads : pc'[u] \notin Middle PROVE Quiet(c)'
  <2>1. \A u \in Threads : pc[u] \notin Middle
    BY <1>3
  <2>2. QED
    BY <1>1, <2>1 DEF Shape, Quiet, NextLinks
<1>4. ASSUME NEW u \in Threads
      PROVE  /\ pc'[u] \in {"enq_head", "enq_link"} => Adding(c, u)'
             /\ pc'[u] = "deq_head" => Removed(c, u)'
             /\ pc'[u] = "deq_free" => Unlinked(c, u)'
  <2>1. CASE pc'[u] \in Middle
    <3>1. /\ pc'[u] = pc[u] /\ mine'[u] = mine[u] /\ arg'[u] = arg[u]
          /\ was_empty'[u] = was_empty[u]
      BY <2>1
    <3>2. pc[u] \in {"enq_head", "enq_link"} => Adding(c, u)'
      BY <1>1, <3>1 DEF Shape, Adding, Extra, NextLinks
    <3>3. pc[u] = "deq_head" => Removed(c, u)'
      BY <1>1, <3>1 DEF Shape, Removed, Extra, NextLinks
    <3>4. pc[u] = "deq_free" => Unlinked(c, u)'
      BY <1>1, <3>1 DEF Shape, Unlinked, Extra, NextLinks
    <3>5. QED
      BY <3>1, <3>2, <3>3, <3>4
  <2>2. CASE pc'[u] \notin Middle
    BY <2>2 DEF Middle
  <2>3. QED
    BY <2>1, <2>2
<1>5. QED
  BY <1>2, <1>3, <1>4 DEF Shape

LEMMA QuietShape ==
  ASSUME NEW c, Shape(c), Mutex, NEW t \in Threads, pc[t] \notin Outside, pc[t] \notin Middle
  PROVE  Quiet(c)
BY OthersOutside DEF Shape

LEMMA QuietSteps ==
  ASSUME NEW c, Types, Mutex, Shape(c), NEW t \in Threads,
         \/ Call(t) \/ Enter(t) \/ EnqueueNoMemory(t) \/ DequeueNothing(t) \/ IsEmpty(t)
         \/ Post(t) \/ UNCHANGED vars
  PROVE  Shape(c)'
<1> DEFINE Goal == /\ UNCHANGED list
                   /\ \A u \in Threads : pc[u] \in Middle \/ pc'[u] \in Middle =>
                        /\ pc'[u] = pc[u] /\ mine'[u] = mine[u] /\ arg'[u] = arg[u]
                        /\ was_empty'[u] = was_empty[u]
<1>1. CASE Call(t)
  <2>1. Goal
    BY <1>1 DEF Call, Goto, Types, Middle
  <2>2. QED
    BY <2>1, ShapeSame
<1>2. CASE Enter(t)
  <2>1. Goal
    BY <1>2 DEF Enter, Wait, Goto, Types, Middle, locals
  <2>2. QED
    BY <2>1, ShapeSame
<1>3. CASE EnqueueNoMemory(t)
  <2>1. Goal
    BY <1>3 DEF EnqueueNoMemory, locals
  <2>2. QED
    BY <2>1, ShapeSame
<1>4. CASE DequeueNothing(t)
  <2>1. Goal
    BY <1>4 DEF DequeueNothing, Goto, Types, Middle
  <2>2. QED
    BY <2>1, ShapeSame
<1>5. CASE IsEmpty(t)
  <2>1. Goal
    BY <1>5 DEF IsEmpty, Goto, Types, Middle
  <2>2. QED
    BY <2>1, ShapeSame
<1>6. CASE Post(t)
  <2>1. Goal
    BY <1>6 DEF Post, Goto, Forget, Types, Middle
  <2>2. QED
    BY <2>1, ShapeSame
<1>7. CASE UNCHANGED vars
  <2>1. Goal
    BY <1>7 DEF vars, locals
  <2>2. QED
    BY <2>1, ShapeSame
<1>8. QED
  BY <1>1, <1>2, <1>3, <1>4, <1>5, <1>6, <1>7

LEMMA AllocShape ==
  ASSUME NEW c, Types, Mutex, Shape(c), NEW t \in Threads, EnqueueAlloc(t)
  PROVE  Shape(c)'
<1>1. PICK n \in Nodes \ allocated :
        /\ allocated' = allocated \cup {n}
        /\ node' = [node EXCEPT ![n] = [buf |-> arg[t], next |-> head, prev |-> NULL]]
        /\ mine' = [mine EXCEPT ![t] = n]
  BY DEF EnqueueAlloc
<1>2. /\ pc[t] = "enq_alloc" /\ was_empty' = [was_empty EXCEPT ![t] = (head = NULL)]
      /\ pc' = [pc EXCEPT ![t] = "enq_head"] /\ head' = head /\ tail' = tail /\ arg' = arg
  BY DEF EnqueueAlloc, Goto
<1>3. Chain(c) /\ Quiet(c)
  BY <1>2, QuietShape DEF Shape, Outside, Middle
<1>4. \A u \in Threads : u # t => pc'[u] \notin Middle
  BY <1>2, OthersOutside DEF Types, Outside
<1>5. \A k \in 1 .. Len(c) : c[k] # n /\ c[k] \in Nodes
  BY <1>3, ChainFacts DEF Quiet
<1>6. \A k \in 1 .. Len(c) : node'[c[k]] = node[c[k]]
  BY <1>1, <1>5 DEF Types
<1>7. Chain(c)'
  BY <1>2, <1>3, <1>6, ChainSame
<1>8. Adding(c, t)'
  <2>1. mine'[t] = n /\ was_empty'[t] = (head = NULL) /\ pc'[t] = "enq_head"
        /\ node'[n] = [buf |-> arg[t], next |-> head, prev |-> NULL]
    BY <1>1, <1>2 DEF Types
  <2>2. Extra(c, mine[t])'
    BY <1>1, <1>3, <2>1 DEF Extra, Quiet
  <2>3. NextLinks(c, NULL)'
    BY <1>3, <1>6 DEF Quiet, NextLinks
  <2>4. head = Newest(c) /\ (head = NULL <=> c = <<>>)
    BY <1>3, ChainFacts DEF Quiet
  <2>5. QED
    BY <1>2, <2>1, <2>2, <2>3, <2>4 DEF Adding
<1>9. pc'[t] = "enq_head"
  BY <1>2 DEF Types
<1>10. QED
  BY <1>4, <1>7, <1>8, <1>9, ShapeIntro DEF Middle

LEMMA EnqHeadShape ==
  ASSUME NEW c, Types, Mutex, Shape(c), NEW t \in Threads, EnqueueHead(t)
  PROVE  Shape(c)'
<1>1. /\ pc[t] = "enq_head" /\ head' = mine[t] /\ pc' = [pc EXCEPT ![t] = "enq_link"]
      /\ node' = node /\ allocated' = allocated /\ tail' = tail
      /\ mine' = mine /\ arg' = arg /\ was_empty' = was_empty
  BY DEF EnqueueHead, Goto, locals
<1>2. Chain(c) /\ Adding(c, t)
  BY <1>1 DEF Shape
<1>3. \A u \in Threads : u # t => pc'[u] \notin Middle
  BY <1>1, OthersOutside DEF Types, Outside
<1>4. Chain(c)'
  BY <1>1, <1>2, ChainSame
<1>5. pc'[t] = "enq_link"
  BY <1>1 DEF Types
<1>6. Adding(c, t)'
  BY <1>1, <1>2, <1>5 DEF Adding, Extra, NextLinks
<1>7. QED
  BY <1>3, <1>4, <1>5, <1>6, ShapeIntro DEF Middle

LEMMA AppendFacts ==
  ASSUME NEW c \in Seq(Nodes), NEW n \in Nodes, n \notin In(c),
         \A j, k \in 1 .. Len(c) : c[j] = c[k] => j = k
  PROVE  LET d == Append(c, n) IN
         /\ d \in Seq(Nodes) /\ Len(d) = Len(c) + 1 /\ d[Len(c) + 1] = n
         /\ \A k \in 1 .. Len(c) : d[k] = c[k]
         /\ In(d) = In(c) \cup {n}
         /\ \A j, k \in 1 .. Len(d) : d[j] = d[k] => j = k
         /\ Oldest(d) = (IF c = <<>> THEN n ELSE c[1]) /\ Newest(d) = n
<1> DEFINE d == Append(c, n)
<1>1. /\ d \in Seq(Nodes) /\ Len(d) = Len(c) + 1 /\ d[Len(c) + 1] = n /\ Len(c) \in Nat
      /\ \A k \in 1 .. Len(c) : d[k] = c[k]
      /\ d # <<>> /\ (c # <<>> => 1 \in 1 .. Len(c)) /\ (c = <<>> => Len(c) = 0)
  <2>1. d \in Seq(Nodes) /\ Len(d) = Len(c) + 1 /\ d[Len(c) + 1] = n /\ Len(c) \in Nat
    OBVIOUS
  <2>2. \A k \in 1 .. Len(c) : d[k] = c[k]
    OBVIOUS
  <2>3. (c # <<>> => 1 \in 1 .. Len(c)) /\ (c = <<>> => Len(c) = 0)
    OBVIOUS
  <2> HIDE DEF d
  <2>4. d # <<>>
    BY <2>1
  <2>5. QED
    BY <2>1, <2>2, <2>3, <2>4
<1> HIDE DEF d
<1>2. 1 .. Len(d) = (1 .. Len(c)) \cup {Len(c) + 1}
  BY <1>1
<1>3. In(d) = In(c) \cup {n}
  BY <1>1, <1>2 DEF In
<1>4. \A k \in 1 .. Len(c) : d[k] # n
  BY <1>1 DEF In
<1>5. \A j, k \in 1 .. Len(d) : d[j] = d[k] => j = k
  BY <1>1, <1>2, <1>4
<1>6. Oldest(d) = (IF c = <<>> THEN n ELSE c[1]) /\ Newest(d) = n
  BY <1>1 DEF Oldest, Newest
<1>7. QED
  BY <1>1, <1>3, <1>5, <1>6 DEF d

LEMMA LinkShape ==
  ASSUME NEW c, Types, Mutex, Shape(c), NEW t \in Threads, EnqueueLink(t),
         NEW d, d = Append(c, mine[t])
  PROVE  Shape(d)'
<1> DEFINE n == mine[t]
<1>1. /\ pc[t] = "enq_link" /\ pc' = [pc EXCEPT ![t] = "post"]
      /\ allocated' = allocated /\ head' = head
      /\ mine' = mine /\ arg' = arg /\ was_empty' = was_empty
  BY DEF EnqueueLink, Goto, locals
<1>2. Chain(c) /\ Adding(c, t) /\ head = n
  BY <1>1 DEF Shape, Adding
<1>3. /\ n \in Nodes /\ n \notin In(c) /\ allocated = In(c) \cup {n}
      /\ node[n].next = Newest(c) /\ node[n].prev = NULL /\ was_empty[t] = (c = <<>>)
  BY <1>2 DEF Adding, Extra
<1>4. \A u \in Threads : u # t => pc'[u] \notin Middle
  BY <1>1, OthersOutside DEF Types, Outside
<1>5. pc'[t] = "post"
  BY <1>1 DEF Types
<1>6. /\ d \in Seq(Nodes) /\ Len(d) = Len(c) + 1 /\ d[Len(c) + 1] = n
      /\ \A k \in 1 .. Len(c) : d[k] = c[k]
      /\ In(d) = In(c) \cup {n}
      /\ \A j, k \in 1 .. Len(d) : d[j] = d[k] => j = k
      /\ Oldest(d) = (IF c = <<>> THEN n ELSE c[1]) /\ Newest(d) = n
  BY <1>2, <1>3, AppendFacts DEF Chain
<1> HIDE DEF n
<1>7. /\ Len(c) \in Nat /\ (c = <<>> <=> Len(c) = 0)
      /\ \A k \in 1 .. Len(c) : c[k] \in Nodes /\ c[k] # n
  <2>1. c \in Seq(Nodes)
    BY <1>2 DEF Chain
  <2>2. \A k \in 1 .. Len(c) : c[k] \in In(c)
    BY <1>2, ChainFacts
  <2>3. QED
    BY <1>3, <2>1, <2>2
<1>8. /\ \A x \in Nodes : node'[x].next = node[x].next
      /\ \A x \in Nodes : node'[x].prev = IF c # <<>> /\ x = Newest(c) THEN n ELSE node[x].prev
      /\ tail' = Oldest(d)
  <2>1. CASE c = <<>>
    <3>1. tail' = head /\ node' = node
      BY <1>3, <2>1 DEF EnqueueLink
    <3>2. QED
      BY <1>2, <1>6, <2>1, <3>1
  <2>2. CASE c # <<>>
    <3>1. node' = [node EXCEPT ![node[head].next].prev = head] /\ tail' = tail
      BY <1>3, <2>2 DEF EnqueueLink
    <3>2. node[head].next = Newest(c) /\ head = n /\ Newest(c) \in Nodes
      BY <1>2, <1>3, <2>2, ChainFacts
    <3>3. \A x \in Nodes : node'[x] = IF x = Newest(c) THEN [node[x] EXCEPT !.prev = n] ELSE node[x]
      BY <3>1, <3>2 DEF Types
    <3>4. \A x \in Nodes : /\ node'[x].next = node[x].next
                           /\ node'[x].prev = IF x = Newest(c) THEN n ELSE node[x].prev
      BY <3>3 DEF Types
    <3>5. tail = c[1]
      BY <1>2, <2>2 DEF Chain, Oldest
    <3>6. QED
      BY <1>6, <2>2, <3>1, <3>4, <3>5
  <2>3. QED
    BY <2>1, <2>2
<1>9. \A k \in 1 .. Len(d) : node'[d[k]].prev = IF k < Len(d) THEN d[k + 1] ELSE NULL
  <2> SUFFICES ASSUME NEW k \in 1 .. Len(d)
               PROVE  node'[d[k]].prev = IF k < Len(d) THEN d[k + 1] ELSE NULL
    OBVIOUS
  <2>1. CASE k = Len(c) + 1
    <3>1. d[k] = n /\ (c # <<>> => Newest(c) # n)
      BY <1>6, <1>7, <2>1 DEF Newest
    <3>2. node'[n].prev = NULL
      BY <1>3, <1>8, <3>1
    <3>3. QED
      BY <1>6, <1>7, <2>1, <3>1, <3>2
  <2>2. CASE k = Len(c)
    <3>1. d[k] = c[k] /\ c # <<>> /\ Newest(c) = c[k] /\ c[k] \in Nodes
      BY <1>6, <1>7, <2>2 DEF Newest
    <3>2. node'[d[k]].prev = n
      BY <1>8, <3>1
    <3>3. QED
      BY <1>6, <1>7, <2>2, <3>2
  <2>3. CASE k < Len(c)
    <3>1. d[k] = c[k] /\ c[k] \in Nodes /\ d[k + 1] = c[k + 1] /\ k < Len(d)
      BY <1>6, <1>7, <2>3
    <3>2. c[k] # Newest(c) /\ node[c[k]].prev = c[k + 1]
      BY <1>2, <1>7, <2>3 DEF Chain, Newest
    <3>3. QED
      BY <1>8, <3>1, <3>2
  <2>4. QED
    BY <1>6, <1>7, <2>1, <2>2, <2>3
<1>10. Chain(d)'
  BY <1>6, <1>8, <1>9 DEF Chain
<1>11. Quiet(d)'
  <2>1. \A k \in 1 .. Len(d) : node'[d[k]].next = IF k = 1 THEN NULL ELSE d[k - 1]
    <3> SUFFICES ASSUME NEW k \in 1 .. Len(d)
                 PROVE  node'[d[k]].next = IF k = 1 THEN NULL ELSE d[k - 1]
      OBVIOUS
    <3>1. CASE k = Len(c) + 1
      <4>1. node'[d[k]].next = Newest(c)
        BY <1>3, <1>6, <1>8, <3>1
      <4>2. k = 1 <=> c = <<>>
        BY <1>7, <3>1
      <4>3. k # 1 => d[k - 1] = c[Len(c)]
        BY <1>6, <1>7, <3>1
      <4>4. QED
        BY <4>1, <4>2, <4>3 DEF Newest
    <3>2. CASE k \in 1 .. Len(c)
      <4>1. node'[d[k]].next = IF k = 1 THEN NULL ELSE c[k - 1]
        BY <1>2, <1>6, <1>7, <1>8, <3>2 DEF Adding, NextLinks
      <4>2. k # 1 => d[k - 1] = c[k - 1]
        BY <1>6, <1>7, <3>2
      <4>3. QED
        BY <4>1, <4>2
    <3>3. QED
      BY <1>6, <1>7, <3>1, <3>2
  <2>2. head' = Newest(d) /\ allocated' = In(d)
    BY <1>1, <1>2, <1>3, <1>6
  <2>3. QED
    BY <2>1, <2>2 DEF Quiet, NextLinks
<1>12. QED
  BY <1>4, <1>5, <1>10, <1>11, ShapeIntro DEF Middle

LEMMA TailFacts ==
  ASSUME NEW c \in Seq(Nodes), c # <<>>,
         \A j, k \in 1 .. Len(c) : c[j] = c[k] => j = k
  PROVE  LET d == Tail(c) IN
         /\ d \in Seq(Nodes) /\ Len(d) = Len(c) - 1 /\ 1 \in 1 .. Len(c)
         /\ \A k \in 1 .. Len(d) : d[k] = c[k + 1] /\ k + 1 \in 1 .. Len(c)
         /\ (d = <<>> <=> Len(c) = 1)
         /\ In(c) = In(d) \cup {c[1]} /\ c[1] \notin In(d)
         /\ \A j, k \in 1 .. Len(d) : d[j] = d[k] => j = k
<1> DEFINE d == Tail(c)
<1>1. Len(c) \in Nat /\ Len(c) >= 1 /\ d \in Seq(Nodes) /\ Len(d) = Len(c) - 1
  OBVIOUS
<1>2. \A k \in 1 .. Len(d) : d[k] = c[k + 1]
  OBVIOUS
<1> HIDE DEF d
<1>3. d = <<>> <=> Len(d) = 0
  BY <1>1
<1>4. \A k \in 1 .. Len(d) : k + 1 \in 1 .. Len(c)
  BY <1>1
<1>5. In(c) = In(d) \cup {c[1]}
  <2>1. ASSUME NEW k \in 1 .. Len(c) PROVE c[k] \in In(d) \cup {c[1]}
    <3>1. CASE k = 1
      BY <3>1
    <3>2. CASE k # 1
      <4>1. k - 1 \in 1 .. Len(d) /\ (k - 1) + 1 = k
        BY <1>1, <3>2
      <4>2. d[k - 1] = c[k]
        BY <1>2, <4>1
      <4>3. QED
        BY <4>1, <4>2 DEF In
    <3>3. QED
      BY <3>1, <3>2
  <2>2. ASSUME NEW k \in 1 .. Len(d) PROVE d[k] \in In(c)
    BY <1>2, <1>4 DEF In
  <2>3. c[1] \in In(c)
    BY <1>1 DEF In
  <2>4. QED
    BY <2>1, <2>2, <2>3 DEF In
<1>6. c[1] \notin In(d)
  <2>1. ASSUME NEW k \in 1 .. Len(d), d[k] = c[1] PROVE FALSE
    <3>1. c[k + 1] = c[1] /\ k + 1 \in 1 .. Len(c) /\ 1 \in 1 .. Len(c)
      BY <1>1, <1>2, <1>4, <2>1
    <3>2. k + 1 = 1
      BY <3>1
    <3>3. QED
      BY <1>1, <3>2
  <2>2. QED
    BY <2>1 DEF In
<1>7. ASSUME NEW j \in 1 .. Len(d), NEW k \in 1 .. Len(d), d[j] = d[k] PROVE j = k
  <2>1. c[j + 1] = c[k + 1] /\ j + 1 \in 1 .. Len(c) /\ k + 1 \in 1 .. Len(c)
    BY <1>2, <1>4, <1>7
  <2>2. j + 1 = k + 1
    BY <2>1
  <2>3. QED
    BY <1>1, <2>2
<1>8. QED
  BY <1>1, <1>2, <1>3, <1>4, <1>5, <1>6, <1>7 DEF d

LEMMA TakeShape ==
  ASSUME NEW c, Types, Mutex, Shape(c), NEW t \in Threads, DequeueTail(t),
         NEW d, d = Tail(c)
  PROVE  /\ Shape(d)' /\ c # <<>> /\ tail = c[1]
         /\ \A x \in Nodes : node'[x] = node[x]
<1>1. /\ pc[t] = "deq_test" /\ pc' = [pc EXCEPT ![t] = "deq_head"]
      /\ allocated' = allocated /\ head' = head /\ node' = node
      /\ mine' = [mine EXCEPT ![t] = tail] /\ tail' = node[tail].prev /\ head # NULL
  BY DEF DequeueTail, Goto
<1>2. Chain(c) /\ Quiet(c)
  BY <1>1, QuietShape DEF Shape, Outside, Middle
<1>3. c # <<>> /\ tail = c[1] /\ c \in Seq(Nodes)
  <2>1. c # <<>>
    BY <1>1, <1>2, ChainFacts DEF Quiet
  <2>2. QED
    BY <1>2, <2>1 DEF Chain, Oldest
<1>4. \A u \in Threads : u # t => pc'[u] \notin Middle
  BY <1>1, OthersOutside DEF Types, Outside
<1>5. pc'[t] = "deq_head" /\ mine'[t] = c[1]
  BY <1>1, <1>3 DEF Types
<1>6. /\ d \in Seq(Nodes) /\ Len(d) = Len(c) - 1 /\ 1 \in 1 .. Len(c)
      /\ \A k \in 1 .. Len(d) : d[k] = c[k + 1] /\ k + 1 \in 1 .. Len(c)
      /\ (d = <<>> <=> Len(c) = 1)
      /\ In(c) = In(d) \cup {c[1]} /\ c[1] \notin In(d)
      /\ \A j, k \in 1 .. Len(d) : d[j] = d[k] => j = k
  BY <1>2, <1>3, TailFacts DEF Chain
<1>7. /\ Len(c) \in Nat /\ Len(d) \in Nat
      /\ \A k \in 1 .. Len(c) : c[k] \in Nodes
      /\ \A k \in 1 .. Len(c) : node[c[k]].prev = IF k < Len(c) THEN c[k + 1] ELSE NULL
      /\ \A k \in 1 .. Len(c) : node[c[k]].next = IF k = 1 THEN NULL ELSE c[k - 1]
  BY <1>2, <1>6, ChainFacts DEF Chain, Quiet, NextLinks
<1>8. tail' = Oldest(d)
  <2>1. tail' = IF 1 < Len(c) THEN c[2] ELSE NULL
    BY <1>1, <1>3, <1>6, <1>7
  <2>2. d # <<>> => 1 \in 1 .. Len(d) /\ 1 < Len(c) /\ d[1] = c[2]
    BY <1>6, <1>7
  <2>3. QED
    BY <1>6, <1>7, <2>1, <2>2 DEF Oldest
<1>9. \A k \in 1 .. Len(d) : node'[d[k]].prev = IF k < Len(d) THEN d[k + 1] ELSE NULL
  <2> SUFFICES ASSUME NEW k \in 1 .. Len(d)
               PROVE  node'[d[k]].prev = IF k < Len(d) THEN d[k + 1] ELSE NULL
    OBVIOUS
  <2>1. node'[d[k]].prev = IF k + 1 < Len(c) THEN c[k + 2] ELSE NULL
    BY <1>1, <1>6, <1>7
  <2>2. k < Len(d) => k + 1 \in 1 .. Len(d) /\ d[k + 1] = c[k + 2]
    BY <1>6, <1>7
  <2>3. k < Len(d) <=> k + 1 < Len(c)
    BY <1>6, <1>7
  <2>4. QED
    BY <2>1, <2>2, <2>3
<1>10. Chain(d)'
  BY <1>6, <1>8, <1>9 DEF Chain
<1>11. Removed(d, t)'
  <2>1. Extra(d, mine[t])'
    BY <1>1, <1>2, <1>5, <1>6, <1>7 DEF Extra, Quiet
  <2>2. \A k \in 1 .. Len(d) : node'[d[k]].next = IF k = 1 THEN c[1] ELSE d[k - 1]
    <3> SUFFICES ASSUME NEW k \in 1 .. Len(d)
                 PROVE  node'[d[k]].next = IF k = 1 THEN c[1] ELSE d[k - 1]
      OBVIOUS
    <3>1. node'[d[k]].next = c[k]
      <4>1. k + 1 \in 1 .. Len(c) /\ k + 1 # 1 /\ (k + 1) - 1 = k /\ d[k] = c[k + 1]
        BY <1>6
      <4>2. node[c[k + 1]].next = c[k]
        BY <1>7, <4>1
      <4>3. QED
        BY <1>1, <4>1, <4>2
    <3>2. k # 1 => k - 1 \in 1 .. Len(d) /\ (k - 1) + 1 = k
      BY <1>7
    <3>3. k # 1 => d[k - 1] = c[k]
      BY <1>6, <3>2
    <3>4. QED
      BY <3>1, <3>3
  <2>3. head' = IF d = <<>> THEN c[1] ELSE d[Len(d)]
    <3>1. head' = c[Len(c)]
      BY <1>1, <1>2, <1>3 DEF Quiet, Newest
    <3>2. CASE d = <<>>
      BY <1>6, <3>1, <3>2
    <3>3. CASE d # <<>>
      <4>1. Len(d) \in 1 .. Len(d) /\ Len(d) + 1 = Len(c)
        BY <1>6, <1>7, <3>3
      <4>2. QED
        BY <1>6, <3>1, <3>3, <4>1
    <3>4. QED
      BY <3>2, <3>3
  <2>4. QED
    BY <1>5, <2>1, <2>2, <2>3 DEF Removed, NextLinks
<1>12. Shape(d)'
  BY <1>4, <1>5, <1>10, <1>11, ShapeIntro DEF Middle
<1>13. QED
  BY <1>1, <1>3, <1>12

LEMMA UnlinkShape ==
  ASSUME NEW c, Types, Mutex, Shape(c), NEW t \in Threads, DequeueHead(t)
  PROVE  Shape(c)' /\ \A x \in Nodes : node'[x].buf = node[x].buf
<1>1. /\ pc[t] = "deq_head" /\ pc' = [pc EXCEPT ![t] = "deq_free"]
      /\ allocated' = allocated /\ tail' = tail /\ mine' = mine
  BY DEF DequeueHead, Goto, locals
<1>2. Chain(c) /\ Removed(c, t)
  BY <1>1 DEF Shape
<1>3. \A u \in Threads : u # t => pc'[u] \notin Middle
  BY <1>1, OthersOutside DEF Types, Outside
<1>4. pc'[t] = "deq_free"
  BY <1>1 DEF Types
<1>5. /\ tail = Oldest(c) /\ (tail = NULL <=> c = <<>>) /\ (c # <<>> => tail = c[1])
      /\ tail \in Nodes \cup {NULL}
      /\ \A k \in 1 .. Len(c) : c[k] \in Nodes
  BY <1>2, ChainFacts DEF Chain, Oldest
<1>6. /\ \A x \in Nodes : node'[x].prev = node[x].prev /\ node'[x].buf = node[x].buf
      /\ \A x \in Nodes : node'[x].next = IF x = tail THEN NULL ELSE node[x].next
      /\ head' = IF c = <<>> THEN NULL ELSE head
  <2>1. CASE tail = NULL
    <3>1. head' = NULL /\ node' = node
      BY <2>1 DEF DequeueHead
    <3>2. QED
      BY <1>5, <2>1, <3>1, NullOutside DEF NullIsNoNode
  <2>2. CASE tail # NULL
    <3>1. node' = [node EXCEPT ![tail].next = NULL] /\ head' = head
      BY <2>2 DEF DequeueHead
    <3>2. \A x \in Nodes : node'[x] = IF x = tail THEN [node[x] EXCEPT !.next = NULL] ELSE node[x]
      BY <3>1 DEF Types
    <3>3. QED
      BY <1>5, <2>2, <3>1, <3>2 DEF Types
  <2>3. QED
    BY <2>1, <2>2
<1>7. Chain(c)'
  BY <1>1, <1>2, <1>5, <1>6, ChainSame
<1>8. Unlinked(c, t)'
  <2>1. Extra(c, mine[t])'
    BY <1>1, <1>2 DEF Removed, Extra
  <2>2. NextLinks(c, NULL)'
    <3> SUFFICES ASSUME NEW k \in 1 .. Len(c)
                 PROVE  node'[c[k]].next = IF k = 1 THEN NULL ELSE c[k - 1]
      BY DEF NextLinks
    <3>1. c # <<>> /\ tail = c[1] /\ 1 \in 1 .. Len(c)
      BY <1>2, <1>5, ChainFacts DEF Chain
    <3>2. c[k] = tail <=> k = 1
      BY <1>2, <3>1 DEF Chain
    <3>3. k # 1 => node[c[k]].next = c[k - 1]
      BY <1>2 DEF Removed, NextLinks
    <3>4. QED
      BY <1>5, <1>6, <3>2, <3>3
  <2>3. head' = Newest(c)
    BY <1>2, <1>6 DEF Removed, Newest
  <2>4. QED
    BY <2>1, <2>2, <2>3 DEF Unlinked
<1>9. QED
  BY <1>3, <1>4, <1>6, <1>7, <1>8, ShapeIntro DEF Middle

LEMMA FreeShape ==
  ASSUME NEW c, Types, Mutex, Shape(c), NEW t \in Threads, DequeueFree(t)
  PROVE  Shape(c)' /\ \A k \in 1 .. Len(c) : node'[c[k]] = node[c[k]]
<1>1. /\ pc[t] = "deq_free" /\ pc' = [pc EXCEPT ![t] = "post"]
      /\ allocated' = allocated \ {mine[t]} /\ node' = [node EXCEPT ![mine[t]] = Blank]
      /\ tail' = tail /\ head' = head
  BY DEF DequeueFree, Goto
<1>2. Chain(c) /\ Unlinked(c, t)
  BY <1>1 DEF Shape
<1>3. \A u \in Threads : u # t => pc'[u] \notin Middle
  BY <1>1, OthersOutside DEF Types, Outside
<1>4. pc'[t] = "post"
  BY <1>1 DEF Types
<1>5. \A k \in 1 .. Len(c) : c[k] \in Nodes /\ c[k] # mine[t]
  BY <1>2, ChainFacts DEF Unlinked, Extra
<1>6. \A k \in 1 .. Len(c) : node'[c[k]] = node[c[k]]
  BY <1>1, <1>5 DEF Types
<1>7. Chain(c)'
  BY <1>1, <1>2, <1>6, ChainSame
<1>8. Quiet(c)'
  BY <1>1, <1>2, <1>6 DEF Unlinked, Extra, Quiet, NextLinks
<1>9. QED
  BY <1>3, <1>4, <1>6, <1>7, <1>8, ShapeIntro DEF Middle

-----------------------------------------------------------------------------
(* The inductive invariant *)

QueueInv == Types /\ Mutex /\ \E c : Shape(c)

LEMMA InitQueueInv == Init => QueueInv
<1> SUFFICES ASSUME Init PROVE QueueInv
  OBVIOUS
<1>1. Types
  BY NullOutside DEF Init, Types, Blank, NullIsNoNode, Steps
<1>2. Mutex
  BY DEF Init, Mutex, Outside
<1> DEFINE c == <<>>
<1>3. c \in Seq(Nodes) /\ Len(c) = 0 /\ In(c) = {}
  BY DEF In
<1>4. Chain(c) /\ Quiet(c)
  BY <1>3 DEF Init, Chain, Quiet, NextLinks, Oldest, Newest
<1>5. \A t \in Threads : pc[t] = "idle"
  BY DEF Init
<1> HIDE DEF c
<1>6. Shape(c)
  BY <1>4, <1>5 DEF Shape
<1>7. QED
  BY <1>1, <1>2, <1>6 DEF QueueInv

(* The end of the list that dequeue reads is a node. *)
LEMMA TailIsNode ==
  ASSUME QueueInv, NEW t \in Threads, DequeueTail(t)
  PROVE  tail \in Nodes
<1>1. PICK c : Shape(c)
  BY DEF QueueInv
<1>2. Chain(c) /\ Quiet(c)
  BY <1>1, QuietShape DEF Shape, QueueInv, DequeueTail, Outside, Middle
<1>3. head # NULL
  BY DEF DequeueTail
<1>4. QED
  BY <1>2, <1>3, ChainFacts DEF Quiet, Chain

LEMMA TypesStep == QueueInv /\ [Next]_vars => Types'
<1> SUFFICES ASSUME QueueInv, [Next]_vars PROVE Types'
  OBVIOUS
<1>1. Types
  BY DEF QueueInv
<1>2. CASE UNCHANGED vars
  BY <1>1, <1>2 DEF Types, vars, list, locals
<1>3. ASSUME NEW t \in Threads, Call(t) PROVE Types'
  BY <1>1, <1>3 DEF Call, Goto, Types, list, Steps
<1>4. ASSUME NEW t \in Threads, Enter(t) PROVE Types'
  BY <1>1, <1>4 DEF Enter, Wait, Goto, Types, list, locals, Steps
<1>5. ASSUME NEW t \in Threads, EnqueueAlloc(t) PROVE Types'
  <2>1. PICK n \in Nodes \ allocated :
          /\ allocated' = allocated \cup {n}
          /\ node' = [node EXCEPT ![n] = [buf |-> arg[t], next |-> head, prev |-> NULL]]
          /\ mine' = [mine EXCEPT ![t] = n]
    BY <1>5 DEF EnqueueAlloc
  <2>2. [buf |-> arg[t], next |-> head, prev |-> NULL]
          \in [buf : Bufs \cup {NoBuf}, next : Nodes \cup {NULL}, prev : Nodes \cup {NULL}]
    BY <1>1 DEF Types
  <2>3. node' \in [Nodes -> [buf : Bufs \cup {NoBuf}, next : Nodes \cup {NULL},
                             prev : Nodes \cup {NULL}]]
    BY <1>1, <2>1, <2>2 DEF Types
  <2>4. QED
    BY <1>1, <1>5, <2>1, <2>3 DEF EnqueueAlloc, Goto, Types, Steps
<1>6. ASSUME NEW t \in Threads, EnqueueNoMemory(t) PROVE Types'
  BY <1>1, <1>6 DEF EnqueueNoMemory, Types, list, locals
<1>7. ASSUME NEW t \in Threads, EnqueueHead(t) PROVE Types'
  BY <1>1, <1>7 DEF EnqueueHead, Goto, Types, locals, Steps
<1>8. ASSUME NEW t \in Threads, EnqueueLink(t) PROVE Types'
  <2>1. node' \in [Nodes -> [buf : Bufs \cup {NoBuf}, next : Nodes \cup {NULL},
                             prev : Nodes \cup {NULL}]]
    BY <1>1, <1>8 DEF EnqueueLink, Types
  <2>2. QED
    BY <1>1, <1>8, <2>1 DEF EnqueueLink, Goto, Types, locals, Steps
<1>9. ASSUME NEW t \in Threads, DequeueNothing(t) PROVE Types'
  BY <1>1, <1>9 DEF DequeueNothing, Goto, Types, list, Steps
<1>10. ASSUME NEW t \in Threads, DequeueTail(t) PROVE Types'
  <2>1. tail \in Nodes /\ node[tail].buf \in Bufs \cup {NoBuf}
    BY <1>1, <1>10, TailIsNode DEF Types
  <2>2. QED
    BY <1>1, <1>10, <2>1 DEF DequeueTail, Goto, Types, Steps
<1>11. ASSUME NEW t \in Threads, DequeueHead(t) PROVE Types'
  <2>1. node' \in [Nodes -> [buf : Bufs \cup {NoBuf}, next : Nodes \cup {NULL},
                             prev : Nodes \cup {NULL}]]
    BY <1>1, <1>11 DEF DequeueHead, Types
  <2>2. QED
    BY <1>1, <1>11, <2>1 DEF DequeueHead, Goto, Types, locals, Steps
<1>12. ASSUME NEW t \in Threads, DequeueFree(t) PROVE Types'
  <2>1. node' \in [Nodes -> [buf : Bufs \cup {NoBuf}, next : Nodes \cup {NULL},
                             prev : Nodes \cup {NULL}]]
    BY <1>1, <1>12 DEF DequeueFree, Types, Blank
  <2>2. QED
    BY <1>1, <1>12, <2>1 DEF DequeueFree, Goto, Types, locals, Steps
<1>13. ASSUME NEW t \in Threads, IsEmpty(t) PROVE Types'
  BY <1>1, <1>13 DEF IsEmpty, Goto, Types, list, Steps
<1>14. ASSUME NEW t \in Threads, Post(t) PROVE Types'
  BY <1>1, <1>14 DEF Post, Forget, Goto, Types, list, Steps, NULL
<1>15. QED
  BY <1>2, <1>3, <1>4, <1>5, <1>6, <1>7, <1>8, <1>9, <1>10, <1>11, <1>12, <1>13, <1>14
  DEF Next, Locked

(* Only sem_wait and sem_post move a thread between outside and inside. *)
LEMMA MutexStep == Types /\ Mutex /\ [Next]_vars => Mutex'
<1> SUFFICES ASSUME Types, Mutex, [Next]_vars PROVE Mutex'
  OBVIOUS
<1> DEFINE Stays == /\ wrt' = wrt
                    /\ \A u \in Threads : pc'[u] \in Outside <=> pc[u] \in Outside
<1>1. ASSUME Stays PROVE Mutex'
  BY <1>1 DEF Mutex
<1>2. CASE UNCHANGED vars
  BY <1>1, <1>2 DEF vars
<1>3. ASSUME NEW t \in Threads, Call(t) PROVE Mutex'
  <2>1. Stays
    BY <1>3 DEF Call, Goto, Types, Outside
  <2>2. QED
    BY <1>1, <2>1
<1>4. ASSUME NEW t \in Threads, Enter(t) PROVE Mutex'
  <2>1. /\ wrt = 1 /\ wrt' = 0
        /\ \A u \in Threads : u # t => pc'[u] = pc[u]
    BY <1>4 DEF Enter, Wait, Goto, Types
  <2>2. \A u \in Threads : pc[u] \in Outside
    BY <2>1 DEF Mutex
  <2>3. QED
    BY <2>1, <2>2 DEF Mutex
<1>5. ASSUME NEW t \in Threads, Post(t) PROVE Mutex'
  <2>1. pc[t] \notin Outside
    BY <1>5 DEF Post, Outside
  <2>2. \A u \in Threads : u # t => pc[u] \in Outside
    BY <2>1, OthersOutside
  <2>3. \A u \in Threads : pc'[u] \in Outside
    BY <1>5, <2>2 DEF Post, Goto, Types, Outside
  <2>4. QED
    BY <2>3 DEF Mutex
<1>6. ASSUME NEW t \in Threads, Locked(t), ~Post(t) PROVE Mutex'
  <2>1. CASE EnqueueAlloc(t) \/ EnqueueHead(t) \/ EnqueueLink(t)
    <3>1. Stays
      BY <2>1 DEF EnqueueAlloc, EnqueueHead, EnqueueLink, Goto, Types, Outside
    <3>2. QED
      BY <1>1, <3>1
  <2>2. CASE EnqueueNoMemory(t) \/ DequeueNothing(t) \/ IsEmpty(t)
    <3>1. Stays
      BY <2>2 DEF EnqueueNoMemory, DequeueNothing, IsEmpty, Goto, Types, Outside
    <3>2. QED
      BY <1>1, <3>1
  <2>3. CASE DequeueTail(t) \/ DequeueHead(t) \/ DequeueFree(t)
    <3>1. Stays
      BY <2>3 DEF DequeueTail, DequeueHead, DequeueFree, Goto, Types, Outside
    <3>2. QED
      BY <1>1, <3>1
  <2>4. QED
    BY <1>6, <2>1, <2>2, <2>3 DEF Locked
<1>7. QED
  BY <1>2, <1>3, <1>4, <1>5, <1>6 DEF Next

LEMMA ShapeStep == QueueInv /\ [Next]_vars => \E c : Shape(c)'
<1> SUFFICES ASSUME QueueInv, [Next]_vars PROVE \E c : Shape(c)'
  OBVIOUS
<1>1. PICK c : Types /\ Mutex /\ Shape(c)
  BY DEF QueueInv
<1>2. CASE UNCHANGED vars
  <2>1. CASE Threads = {}
    <3>1. Shape(c)'
      BY <1>1, <1>2, <2>1, ShapeSame DEF vars
    <3>2. QED
      BY <3>1
  <2>2. CASE Threads # {}
    <3>1. PICK t \in Threads : TRUE
      BY <2>2
    <3>2. Shape(c)'
      BY <1>1, <1>2, <3>1, QuietSteps
    <3>3. QED
      BY <3>2
  <2>3. QED
    BY <2>1, <2>2
<1>3. ASSUME NEW t \in Threads,
             \/ Call(t) \/ Enter(t) \/ EnqueueNoMemory(t) \/ DequeueNothing(t)
             \/ IsEmpty(t) \/ Post(t)
      PROVE  \E d : Shape(d)'
  <2>1. Shape(c)'
    BY <1>1, <1>3, QuietSteps
  <2>2. QED
    BY <2>1
<1>4. ASSUME NEW t \in Threads, EnqueueAlloc(t) PROVE \E d : Shape(d)'
  <2>1. Shape(c)'
    BY <1>1, <1>4, AllocShape
  <2>2. QED
    BY <2>1
<1>5. ASSUME NEW t \in Threads, EnqueueHead(t) PROVE \E d : Shape(d)'
  <2>1. Shape(c)'
    BY <1>1, <1>5, EnqHeadShape
  <2>2. QED
    BY <2>1
<1>6. ASSUME NEW t \in Threads, EnqueueLink(t) PROVE \E d : Shape(d)'
  <2>1. PICK d : d = Append(c, mine[t])
    OBVIOUS
  <2>2. Shape(d)'
    BY <1>1, <1>6, <2>1, LinkShape
  <2>3. QED
    BY <2>2
<1>7. ASSUME NEW t \in Threads, DequeueTail(t) PROVE \E d : Shape(d)'
  <2>1. PICK d : d = Tail(c)
    OBVIOUS
  <2>2. Shape(d)'
    BY <1>1, <1>7, <2>1, TakeShape
  <2>3. QED
    BY <2>2
<1>8. ASSUME NEW t \in Threads, DequeueHead(t) PROVE \E d : Shape(d)'
  <2>1. Shape(c)'
    BY <1>1, <1>8, UnlinkShape
  <2>2. QED
    BY <2>1
<1>9. ASSUME NEW t \in Threads, DequeueFree(t) PROVE \E d : Shape(d)'
  <2>1. Shape(c)'
    BY <1>1, <1>9, FreeShape
  <2>2. QED
    BY <2>1
<1>10. QED
  BY <1>2, <1>3, <1>4, <1>5, <1>6, <1>7, <1>8, <1>9 DEF Next, Locked

LEMMA QueueInvariant == Spec => []QueueInv
<1>1. QueueInv /\ [Next]_vars => QueueInv'
  BY TypesStep, MutexStep, ShapeStep DEF QueueInv
<1>2. QED
  BY <1>1, InitQueueInv, PTL DEF Spec

(* Every field has its type, and head and tail never dangle: they are NULL  *)
(* or a node that malloc has handed out and that is not yet freed, at every  *)
(* step of enqueue and dequeue.                                              *)
THEOREM QueueTypeCorrect == Spec => []TypeOK
<1>1. QueueInv => TypeOK
  <2> SUFFICES ASSUME QueueInv PROVE TypeOK
    OBVIOUS
  <2>1. PICK c : Shape(c)
    BY DEF QueueInv
  <2>2. In(c) \subseteq allocated /\ head \in allocated \cup {NULL}
    <3>1. Oldest(c) \in In(c) \cup {NULL} /\ Newest(c) \in In(c) \cup {NULL}
          /\ (c # <<>> => c[Len(c)] \in In(c))
      BY <2>1, ChainFacts DEF Shape
    <3>2. CASE \A t \in Threads : pc[t] \notin Middle
      BY <2>1, <3>1, <3>2 DEF Shape, Quiet
    <3>3. ASSUME NEW t \in Threads, pc[t] \in Middle
          PROVE  In(c) \subseteq allocated /\ head \in allocated \cup {NULL}
      <4>1. CASE pc[t] \in {"enq_head", "enq_link"}
        BY <2>1, <3>1, <4>1 DEF Shape, Adding, Extra
      <4>2. CASE pc[t] = "deq_head"
        BY <2>1, <3>1, <4>2 DEF Shape, Removed, Extra
      <4>3. CASE pc[t] = "deq_free"
        BY <2>1, <3>1, <4>3 DEF Shape, Unlinked, Extra
      <4>4. QED
        BY <3>3, <4>1, <4>2, <4>3 DEF Middle
    <3>4. QED
      BY <3>2, <3>3
  <2>3. tail \in allocated \cup {NULL}
    BY <2>1, <2>2, ChainFacts DEF Shape, Chain
  <2>4. QED
    BY <2>2, <2>3 DEF QueueInv, Types, TypeOK
<1>2. QED
  BY <1>1, QueueInvariant, PTL

(* Whenever the semaphore is free the list reads the same in both           *)
(* directions, holds exactly the memory in use, and no node twice           *)
(* (queue.c, after every sem_post).                                         *)
THEOREM ListWhole == Spec => []ListOK
<1>1. QueueInv => ListOK
  <2> SUFFICES ASSUME QueueInv, wrt = 1
               PROVE  /\ FromHead = Reverse(FromTail)
                      /\ Range(FromTail) = allocated
                      /\ IsInjective(FromTail)
    BY DEF ListOK
  <2>1. PICK c : Shape(c)
    BY DEF QueueInv
  <2>2. \A t \in Threads : pc[t] \notin Middle
    BY DEF QueueInv, Mutex, Outside, Middle
  <2>3. Chain(c) /\ Quiet(c)
    BY <2>1, <2>2 DEF Shape
  <2>4. FromTail = c /\ FromHead = Reverse(c)
    BY <2>3, FromTailIs, FromHeadIs
  <2>5. DOMAIN c = 1 .. Len(c)
    BY <2>3 DEF Chain
  <2>6. Range(c) = allocated
    BY <2>3, <2>5 DEF Quiet, In, Range
  <2>7. IsInjective(c)
    BY <2>3, <2>5 DEF Chain, IsInjective
  <2>8. QED
    BY <2>4, <2>6, <2>7
<1>2. QED
  BY <1>1, QueueInvariant, PTL

-----------------------------------------------------------------------------
(* The refinement of FIFOQueue *)

(* What the abstract queue sees of pc, and the buffers of the nodes of c. *)
OpAt(s) ==
  CASE s \in {"idle", "enqueue", "dequeue", "is_empty"} -> s
    [] s \in {"enq_alloc", "enq_head", "enq_link"}      -> "enqueue"
    [] s = "deq_test"                                   -> "dequeue"
    [] s = "empty_test"                                 -> "is_empty"
    [] OTHER                                            -> "return"

Ops == [t \in Threads |-> Operation(t)]

BufsOf(c) == [k \in 1 .. Len(c) |-> node[c[k]].buf]

LEMMA ContentsIs ==
  ASSUME NEW c, Chain(c)
  PROVE  Contents = BufsOf(c)
BY FromTailIs DEF Contents, BufsOf

LEMMA ContentsNext ==
  ASSUME NEW c, Chain(c)'
  PROVE  Contents' = BufsOf(c)'
<1>1. FromTail' = c
  BY FromTailNext
<1>2. QED
  BY <1>1 DEF Contents, BufsOf

LEMMA ContentsKept ==
  ASSUME NEW c, Chain(c), Chain(c)', \A k \in 1 .. Len(c) : node'[c[k]].buf = node[c[k]].buf
  PROVE  Contents' = Contents
<1>1. BufsOf(c)' = BufsOf(c)
  BY DEF BufsOf
<1>2. QED
  BY <1>1, ContentsIs, ContentsNext

LEMMA OpMoves ==
  ASSUME Types, NEW t \in Threads, NEW s, Goto(t, s)
  PROVE  Ops[t] = OpAt(pc[t]) /\ Ops' = [Ops EXCEPT ![t] = OpAt(s)]
<1>1. Ops[t] = OpAt(pc[t])
  BY DEF Ops, Operation, OpAt
<1>2. pc'[t] = s /\ \A u \in Threads \ {t} : pc'[u] = pc[u]
  BY DEF Types, Goto
<1>3. Ops'[t] = OpAt(s) /\ \A u \in Threads \ {t} : Ops'[u] = Ops[u]
  BY <1>2 DEF Ops, Operation, OpAt
<1>4. Ops = [u \in Threads |-> Ops[u]] /\ Ops' = [u \in Threads |-> Ops'[u]]
  BY DEF Ops
<1> HIDE DEF Ops
<1>5. QED
  BY <1>1, <1>3, <1>4

QueueStep == FIFO!QNext \/ UNCHANGED FIFO!qvars

(* A step that takes no effect. *)
LEMMA QueueStutters ==
  ASSUME QueueInv, NEW t \in Threads, NEW s, Goto(t, s), OpAt(s) = OpAt(pc[t]),
         UNCHANGED <<Contents, arg, result>>
  PROVE  QueueStep
<1>1. Ops[t] = OpAt(pc[t]) /\ Ops' = [Ops EXCEPT ![t] = OpAt(s)]
  BY OpMoves DEF QueueInv
<1>2. Ops = [u \in Threads |-> Ops[u]]
  BY DEF Ops
<1> HIDE DEF Ops
<1>3. Ops' = Ops
  BY <1>1, <1>2
<1>4. QED
  BY <1>3 DEF QueueStep, FIFO!qvars, Ops

(* The three kinds of operation take effect. *)
LEMMA QueueEffect ==
  ASSUME QueueInv, NEW t \in Threads, Goto(t, "post"), UNCHANGED arg,
         \/ /\ OpAt(pc[t]) = "enqueue"
            /\ Contents' = Append(Contents, arg[t]) /\ result' = result
         \/ /\ OpAt(pc[t]) = "dequeue" /\ Contents = <<>>
            /\ Contents' = Contents /\ result' = [result EXCEPT ![t] = NoBuf]
         \/ /\ OpAt(pc[t]) = "is_empty" /\ Contents' = Contents
            /\ result' = [result EXCEPT ![t] = IF Contents = <<>> THEN "yes" ELSE "no"]
  PROVE  QueueStep
<1>1. Ops[t] = OpAt(pc[t]) /\ Ops' = [Ops EXCEPT ![t] = "return"]
  <2>1. OpAt("post") = "return"
    BY DEF OpAt
  <2>2. QED
    BY <2>1, OpMoves DEF QueueInv
<1>2. [u \in Threads |-> Operation(u)][t] = OpAt(pc[t])
  BY <1>1 DEF Ops
<1>3. FIFO!QEffect(t)
  <2>1. CASE /\ OpAt(pc[t]) = "enqueue"
             /\ Contents' = Append(Contents, arg[t]) /\ result' = result
    <3>1. [u \in Threads |-> Operation(u)][t] = "enqueue"
      BY <1>2, <2>1
    <3>2. QED
      BY <1>1, <2>1, <3>1 DEF FIFO!QEffect, Ops
  <2>2. CASE /\ OpAt(pc[t]) = "dequeue" /\ Contents = <<>>
             /\ Contents' = Contents /\ result' = [result EXCEPT ![t] = NoBuf]
    <3>1. [u \in Threads |-> Operation(u)][t] = "dequeue"
      BY <1>2, <2>2
    <3>2. QED
      BY <1>1, <2>2, <3>1 DEF FIFO!QEffect, Ops
  <2>3. CASE /\ OpAt(pc[t]) = "is_empty" /\ Contents' = Contents
             /\ result' = [result EXCEPT ![t] = IF Contents = <<>> THEN "yes" ELSE "no"]
    <3>1. [u \in Threads |-> Operation(u)][t] = "is_empty"
      BY <1>2, <2>3
    <3>2. QED
      BY <1>1, <2>3, <3>1 DEF FIFO!QEffect, Ops
  <2>4. QED
    BY <2>1, <2>2, <2>3
<1>4. QED
  BY <1>3 DEF QueueStep, FIFO!QNext

(* A dequeue takes effect when the tail moves. *)
LEMMA QueueTakes ==
  ASSUME QueueInv, NEW t \in Threads, DequeueTail(t)
  PROVE  QueueStep
<1>1. PICK c : Types /\ Mutex /\ Shape(c)
  BY DEF QueueInv
<1>2. PICK d : d = Tail(c)
  OBVIOUS
<1>3. /\ Shape(d)' /\ Chain(c) /\ Chain(d)' /\ c # <<>> /\ tail = c[1]
      /\ \A x \in Nodes : node'[x] = node[x]
  <2>1. Shape(d)' /\ c # <<>> /\ tail = c[1] /\ \A x \in Nodes : node'[x] = node[x]
    BY <1>1, <1>2, TakeShape
  <2>2. QED
    BY <1>1, <2>1 DEF Shape
<1>4. Contents = BufsOf(c) /\ Contents' = BufsOf(d)'
  BY <1>3, ContentsIs, ContentsNext
<1>5. /\ c \in Seq(Nodes) /\ Len(c) \in Nat /\ Len(c) >= 1 /\ Len(d) = Len(c) - 1
      /\ \A k \in 1 .. Len(d) : d[k] = c[k + 1] /\ k + 1 \in 1 .. Len(c)
      /\ \A k \in 1 .. Len(c) : c[k] \in Nodes
  BY <1>2, <1>3, TailFacts DEF Chain
<1> DEFINE buf(x) == node[x].buf
           C == [k \in 1 .. Len(c) |-> buf(c[k])]
           D == [k \in 1 .. Len(d) |-> buf(d[k])]
<1>6. C = BufsOf(c) /\ D = BufsOf(d)'
  <2>1. \A k \in 1 .. Len(d) : node'[d[k]].buf = node[d[k]].buf
    BY <1>3, <1>5
  <2>2. QED
    BY <2>1 DEF BufsOf
<1> HIDE DEF buf
<1>7. C # <<>> /\ Head(C) = buf(c[1]) /\ Tail(C) = D
  <2>1. C # <<>> /\ Len(C) = Len(c) /\ C[1] = buf(c[1])
    BY <1>5
  <2>2. Head(C) = C[1]
    BY <2>1
  <2>3. Tail(C) = [k \in 1 .. Len(c) - 1 |-> C[k + 1]]
    BY <2>1
  <2>4. \A k \in 1 .. Len(c) - 1 : C[k + 1] = buf(d[k])
    BY <1>5
  <2>5. QED
    BY <1>5, <2>1, <2>2, <2>3, <2>4
<1> HIDE DEF C, D
<1>8. Contents # <<>> /\ Head(Contents) = node[tail].buf /\ Contents' = Tail(Contents)
  BY <1>3, <1>4, <1>6, <1>7 DEF buf
<1>9. Ops[t] = "dequeue" /\ Ops' = [Ops EXCEPT ![t] = "return"]
  <2>1. OpAt("deq_head") = "return" /\ OpAt("deq_test") = "dequeue"
    BY DEF OpAt
  <2>2. pc[t] = "deq_test" /\ Goto(t, "deq_head")
    BY DEF DequeueTail
  <2>3. Ops[t] = OpAt(pc[t]) /\ Ops' = [Ops EXCEPT ![t] = OpAt("deq_head")]
    BY <1>1, <2>2, OpMoves
  <2>4. QED
    BY <2>1, <2>2, <2>3
<1>10. [u \in Threads |-> Operation(u)][t] = "dequeue"
  BY <1>9 DEF Ops
<1>11. result' = [result EXCEPT ![t] = Head(Contents)] /\ arg' = arg
  <2>1. result' = [result EXCEPT ![t] = node[tail].buf] /\ arg' = arg
    BY DEF DequeueTail
  <2>2. QED
    BY <1>8, <2>1, Zenon
<1>12. FIFO!QEffect(t)
  BY <1>8, <1>9, <1>10, <1>11 DEF FIFO!QEffect, Ops
<1>13. QED
  BY <1>12 DEF QueueStep, FIFO!QNext

(* An enqueue takes effect when the new node is linked behind the others. *)
LEMMA QueueLinks ==
  ASSUME QueueInv, NEW t \in Threads, EnqueueLink(t)
  PROVE  QueueStep
<1>1. PICK c : Types /\ Mutex /\ Shape(c)
  BY DEF QueueInv
<1>2. PICK d : d = Append(c, mine[t])
  OBVIOUS
<1>3. /\ pc[t] = "enq_link" /\ Goto(t, "post") /\ arg' = arg /\ result' = result
  BY DEF EnqueueLink, locals
<1>4. Chain(c) /\ Chain(d)' /\ Adding(c, t)
  <2>1. Shape(d)'
    BY <1>1, <1>2, LinkShape
  <2>2. QED
    BY <1>1, <1>3, <2>1 DEF Shape
<1>5. \A x \in Nodes : node'[x].buf = node[x].buf
  BY <1>1 DEF EnqueueLink, Types
<1>6. /\ c \in Seq(Nodes) /\ Len(c) \in Nat /\ Len(d) = Len(c) + 1 /\ d[Len(c) + 1] = mine[t]
      /\ \A k \in 1 .. Len(c) : d[k] = c[k] /\ c[k] \in Nodes
      /\ mine[t] \in Nodes /\ node[mine[t]].buf = arg[t]
  BY <1>2, <1>4, AppendFacts DEF Chain, Adding, Extra
<1>7. Contents' = Append(Contents, arg[t])
  <2> DEFINE C == BufsOf(c)
             D == BufsOf(d)'
  <2>1. Contents = C /\ Contents' = D
    BY <1>4, ContentsIs, ContentsNext
  <2>2. Len(C) = Len(c) /\ \A k \in 1 .. Len(c) : C[k] = node[c[k]].buf
    BY <1>6 DEF BufsOf
  <2>3. D = [k \in 1 .. Len(c) + 1 |-> node'[d[k]].buf]
    BY <1>6 DEF BufsOf
  <2> HIDE DEF C, D
  <2>4. \A k \in 1 .. Len(c) : node'[d[k]].buf = C[k]
    BY <1>5, <1>6, <2>2
  <2>5. node'[d[Len(c) + 1]].buf = arg[t]
    BY <1>5, <1>6
  <2>6. Append(C, arg[t]) = [k \in 1 .. Len(C) + 1 |-> IF k = Len(C) + 1 THEN arg[t] ELSE C[k]]
    BY <2>2
  <2>7. D = Append(C, arg[t])
    BY <1>6, <2>2, <2>3, <2>4, <2>5, <2>6
  <2>8. QED
    BY <2>1, <2>7
<1>8. OpAt(pc[t]) = "enqueue"
  BY <1>3 DEF OpAt
<1>9. QED
  BY <1>3, <1>7, <1>8, QueueEffect

(* The queue is empty exactly when head is NULL, for those who look inside. *)
LEMMA QueueLooks ==
  ASSUME QueueInv, NEW t \in Threads, DequeueNothing(t) \/ IsEmpty(t)
  PROVE  QueueStep
<1>1. PICK c : Types /\ Mutex /\ Shape(c)
  BY DEF QueueInv
<1>2. Chain(c) /\ Quiet(c)
  BY <1>1, QuietShape DEF Shape, DequeueNothing, IsEmpty, Outside, Middle
<1>3. /\ Goto(t, "post") /\ UNCHANGED arg /\ UNCHANGED list
  BY DEF DequeueNothing, IsEmpty
<1>4. Contents' = Contents
  BY <1>3 DEF Contents, FromTail, list
<1>5. Contents = <<>> <=> head = NULL
  <2>1. Contents = BufsOf(c) /\ Len(c) \in Nat
    BY <1>2, ContentsIs, ChainFacts
  <2>2. Len(BufsOf(c)) = Len(c)
    BY <2>1 DEF BufsOf
  <2>3. BufsOf(c) = <<>> <=> Len(c) = 0
    BY <2>1 DEF BufsOf
  <2>4. c = <<>> <=> Len(c) = 0
    BY <1>2 DEF Chain
  <2>5. head = NULL <=> c = <<>>
    BY <1>2, ChainFacts DEF Quiet
  <2>6. QED
    BY <2>1, <2>3, <2>4, <2>5
<1>6. CASE DequeueNothing(t)
  <2>1. OpAt(pc[t]) = "dequeue"
    BY <1>6 DEF DequeueNothing, OpAt
  <2>2. head = NULL /\ result' = [result EXCEPT ![t] = NoBuf]
    BY <1>6 DEF DequeueNothing
  <2>3. QED
    BY <1>3, <1>4, <1>5, <2>1, <2>2, QueueEffect
<1>7. CASE IsEmpty(t)
  <2>1. OpAt(pc[t]) = "is_empty"
    BY <1>7 DEF IsEmpty, OpAt
  <2>2. result' = [result EXCEPT ![t] = IF head = NULL THEN "yes" ELSE "no"]
    BY <1>7 DEF IsEmpty
  <2>3. result' = [result EXCEPT ![t] = IF Contents = <<>> THEN "yes" ELSE "no"]
    BY <1>5, <2>2
  <2>4. QED
    BY <1>3, <1>4, <2>1, <2>3, QueueEffect
<1>8. QED
  BY <1>6, <1>7

(* The steps on the list that the threads do not see. *)
LEMMA QueueWorks ==
  ASSUME QueueInv, NEW t \in Threads,
         \/ Enter(t) \/ EnqueueAlloc(t) \/ EnqueueHead(t) \/ DequeueHead(t) \/ DequeueFree(t)
  PROVE  QueueStep
<1>1. PICK c : Types /\ Mutex /\ Shape(c)
  BY DEF QueueInv
<1>2. Chain(c) /\ \A k \in 1 .. Len(c) : c[k] \in Nodes
  BY <1>1, ChainFacts DEF Shape
<1>3. CASE Enter(t)
  <2>1. PICK s \in {"enq_alloc", "deq_test", "empty_test"} :
          Goto(t, s) /\ OpAt(s) = OpAt(pc[t])
    BY <1>3 DEF Enter, Wait, OpAt
  <2>2. Contents' = Contents /\ arg' = arg /\ result' = result
    BY <1>3 DEF Enter, Wait, list, locals, Contents, FromTail
  <2>3. QED
    BY <2>1, <2>2, QueueStutters
<1>4. CASE EnqueueAlloc(t)
  <2>1. Goto(t, "enq_head") /\ OpAt("enq_head") = OpAt(pc[t]) /\ arg' = arg /\ result' = result
    BY <1>4 DEF EnqueueAlloc, OpAt
  <2>2. Chain(c)'
    BY <1>1, <1>4, AllocShape DEF Shape
  <2>3. \A k \in 1 .. Len(c) : node'[c[k]].buf = node[c[k]].buf
    <3>1. PICK n \in Nodes \ allocated :
            node' = [node EXCEPT ![n] = [buf |-> arg[t], next |-> head, prev |-> NULL]]
      BY <1>4 DEF EnqueueAlloc
    <3>2. Quiet(c)
      BY <1>1, <1>4, QuietShape DEF EnqueueAlloc, Outside, Middle
    <3>3. \A k \in 1 .. Len(c) : c[k] # n
      BY <1>2, <3>1, <3>2, ChainFacts DEF Quiet
    <3>4. QED
      BY <1>1, <1>2, <3>1, <3>3 DEF Types
  <2>4. Contents' = Contents
    BY <1>2, <2>2, <2>3, ContentsKept
  <2>5. QED
    BY <2>1, <2>4, QueueStutters
<1>5. CASE EnqueueHead(t)
  <2>1. Goto(t, "enq_link") /\ OpAt("enq_link") = OpAt(pc[t]) /\ arg' = arg /\ result' = result
    BY <1>5 DEF EnqueueHead, OpAt, locals
  <2>2. Contents' = Contents
    BY <1>5 DEF EnqueueHead, Contents, FromTail
  <2>3. QED
    BY <2>1, <2>2, QueueStutters
<1>6. CASE DequeueHead(t)
  <2>1. Goto(t, "deq_free") /\ OpAt("deq_free") = OpAt(pc[t]) /\ arg' = arg /\ result' = result
    BY <1>6 DEF DequeueHead, OpAt, locals
  <2>2. Chain(c)' /\ \A x \in Nodes : node'[x].buf = node[x].buf
    BY <1>1, <1>6, UnlinkShape DEF Shape
  <2>3. Contents' = Contents
    BY <1>2, <2>2, ContentsKept
  <2>4. QED
    BY <2>1, <2>3, QueueStutters
<1>7. CASE DequeueFree(t)
  <2>1. Goto(t, "post") /\ OpAt("post") = OpAt(pc[t]) /\ arg' = arg /\ result' = result
    BY <1>7 DEF DequeueFree, OpAt, locals
  <2>2. Chain(c)' /\ \A k \in 1 .. Len(c) : node'[c[k]] = node[c[k]]
    BY <1>1, <1>7, FreeShape DEF Shape
  <2>3. Contents' = Contents
    BY <1>2, <2>2, ContentsKept
  <2>4. QED
    BY <2>1, <2>3, QueueStutters
<1>8. QED
  BY <1>3, <1>4, <1>5, <1>6, <1>7

LEMMA QueueCalls ==
  ASSUME QueueInv, NEW t \in Threads, Call(t)
  PROVE  QueueStep
<1>1. Contents' = Contents /\ result' = result /\ pc[t] = "idle" /\ Types
  BY DEF Call, list, Contents, FromTail, QueueInv
<1>2. [u \in Threads |-> Operation(u)][t] = "idle"
  BY <1>1 DEF Operation
<1>3. \A s \in {"enqueue", "dequeue", "is_empty"} : Goto(t, s) => Ops' = [Ops EXCEPT ![t] = s]
  <2>1. \A s \in {"enqueue", "dequeue", "is_empty"} : OpAt(s) = s
    BY DEF OpAt
  <2>2. QED
    BY <1>1, <2>1, OpMoves
<1>4. \/ \E b \in Bufs : arg' = [arg EXCEPT ![t] = b] /\ Ops' = [Ops EXCEPT ![t] = "enqueue"]
      \/ \E o \in {"dequeue", "is_empty"} : Ops' = [Ops EXCEPT ![t] = o] /\ UNCHANGED arg
  BY <1>3 DEF Call
<1>5. FIFO!QCall(t)
  BY <1>1, <1>2, <1>4, Zenon DEF FIFO!QCall, Ops
<1>6. QED
  BY <1>5 DEF QueueStep, FIFO!QNext

LEMMA QueueReturns ==
  ASSUME QueueInv, NEW t \in Threads, Post(t)
  PROVE  QueueStep
<1>1. /\ Contents' = Contents /\ pc[t] = "post" /\ Goto(t, "idle")
      /\ arg' = [arg EXCEPT ![t] = NoBuf] /\ result' = [result EXCEPT ![t] = NoBuf]
  BY DEF Post, Forget, list, Contents, FromTail
<1>2. OpAt("post") = "return" /\ OpAt("idle") = "idle"
  BY DEF OpAt
<1>3. Ops[t] = "return" /\ Ops' = [Ops EXCEPT ![t] = "idle"]
  BY <1>1, <1>2, OpMoves DEF QueueInv
<1>4. FIFO!QReturn(t)
  BY <1>1, <1>3 DEF FIFO!QReturn, Ops
<1>5. QED
  BY <1>4 DEF QueueStep, FIFO!QNext

LEMMA InitQueue == Init => FIFO!QInit
<1> SUFFICES ASSUME Init PROVE FIFO!QInit
  OBVIOUS
<1> DEFINE c == <<>>
<1>1. Len(c) = 0
  OBVIOUS
<1>2. Chain(c)
  BY DEF Init, Chain, Oldest
<1> HIDE DEF c
<1>3. Contents = BufsOf(c)
  BY <1>2, ContentsIs
<1>4. Contents = <<>>
  BY <1>1, <1>3 DEF BufsOf
<1>5. [t \in Threads |-> Operation(t)] = [t \in Threads |-> "idle"]
  BY DEF Init, Operation
<1>6. QED
  BY <1>4, <1>5 DEF Init, FIFO!QInit

LEMMA NextQueueStep == QueueInv /\ [Next]_vars => QueueStep
<1> SUFFICES ASSUME QueueInv, [Next]_vars PROVE QueueStep
  OBVIOUS
<1>1. ASSUME UNCHANGED <<list, pc, arg, result>> PROVE QueueStep
  <2>1. Contents' = Contents
    BY <1>1 DEF list, Contents, FromTail
  <2>2. [t \in Threads |-> Operation(t)]' = [t \in Threads |-> Operation(t)]
    BY <1>1 DEF Operation
  <2>3. QED
    BY <1>1, <2>1, <2>2 DEF QueueStep, FIFO!qvars
<1>2. CASE UNCHANGED vars
  BY <1>1, <1>2 DEF vars, locals
<1>3. ASSUME NEW t \in Threads, EnqueueNoMemory(t) PROVE QueueStep
  BY <1>1, <1>3 DEF EnqueueNoMemory, locals
<1>4. ASSUME NEW t \in Threads, Call(t) \/ Enter(t) \/ Locked(t) PROVE QueueStep
  BY <1>3, <1>4, QueueCalls, QueueWorks, QueueLinks, QueueTakes, QueueLooks, QueueReturns
  DEF Locked
<1>5. QED
  BY <1>2, <1>4 DEF Next

(* queue.c implements the atomic queue, for any number of threads, any      *)
(* buffers and any memory, whichever cells malloc hands out and reuses: an   *)
(* enqueue takes effect when the new node is linked to the tail, a dequeue   *)
(* when the tail moves (queue.c:18-75, proj3/README:80-81).                  *)
THEOREM ImplementsQueue == Spec => ActsAsQueue
<1>1. QueueInv /\ [Next]_vars => [FIFO!QNext]_(FIFO!qvars)
  BY NextQueueStep DEF QueueStep
<1>2. QED
  BY <1>1, QueueInvariant, InitQueue, PTL DEF Spec, ActsAsQueue, FIFO!QSpec

=============================================================================
