--------------------------- MODULE LinkedListProofs ---------------------------
(***************************************************************************)
(* Proofs about LinkedList: its types, that the links of the list are      *)
(* whole after any sequence of calls, and that the list with its iterator  *)
(* is a sequence of payloads with a position.                              *)
(***************************************************************************)
EXTENDS LinkedList, SequenceTheorems, FiniteSetTheorems, WellFoundedInduction, TLAPS

(* Induction, for a set of numbers: one that holds 0 and the successor of   *)
(* each of its members holds them all.                                      *)
LEMMA Rising ==
  ASSUME NEW T, T \subseteq Nat, 0 \in T, \A n \in T : n + 1 \in T
  PROVE  T = Nat
<1> SUFFICES ASSUME Nat \ T # {} PROVE FALSE
  OBVIOUS
<1>1. PICK x \in Nat \ T : \A y \in Nat \ T : ~ (<<y, x>> \in OpToRel(<, Nat))
  BY WFMin, NatLessThanWellFounded
<1>2. \A y \in Nat \ T : ~(y < x)
  BY <1>1 DEF OpToRel
<1>3. x \in Nat /\ x \notin T /\ x # 0
  BY <1>1
<1> HIDE <1>1
<1>4. x - 1 \in Nat /\ x - 1 < x /\ (x - 1) + 1 = x
  BY <1>3
<1>5. x - 1 \in T
  BY <1>2, <1>4
<1>6. QED
  BY <1>3, <1>4, <1>5

-----------------------------------------------------------------------------
(* The recursion of Walk, for the first n links.                            *)

WalkStep(first, link, F, i) ==
  IF i = 0 THEN first ELSE IF F[i - 1] = NULL THEN NULL ELSE link[F[i - 1]]

WalkRec(first, link, F, n) == F = [i \in 0 .. n |-> WalkStep(first, link, F, i)]

WalkFcn(first, link) == CHOOSE F : WalkRec(first, link, F, NumNodes)

LEMMA WalkIsFcn ==
  ASSUME NEW first, NEW link
  PROVE  Walk(first, link) =
           [k \in 1 .. Cardinality({i \in 0 .. NumNodes : WalkFcn(first, link)[i] # NULL})
              |-> WalkFcn(first, link)[k - 1]]
BY DEF Walk, WalkFcn, WalkRec, WalkStep

LEMMA WalkExists ==
  ASSUME NEW first, NEW link, NEW n \in Nat
  PROVE  \E F : WalkRec(first, link, F, n)
<1> DEFINE T == {m \in Nat : \E F : WalkRec(first, link, F, m)}
<1>1. 0 \in T
  <2>1. WalkRec(first, link, [i \in 0 .. 0 |-> first], 0)
    BY DEF WalkRec, WalkStep
  <2>2. QED
    BY <2>1
<1>2. ASSUME NEW m \in T PROVE m + 1 \in T
  <2>1. PICK F : WalkRec(first, link, F, m)
    OBVIOUS
  <2> DEFINE G == [i \in 0 .. m + 1 |-> IF i <= m THEN F[i] ELSE WalkStep(first, link, F, i)]
             H == [i \in 0 .. m + 1 |-> WalkStep(first, link, G, i)]
  <2>2. m \in Nat
    OBVIOUS
  <2>3. \A i \in 0 .. m : F[i] = WalkStep(first, link, F, i)
    BY <2>1, <2>2 DEF WalkRec
  <2>4. ASSUME NEW i \in 0 .. m + 1 PROVE G[i] = H[i]
    <3>1. i # 0 => G[i - 1] = F[i - 1]
      BY <2>2
    <3>2. WalkStep(first, link, G, i) = WalkStep(first, link, F, i)
      BY <3>1 DEF WalkStep
    <3>3. QED
      BY <2>2, <2>3, <3>2
  <2>5. G = H
    BY <2>4
  <2>6. WalkRec(first, link, G, m + 1)
    BY <2>5 DEF WalkRec
  <2>7. QED
    BY <2>2, <2>6
<1>3. T = Nat
  BY <1>1, <1>2, Rising
<1>4. QED
  BY <1>3

LEMMA WalkFcnRec ==
  ASSUME NEW first, NEW link
  PROVE  /\ WalkFcn(first, link)[0] = first
         /\ \A i \in 0 .. NumNodes - 1 :
              WalkFcn(first, link)[i + 1] =
                IF WalkFcn(first, link)[i] = NULL THEN NULL ELSE link[WalkFcn(first, link)[i]]
<1>1. NumNodes \in Nat
  BY ListAssumption
<1>2. \E F : WalkRec(first, link, F, NumNodes)
  BY <1>1, WalkExists
<1>3. WalkRec(first, link, WalkFcn(first, link), NumNodes)
  BY <1>2, Zenon DEF WalkFcn
<1>4. ASSUME NEW F, WalkRec(first, link, F, NumNodes), NEW i \in 0 .. NumNodes
      PROVE  F[i] = WalkStep(first, link, F, i)
  BY <1>4 DEF WalkRec
<1>5. \A i \in 0 .. NumNodes :
        WalkFcn(first, link)[i] = WalkStep(first, link, WalkFcn(first, link), i)
  BY <1>3, <1>4
<1>6. WalkFcn(first, link)[0] = first
  BY <1>1, <1>5 DEF WalkStep
<1>7. ASSUME NEW i \in 0 .. NumNodes - 1
      PROVE  WalkFcn(first, link)[i + 1] =
               IF WalkFcn(first, link)[i] = NULL THEN NULL ELSE link[WalkFcn(first, link)[i]]
  <2>1. i + 1 \in 0 .. NumNodes /\ (i + 1) - 1 = i /\ i + 1 # 0
    BY <1>1
  <2>2. WalkFcn(first, link)[i + 1] = WalkStep(first, link, WalkFcn(first, link), i + 1)
    BY <1>5, <2>1
  <2>3. QED
    BY <2>1, <2>2 DEF WalkStep
<1>8. QED
  BY <1>6, <1>7

LEMMA Intervals ==
  ASSUME NEW n \in Nat
  PROVE  Cardinality(0 .. n - 1) = n /\ Cardinality(1 .. n) = n
<1>1. n - 1 \in Int /\ n \in Int
  OBVIOUS
<1>2. QED
  BY <1>1, FS_Interval

(* A walk that follows the sequence c and then meets NULL is c. *)
LEMMA WalkIs ==
  ASSUME NEW c \in Seq(Nodes), NEW first, NEW link, Len(c) <= NumNodes,
         first = IF c = <<>> THEN NULL ELSE c[1],
         \A k \in 1 .. Len(c) : link[c[k]] = IF k < Len(c) THEN c[k + 1] ELSE NULL
  PROVE  Walk(first, link) = c
<1> DEFINE F == WalkFcn(first, link)
           At(k) == IF k < Len(c) THEN c[k + 1] ELSE NULL
           T == {m \in Nat : m <= NumNodes => F[m] = At(m)}
<1>1. NumNodes \in Nat /\ Len(c) \in Nat
  BY ListAssumption
<1>2. /\ F[0] = first
      /\ \A i \in 0 .. NumNodes - 1 : F[i + 1] = IF F[i] = NULL THEN NULL ELSE link[F[i]]
  BY WalkFcnRec
<1> HIDE DEF F
<1>3. \A k \in 1 .. Len(c) : c[k] # NULL /\ c[k] \in Nodes
  <2>1. \A k \in 1 .. Len(c) : c[k] \in Nodes
    OBVIOUS
  <2>2. \A x \in Nodes : x # NULL
    BY <1>1 DEF Nodes, NULL
  <2>3. QED
    BY <2>1, <2>2
<1>4. 0 \in T
  BY <1>1, <1>2
<1>5. ASSUME NEW m \in T PROVE m + 1 \in T
  <2>1. m \in Nat
    OBVIOUS
  <2>2. SUFFICES ASSUME m + 1 <= NumNodes PROVE F[m + 1] = At(m + 1)
    BY <2>1
  <2>3. m \in 0 .. NumNodes - 1 /\ F[m] = At(m)
    BY <1>1, <2>1, <2>2
  <2>4. CASE m < Len(c)
    <3>1. m + 1 \in 1 .. Len(c) /\ F[m] = c[m + 1]
      BY <1>1, <2>1, <2>3, <2>4
    <3>2. F[m + 1] = link[c[m + 1]]
      BY <1>2, <1>3, <2>3, <3>1
    <3>3. QED
      BY <3>1, <3>2
  <2>5. CASE ~(m < Len(c))
    BY <1>1, <1>2, <2>1, <2>3, <2>5
  <2>6. QED
    BY <2>4, <2>5
<1>6. T = Nat
  BY <1>4, <1>5, Rising
<1>7. \A k \in 0 .. NumNodes : F[k] = At(k)
  BY <1>1, <1>6
<1>8. {i \in 0 .. NumNodes : F[i] # NULL} = 0 .. Len(c) - 1
  <2>1. ASSUME NEW i \in 0 .. NumNodes PROVE F[i] # NULL <=> i \in 0 .. Len(c) - 1
    BY <1>1, <1>3, <1>7
  <2>2. 0 .. Len(c) - 1 \subseteq 0 .. NumNodes
    BY <1>1
  <2>3. QED
    BY <2>1, <2>2
<1>9. Cardinality(0 .. Len(c) - 1) = Len(c)
  BY <1>1, Intervals, Zenon
<1>10. Walk(first, link) = [k \in 1 .. Len(c) |-> F[k - 1]]
  BY <1>8, <1>9, WalkIsFcn DEF F
<1>11. \A k \in 1 .. Len(c) : F[k - 1] = c[k]
  <2>1. ASSUME NEW k \in 1 .. Len(c) PROVE F[k - 1] = c[k]
    <3>1. k - 1 \in 0 .. NumNodes /\ k - 1 < Len(c) /\ (k - 1) + 1 = k
      BY <1>1
    <3>2. QED
      BY <1>7, <3>1
  <2>2. QED
    BY <2>1
<1>12. c = [k \in 1 .. Len(c) |-> c[k]]
  OBVIOUS
<1>13. QED
  BY <1>10, <1>11, <1>12

(* A sequence of different nodes is no longer than the memory. *)
LEMMA ShortChain ==
  ASSUME NEW c \in Seq(Nodes), \A j, k \in 1 .. Len(c) : c[j] = c[k] => j = k
  PROVE  Len(c) <= NumNodes
<1>1. NumNodes \in Nat /\ Len(c) \in Nat
  BY ListAssumption
<1>2. c \in [1 .. Len(c) -> Nodes] /\ DOMAIN c = 1 .. Len(c)
  OBVIOUS
<1>3. c \in Injection(1 .. Len(c), Nodes)
  BY <1>2 DEF Injection, IsInjective
<1>4. IsFiniteSet(Nodes) /\ Cardinality(Nodes) = NumNodes
  BY <1>1, FS_Interval DEF Nodes
<1>5. Cardinality(1 .. Len(c)) <= Cardinality(Nodes)
  BY <1>3, <1>4, FS_Injection
<1>6. Cardinality(1 .. Len(c)) = Len(c)
  BY <1>1, Intervals, Zenon
<1>7. QED
  BY <1>4, <1>5, <1>6

-----------------------------------------------------------------------------
(* The inductive invariant: there is a sequence c of the nodes of the list, *)
(* head first, and everything else follows it.                              *)

At(c, k) == IF k \in 1 .. Len(c) THEN c[k] ELSE NULL
In(c) == {c[k] : k \in 1 .. Len(c)}

Chain(c) ==
  /\ c \in Seq(Nodes)
  /\ \A j, k \in 1 .. Len(c) : c[j] = c[k] => j = k
  /\ allocated = In(c) /\ num_elements = Len(c)
  /\ head = At(c, 1) /\ tail = At(c, Len(c))
  /\ \A k \in 1 .. Len(c) :
       /\ node[c[k]].next = At(c, k + 1) /\ node[c[k]].prev = At(c, k - 1)
       /\ node[c[k]].payload \in Payloads

Cells == [payload : Payloads \cup {Nothing}, next : Nodes \cup {NULL}, prev : Nodes \cup {NULL}]

Types ==
  /\ node \in [Nodes -> Cells]
  /\ iter \in allocated \cup {NULL, NoIterator}
  /\ ret \in [ok : BOOLEAN, payload : Payloads \cup {Nothing}]

ListInv == Types /\ \E c : Chain(c)

LEMMA Constants ==
  /\ NumNodes \in Nat /\ Payloads \subseteq Int /\ Nothing \notin Payloads
  /\ NULL \notin Nodes /\ NoIterator \notin Nodes /\ NoIterator # NULL
BY ListAssumption DEF NULL, NoIterator, Nodes, Nothing

LEMMA ChainFacts ==
  ASSUME NEW c, Chain(c)
  PROVE  /\ Len(c) \in Nat /\ Len(c) <= NumNodes
         /\ \A k \in 1 .. Len(c) : c[k] \in Nodes /\ c[k] \in allocated /\ c[k] # NULL
         /\ allocated \subseteq Nodes
         /\ \A k \in Int : At(c, k) \in allocated \cup {NULL}
         /\ \A n \in allocated : \E k \in 1 .. Len(c) : c[k] = n
         /\ IsFiniteSet(allocated)
<1>1. c \in Seq(Nodes) /\ Len(c) \in Nat /\ Len(c) <= NumNodes
  BY ShortChain DEF Chain
<1>2. \A k \in 1 .. Len(c) : c[k] \in Nodes /\ c[k] \in In(c)
  BY <1>1 DEF In
<1>3. allocated = In(c) /\ In(c) \subseteq Nodes
  BY <1>2 DEF Chain, In
<1>4. \A k \in Int : At(c, k) \in In(c) \cup {NULL}
  BY <1>2 DEF At
<1>5. IsFiniteSet(Nodes)
  BY Constants, FS_Interval DEF Nodes
<1>6. IsFiniteSet(allocated)
  BY <1>3, <1>5, FS_Subset
<1>7. QED
  BY <1>1, <1>2, <1>3, <1>4, <1>6, Constants DEF In

(* The list as it reads in both directions. *)
LEMMA FromHeadIs ==
  ASSUME NEW c, Chain(c)
  PROVE  FromHead = c
<1> DEFINE link == [n \in Nodes |-> node[n].next]
<1>1. c \in Seq(Nodes) /\ Len(c) <= NumNodes
  BY ChainFacts DEF Chain
<1>2. head = IF c = <<>> THEN NULL ELSE c[1]
  BY <1>1 DEF Chain, At
<1>3. \A k \in 1 .. Len(c) : link[c[k]] = IF k < Len(c) THEN c[k + 1] ELSE NULL
  <2>1. ASSUME NEW k \in 1 .. Len(c)
        PROVE  link[c[k]] = IF k < Len(c) THEN c[k + 1] ELSE NULL
    <3>1. link[c[k]] = At(c, k + 1) /\ Len(c) \in Nat
      BY <1>1 DEF Chain
    <3>2. k < Len(c) <=> k + 1 \in 1 .. Len(c)
      BY <3>1
    <3>3. QED
      BY <3>1, <3>2 DEF At
  <2>2. QED
    BY <2>1
<1> HIDE DEF link
<1>4. Walk(head, link) = c
  BY <1>1, <1>2, <1>3, WalkIs
<1>5. QED
  BY <1>4 DEF FromHead, link

LEMMA FromTailIs ==
  ASSUME NEW c, Chain(c)
  PROVE  FromTail = Reverse(c)
<1> DEFINE link == [n \in Nodes |-> node[n].prev]
           r == Reverse(c)
           n == Len(c)
<1>1. c \in Seq(Nodes) /\ n <= NumNodes /\ n \in Nat
  BY ChainFacts DEF Chain
<1>2. r \in Seq(Nodes) /\ Len(r) = n /\ \A k \in 1 .. n : r[k] = c[n - k + 1]
  BY <1>1 DEF Reverse
<1> HIDE DEF r
<1>3. tail = IF r = <<>> THEN NULL ELSE r[1]
  <2>1. tail = At(c, n)
    BY DEF Chain
  <2>2. CASE n = 0
    BY <1>1, <1>2, <2>1, <2>2 DEF At
  <2>3. CASE n # 0
    <3>1. n \in 1 .. n /\ 1 \in 1 .. n /\ n - 1 + 1 = n /\ r # <<>>
      BY <1>1, <1>2, <2>3
    <3>2. QED
      BY <1>2, <2>1, <3>1 DEF At
  <2>4. QED
    BY <2>2, <2>3
<1>4. ASSUME NEW k \in 1 .. Len(r)
      PROVE  link[r[k]] = IF k < Len(r) THEN r[k + 1] ELSE NULL
  <2> DEFINE j == n - k + 1
  <2>1. j \in 1 .. n /\ r[k] = c[j] /\ c[j] \in Nodes
    BY <1>1, <1>2
  <2>2. link[r[k]] = At(c, j - 1)
    BY <2>1 DEF Chain
  <2>3. k < n <=> j - 1 \in 1 .. n
    BY <1>1, <1>2
  <2>4. k < n => k + 1 \in 1 .. n /\ n - (k + 1) + 1 = j - 1
    BY <1>1, <1>2
  <2>5. k < n => r[k + 1] = c[j - 1]
    BY <1>2, <2>4
  <2>6. QED
    BY <1>2, <2>2, <2>3, <2>5 DEF At
<1> HIDE DEF link
<1>5. Walk(tail, link) = r
  BY <1>1, <1>2, <1>3, <1>4, WalkIs
<1>6. QED
  BY <1>5 DEF FromTail, link, r

LEMMA ListInvImplies ==
  ASSUME ListInv
  PROVE  TypeOK /\ LinksOK
<1>1. PICK c : Chain(c)
  BY DEF ListInv
<1>2. c \in Seq(Nodes) /\ Len(c) \in Nat /\ Len(c) <= NumNodes
  BY <1>1, ChainFacts DEF Chain
<1>3. FromHead = c /\ FromTail = Reverse(c)
  BY <1>1, FromHeadIs, FromTailIs
<1>4. Reverse(Reverse(c)) = c
  <2> DEFINE r == Reverse(c)
             n == Len(c)
  <2>1. r = [k \in 1 .. n |-> c[n - k + 1]]
    BY <1>2 DEF Reverse
  <2>2. Len(r) = n
    BY <1>2, <2>1
  <2> HIDE DEF r
  <2>3. Reverse(r) = [k \in 1 .. n |-> r[n - k + 1]]
    BY <2>2 DEF Reverse
  <2>4. ASSUME NEW k \in 1 .. n PROVE r[n - k + 1] = c[k]
    <3>1. n - k + 1 \in 1 .. n /\ n - (n - k + 1) + 1 = k
      BY <1>2
    <3>2. QED
      BY <2>1, <3>1
  <2>5. c = [k \in 1 .. n |-> c[k]]
    BY <1>2
  <2>6. Reverse(r) = c
    BY <2>3, <2>4, <2>5
  <2>7. QED
    BY <2>6 DEF r
<1>5. Range(c) = allocated
  <2>1. DOMAIN c = 1 .. Len(c) /\ allocated = In(c)
    BY <1>1, <1>2 DEF Chain
  <2>2. QED
    BY <2>1 DEF Range, In
<1>6. IsInjective(c)
  BY <1>1, <1>2 DEF IsInjective, Chain
<1>7. LinksOK
  BY <1>1, <1>3, <1>4, <1>5, <1>6 DEF LinksOK, Chain
<1>8. 1 \in Int /\ Len(c) \in Int
  BY <1>2
<1>9. head \in allocated \cup {NULL} /\ tail \in allocated \cup {NULL} /\ allocated \subseteq Nodes
  BY <1>1, <1>8, ChainFacts DEF Chain
<1>10. num_elements \in 0 .. NumNodes
  BY <1>1, <1>2, Constants DEF Chain
<1>11. TypeOK
  BY <1>9, <1>10 DEF TypeOK, ListInv, Types, Cells
<1>12. QED
  BY <1>7, <1>11

-----------------------------------------------------------------------------
(* A sequence with n inserted at position a, and with position a removed.   *)

Inserted(c, a, n) ==
  [k \in 1 .. Len(c) + 1 |-> IF k < a THEN c[k] ELSE IF k = a THEN n ELSE c[k - 1]]

Removed(c, a) == [k \in 1 .. Len(c) - 1 |-> IF k < a THEN c[k] ELSE c[k + 1]]

LEMMA FcnIsSeq ==
  ASSUME NEW S, NEW n \in Nat, NEW f \in [1 .. n -> S]
  PROVE  f \in Seq(S) /\ Len(f) = n
OBVIOUS

InsertedIs(c, a, n, d) ==
  /\ Len(d) = Len(c) + 1
  /\ \A k \in 1 .. Len(c) + 1 :
       d[k] = IF k < a THEN c[k] ELSE IF k = a THEN n ELSE c[k - 1]
  /\ d[a] = n /\ \A k \in 1 .. Len(c) : \E j \in 1 .. Len(c) + 1 : d[j] = c[k]

LEMMA InsertedFacts ==
  ASSUME NEW S, NEW c \in Seq(S), NEW a \in 1 .. Len(c) + 1, NEW n \in S
  PROVE  Inserted(c, a, n) \in Seq(S) /\ InsertedIs(c, a, n, Inserted(c, a, n))
<1> PICK d, m : d = Inserted(c, a, n) /\ m = Len(c) + 1
  OBVIOUS
<1>1. m \in Nat /\ Len(c) \in Nat /\ a \in 1 .. m /\ m = Len(c) + 1
  OBVIOUS
<1>2. d = [k \in 1 .. m |-> IF k < a THEN c[k] ELSE IF k = a THEN n ELSE c[k - 1]]
  BY DEF Inserted
<1>3. ASSUME NEW k \in 1 .. m
      PROVE  (IF k < a THEN c[k] ELSE IF k = a THEN n ELSE c[k - 1]) \in S
  <2>1. CASE k < a
    <3>1. k \in 1 .. Len(c)
      BY <1>1, <2>1
    <3>2. QED
      BY <2>1, <3>1
  <2>2. CASE k = a
    BY <2>2
  <2>3. CASE k > a
    <3>1. k - 1 \in 1 .. Len(c) /\ ~(k < a) /\ k # a
      BY <1>1, <2>3
    <3>2. QED
      BY <3>1
  <2>4. QED
    BY <1>1, <2>1, <2>2, <2>3
<1>4. d \in [1 .. m -> S]
  BY <1>2, <1>3
<1>5. d \in Seq(S) /\ Len(d) = m
  BY <1>1, <1>4, FcnIsSeq, Zenon
<1>6. \A k \in 1 .. m : d[k] = IF k < a THEN c[k] ELSE IF k = a THEN n ELSE c[k - 1]
  BY <1>2
<1>7. ASSUME NEW k \in 1 .. Len(c) PROVE \E j \in 1 .. m : d[j] = c[k]
  <2>1. CASE k < a
    BY <1>1, <1>6, <2>1
  <2>2. CASE ~(k < a)
    <3>1. k + 1 \in 1 .. m /\ ~(k + 1 < a) /\ k + 1 # a /\ (k + 1) - 1 = k
      BY <1>1, <2>2
    <3>2. QED
      BY <1>6, <3>1
  <2>3. QED
    BY <2>1, <2>2
<1>8. d[a] = n
  BY <1>1, <1>6
<1>9. InsertedIs(c, a, n, d)
  BY <1>1, <1>5, <1>6, <1>7, <1>8 DEF InsertedIs
<1>10. QED
  BY <1>5, <1>9

LEMMA RemovedFacts ==
  ASSUME NEW S, NEW c \in Seq(S), NEW a \in 1 .. Len(c)
  PROVE  LET d == Removed(c, a) IN
         /\ d \in Seq(S) /\ Len(d) = Len(c) - 1
         /\ \A k \in 1 .. Len(c) - 1 : d[k] = IF k < a THEN c[k] ELSE c[k + 1]
<1> PICK d, m : d = Removed(c, a) /\ m = Len(c) - 1
  OBVIOUS
<1>1. m \in Nat /\ Len(c) \in Nat /\ Len(c) = m + 1
  OBVIOUS
<1>2. d = [k \in 1 .. m |-> IF k < a THEN c[k] ELSE c[k + 1]]
  BY DEF Removed
<1>3. ASSUME NEW k \in 1 .. m PROVE (IF k < a THEN c[k] ELSE c[k + 1]) \in S
  <2>1. k \in 1 .. Len(c) /\ k + 1 \in 1 .. Len(c)
    BY <1>1
  <2>2. QED
    BY <2>1
<1>4. d \in [1 .. m -> S]
  BY <1>2, <1>3
<1>5. d \in Seq(S) /\ Len(d) = m
  BY <1>1, <1>4, FcnIsSeq, Zenon
<1>6. QED
  BY <1>2, <1>5

-----------------------------------------------------------------------------
(* What a call does to the nodes when it inserts node n with payload p at   *)
(* position a of c, or removes the node there.                              *)

Adds(c, a, n, p) ==
  /\ a \in 1 .. Len(c) + 1 /\ n \in Nodes \ allocated /\ p \in Payloads
  /\ node' \in [Nodes -> Cells]
  /\ allocated' = allocated \cup {n} /\ num_elements' = num_elements + 1
  /\ head' = (IF a = 1 THEN n ELSE head)
  /\ tail' = (IF a = Len(c) + 1 THEN n ELSE tail)
  /\ node'[n] = [payload |-> p, next |-> At(c, a), prev |-> At(c, a - 1)]
  /\ \A k \in 1 .. Len(c) :
       /\ node'[c[k]].next = IF k = a - 1 THEN n ELSE At(c, k + 1)
       /\ node'[c[k]].prev = IF k = a THEN n ELSE At(c, k - 1)
       /\ node'[c[k]].payload = node[c[k]].payload

Drops(c, a) ==
  /\ a \in 1 .. Len(c)
  /\ node' \in [Nodes -> Cells]
  /\ allocated' = allocated \ {c[a]} /\ num_elements' = num_elements - 1
  /\ head' = (IF a = 1 THEN At(c, 2) ELSE head)
  /\ tail' = (IF a = Len(c) THEN At(c, Len(c) - 1) ELSE tail)
  /\ \A k \in 1 .. Len(c) : k # a =>
       /\ node'[c[k]].next = IF k = a - 1 THEN At(c, a + 1) ELSE At(c, k + 1)
       /\ node'[c[k]].prev = IF k = a + 1 THEN At(c, a - 1) ELSE At(c, k - 1)
       /\ node'[c[k]].payload = node[c[k]].payload

LEMMA AddsChain ==
  ASSUME NEW c, Chain(c), NEW a, NEW n, NEW p, Adds(c, a, n, p)
  PROVE  Chain(Inserted(c, a, n))'
<1> PICK d : d = Inserted(c, a, n)
  OBVIOUS
<1>1. /\ c \in Seq(Nodes) /\ Len(c) \in Nat /\ a \in 1 .. Len(c) + 1 /\ n \in Nodes
      /\ \A k \in 1 .. Len(c) : c[k] # n /\ c[k] \in Nodes
  <2>1. /\ Len(c) \in Nat /\ a \in 1 .. Len(c) + 1 /\ n \in Nodes \ allocated
        /\ \A k \in 1 .. Len(c) : c[k] \in Nodes /\ c[k] \in allocated
    BY ChainFacts DEF Adds
  <2>2. QED
    BY <2>1 DEF Chain
<1>2. /\ d \in Seq(Nodes) /\ Len(d) = Len(c) + 1
      /\ \A k \in 1 .. Len(c) + 1 :
           d[k] = IF k < a THEN c[k] ELSE IF k = a THEN n ELSE c[k - 1]
      /\ d[a] = n /\ \A k \in 1 .. Len(c) : \E j \in 1 .. Len(c) + 1 : d[j] = c[k]
  <2>1. d \in Seq(Nodes) /\ InsertedIs(c, a, n, d)
    BY <1>1, InsertedFacts
  <2>2. QED
    BY <2>1 DEF InsertedIs
<1>3. \A j, k \in 1 .. Len(d) : d[j] = d[k] => j = k
  <2>1. \A j, k \in 1 .. Len(c) : c[j] = c[k] => j = k
    BY DEF Chain
  <2>2. ASSUME NEW j \in 1 .. Len(d), NEW k \in 1 .. Len(d), d[j] = d[k] PROVE j = k
    <3>1. \A m \in 1 .. Len(d) : \/ m < a /\ m \in 1 .. Len(c) /\ d[m] = c[m]
                                 \/ m = a /\ d[m] = n
                                 \/ m > a /\ m - 1 \in 1 .. Len(c) /\ d[m] = c[m - 1]
      BY <1>1, <1>2
    <3>2. QED
      BY <1>1, <2>1, <2>2, <3>1
  <2>3. QED
    BY <2>2
<1>4. In(d) = In(c) \cup {n}
  <2>1. ASSUME NEW k \in 1 .. Len(d) PROVE d[k] = n \/ \E j \in 1 .. Len(c) : d[k] = c[j]
    <3>1. \/ k < a /\ k \in 1 .. Len(c)
          \/ k = a
          \/ k > a /\ k - 1 \in 1 .. Len(c)
      BY <1>1, <1>2
    <3>2. CASE k < a /\ k \in 1 .. Len(c)
      <4>1. d[k] = c[k]
        BY <1>2, <3>2
      <4>2. QED
        BY <3>2, <4>1
    <3>3. CASE k > a /\ k - 1 \in 1 .. Len(c)
      <4>1. d[k] = c[k - 1]
        BY <1>1, <1>2, <3>3
      <4>2. QED
        BY <3>3, <4>1
    <3>4. CASE k = a
      BY <1>2, <3>4
    <3>5. QED
      BY <3>1, <3>2, <3>3, <3>4
  <2>2. \A k \in 1 .. Len(c) : \E j \in 1 .. Len(d) : d[j] = c[k]
    BY <1>2
  <2>3. a \in 1 .. Len(d) /\ d[a] = n
    BY <1>1, <1>2
  <2>4. \A x : x \in In(d) <=> x = n \/ x \in In(c)
    BY <2>1, <2>2, <2>3 DEF In
  <2>5. QED
    BY <2>4
<1>5. /\ allocated' = In(d) /\ num_elements' = Len(d)
  BY <1>1, <1>2, <1>4 DEF Adds, Chain
<1>6. head' = At(d, 1) /\ tail' = At(d, Len(d))
  <2>1. 1 \in 1 .. Len(d) /\ Len(d) \in 1 .. Len(d)
    BY <1>1, <1>2
  <2>2. At(d, 1) = IF a = 1 THEN n ELSE c[1]
    BY <1>1, <1>2, <2>1 DEF At
  <2>3. At(d, Len(d)) = IF a = Len(c) + 1 THEN n ELSE c[Len(c)]
    BY <1>1, <1>2, <2>1 DEF At
  <2>4. a # 1 => head = c[1]
    BY <1>1 DEF Chain, At
  <2>5. a # Len(c) + 1 => tail = c[Len(c)]
    BY <1>1 DEF Chain, At
  <2>6. QED
    BY <2>2, <2>3, <2>4, <2>5 DEF Adds
<1>7. ASSUME NEW k \in 1 .. Len(d)
      PROVE  /\ node'[d[k]].next = At(d, k + 1) /\ node'[d[k]].prev = At(d, k - 1)
             /\ node'[d[k]].payload \in Payloads
  <2>1. CASE k = a
    <3>1. node'[d[k]] = [payload |-> p, next |-> At(c, a), prev |-> At(c, a - 1)] /\ p \in Payloads
      BY <1>2, <2>1 DEF Adds
    <3>2. At(d, k + 1) = At(c, a)
      BY <1>1, <1>2, <2>1 DEF At
    <3>3. At(d, k - 1) = At(c, a - 1)
      BY <1>1, <1>2, <2>1 DEF At
    <3>4. QED
      BY <3>1, <3>2, <3>3
  <2>2. CASE k < a
    <3>1. k \in 1 .. Len(c) /\ d[k] = c[k]
      BY <1>1, <1>2, <2>2
    <3>2. /\ node'[c[k]].next = IF k = a - 1 THEN n ELSE At(c, k + 1)
          /\ node'[c[k]].prev = At(c, k - 1)
          /\ node'[c[k]].payload \in Payloads
      BY <1>1, <2>2, <3>1 DEF Adds, Chain
    <3>3. At(d, k - 1) = At(c, k - 1)
      BY <1>1, <1>2, <2>2, <3>1 DEF At
    <3>4. At(d, k + 1) = IF k = a - 1 THEN n ELSE At(c, k + 1)
      BY <1>1, <1>2, <2>2, <3>1 DEF At
    <3>5. QED
      BY <3>1, <3>2, <3>3, <3>4
  <2>3. CASE k > a
    <3> DEFINE j == k - 1
    <3>1. j \in 1 .. Len(c) /\ d[k] = c[j] /\ j >= a /\ j \in Int
      BY <1>1, <1>2, <2>3
    <3> HIDE DEF j
    <3>a. j # a - 1 /\ k = j + 1 /\ k - 1 = j
      BY <1>1, <3>1 DEF j
    <3>2. /\ node'[c[j]].next = At(c, j + 1)
          /\ node'[c[j]].prev = IF j = a THEN n ELSE At(c, j - 1)
          /\ node'[c[j]].payload \in Payloads
      BY <3>1, <3>a DEF Adds, Chain
    <3>3. At(d, k + 1) = At(c, j + 1)
      BY <1>1, <1>2, <2>3 DEF At, j
    <3>4. At(d, k - 1) = IF j = a THEN n ELSE At(c, j - 1)
      BY <1>1, <1>2, <2>3 DEF At, j
    <3>5. QED
      BY <3>1, <3>2, <3>3, <3>4
  <2>4. QED
    BY <1>1, <2>1, <2>2, <2>3
<1>8. Chain(d)'
  BY <1>2, <1>3, <1>5, <1>6, <1>7 DEF Chain
<1>9. QED
  BY <1>8

LEMMA DropsChain ==
  ASSUME NEW c, Chain(c), NEW a, Drops(c, a)
  PROVE  Chain(Removed(c, a))'
<1> PICK d : d = Removed(c, a)
  OBVIOUS
<1>1. /\ c \in Seq(Nodes) /\ Len(c) \in Nat /\ a \in 1 .. Len(c)
      /\ \A j, k \in 1 .. Len(c) : c[j] = c[k] => j = k
  BY DEF Chain, Drops
<1>2. /\ d \in Seq(Nodes) /\ Len(d) = Len(c) - 1
      /\ \A k \in 1 .. Len(c) - 1 : d[k] = IF k < a THEN c[k] ELSE c[k + 1]
  BY <1>1, RemovedFacts
<1>3. \A j, k \in 1 .. Len(d) : d[j] = d[k] => j = k
  <2>1. ASSUME NEW j \in 1 .. Len(d), NEW k \in 1 .. Len(d), d[j] = d[k] PROVE j = k
    <3>1. \A m \in 1 .. Len(d) : \/ m < a /\ m \in 1 .. Len(c) /\ d[m] = c[m]
                                 \/ m >= a /\ m + 1 \in 1 .. Len(c) /\ d[m] = c[m + 1]
      BY <1>1, <1>2
    <3>2. QED
      BY <1>1, <2>1, <3>1
  <2>2. QED
    BY <2>1
<1>4. In(d) = In(c) \ {c[a]}
  <2>1. ASSUME NEW k \in 1 .. Len(d) PROVE \E j \in 1 .. Len(c) : d[k] = c[j] /\ j # a
    <3>1. CASE k < a
      <4>1. k \in 1 .. Len(c) /\ d[k] = c[k] /\ k # a
        BY <1>1, <1>2, <3>1
      <4>2. QED
        BY <4>1
    <3>2. CASE ~(k < a)
      <4>1. k + 1 \in 1 .. Len(c) /\ d[k] = c[k + 1] /\ k + 1 # a
        BY <1>1, <1>2, <3>2
      <4>2. QED
        BY <4>1
    <3>3. QED
      BY <3>1, <3>2
  <2>2. ASSUME NEW k \in 1 .. Len(c), k # a PROVE \E j \in 1 .. Len(d) : d[j] = c[k]
    <3>1. CASE k < a
      <4>1. k \in 1 .. Len(d) /\ d[k] = c[k]
        BY <1>1, <1>2, <3>1
      <4>2. QED
        BY <4>1
    <3>2. CASE k > a
      <4>1. k - 1 \in 1 .. Len(d) /\ ~(k - 1 < a) /\ (k - 1) + 1 = k
        BY <1>1, <1>2, <3>2
      <4>2. d[k - 1] = c[k]
        BY <1>2, <4>1
      <4>3. QED
        BY <4>1, <4>2
    <3>3. QED
      BY <1>1, <2>2, <3>1, <3>2
  <2>3. ASSUME NEW x \in In(d) PROVE x \in In(c) /\ x # c[a]
    <3>1. PICK k \in 1 .. Len(d) : x = d[k]
      BY DEF In
    <3>2. PICK j \in 1 .. Len(c) : x = c[j] /\ j # a
      BY <2>1, <3>1
    <3>3. QED
      BY <1>1, <3>2 DEF In
  <2>4. ASSUME NEW x \in In(c), x # c[a] PROVE x \in In(d)
    <3>1. PICK k \in 1 .. Len(c) : x = c[k] /\ k # a
      BY <2>4 DEF In
    <3>2. QED
      BY <2>2, <3>1 DEF In
  <2>5. QED
    BY <2>3, <2>4
<1>5. allocated' = In(d) /\ num_elements' = Len(d)
  BY <1>1, <1>2, <1>4 DEF Drops, Chain
<1>6. head' = At(d, 1) /\ tail' = At(d, Len(d))
  <2>1. At(d, 1) = IF a = 1 THEN At(c, 2) ELSE At(c, 1)
    BY <1>1, <1>2 DEF At
  <2>2. At(d, Len(d)) = IF a = Len(c) THEN At(c, Len(c) - 1) ELSE At(c, Len(c))
    BY <1>1, <1>2 DEF At
  <2>3. QED
    BY <2>1, <2>2 DEF Drops, Chain
<1>7. ASSUME NEW k \in 1 .. Len(d)
      PROVE  /\ node'[d[k]].next = At(d, k + 1) /\ node'[d[k]].prev = At(d, k - 1)
             /\ node'[d[k]].payload \in Payloads
  <2>1. CASE k < a
    <3>1. k \in 1 .. Len(c) /\ d[k] = c[k] /\ k # a /\ k # a + 1
      BY <1>1, <1>2, <2>1
    <3>2. /\ node'[c[k]].next = IF k = a - 1 THEN At(c, a + 1) ELSE At(c, k + 1)
          /\ node'[c[k]].prev = At(c, k - 1)
          /\ node'[c[k]].payload \in Payloads
      BY <3>1 DEF Drops, Chain
    <3>3. At(d, k - 1) = At(c, k - 1)
      BY <1>1, <1>2, <2>1, <3>1 DEF At
    <3>4. At(d, k + 1) = IF k = a - 1 THEN At(c, a + 1) ELSE At(c, k + 1)
      BY <1>1, <1>2, <2>1, <3>1 DEF At
    <3>5. QED
      BY <3>1, <3>2, <3>3, <3>4
  <2>2. CASE ~(k < a)
    <3> DEFINE j == k + 1
    <3>1. j \in 1 .. Len(c) /\ d[k] = c[j] /\ j # a /\ j # a - 1
      BY <1>1, <1>2, <2>2
    <3>2. At(d, k + 1) = At(c, j + 1)
      BY <1>1, <1>2, <2>2 DEF At
    <3>3. At(d, k - 1) = IF j = a + 1 THEN At(c, a - 1) ELSE At(c, j - 1)
      BY <1>1, <1>2, <2>2 DEF At
    <3> HIDE DEF j
    <3>4. /\ node'[c[j]].next = At(c, j + 1)
          /\ node'[c[j]].prev = IF j = a + 1 THEN At(c, a - 1) ELSE At(c, j - 1)
          /\ node'[c[j]].payload \in Payloads
      BY <3>1 DEF Drops, Chain
    <3>5. QED
      BY <3>1, <3>2, <3>3, <3>4
  <2>3. QED
    BY <2>1, <2>2
<1>8. Chain(d)'
  BY <1>2, <1>3, <1>5, <1>6, <1>7 DEF Chain
<1>9. QED
  BY <1>8

-----------------------------------------------------------------------------
(* The calls                                                                *)

LEMMA PushAdds ==
  ASSUME Types, NEW c, Chain(c), NEW n \in Nodes \ allocated, NEW p \in Payloads,
         PushLinkedList(n, p)
  PROVE  Adds(c, 1, n, p)
<1>1. /\ Len(c) \in Nat /\ num_elements = Len(c) /\ head = At(c, 1) /\ tail = At(c, Len(c))
      /\ At(c, 0) = NULL /\ node \in [Nodes -> Cells]
      /\ allocated' = allocated \cup {n} /\ n \in Nodes
  BY ChainFacts DEF Chain, PushLinkedList, Types, At
<1>2. \A k \in 1 .. Len(c) :
        /\ c[k] \in Nodes /\ c[k] # n
        /\ node[c[k]].next = At(c, k + 1) /\ node[c[k]].prev = At(c, k - 1)
        /\ node[c[k]] \in Cells
  <2>1. \A k \in 1 .. Len(c) : c[k] \in Nodes /\ c[k] \in allocated
    BY ChainFacts
  <2>2. QED
    BY <1>1, <2>1 DEF Chain
<1>3. CASE num_elements = 0
  <2>1. /\ node' = [node EXCEPT ![n] = [payload |-> p, next |-> NULL, prev |-> NULL]]
        /\ head' = n /\ tail' = n /\ num_elements' = 1
    BY <1>3 DEF PushLinkedList, AddFirst
  <2>2. At(c, 1) = NULL
    BY <1>1, <1>3 DEF At
  <2>3. node' \in [Nodes -> Cells]
    BY <1>1, <2>1 DEF Cells
  <2>4. node'[n] = [payload |-> p, next |-> NULL, prev |-> NULL]
    BY <1>1, <2>1
  <2>5. 1 .. Len(c) = {}
    BY <1>1, <1>3
  <2>6. QED
    BY <1>1, <1>3, <2>1, <2>2, <2>3, <2>4, <2>5 DEF Adds
<1>4. CASE num_elements # 0
  <2>1. /\ node' = [node EXCEPT ![n] = [payload |-> p, next |-> head, prev |-> NULL],
                                ![head].prev = n]
        /\ head' = n /\ num_elements' = num_elements + 1 /\ tail' = tail
    BY <1>4 DEF PushLinkedList
  <2>2. head = c[1] /\ 1 \in 1 .. Len(c) /\ 1 # Len(c) + 1
    BY <1>1, <1>4 DEF At
  <2>3. head \in Nodes /\ head # n /\ node[head] \in Cells
    BY <1>2, <2>2
  <2> DEFINE m == [node EXCEPT ![n] = [payload |-> p, next |-> head, prev |-> NULL]]
  <2>4. m \in [Nodes -> Cells] /\ m[n] = [payload |-> p, next |-> head, prev |-> NULL]
        /\ \A x \in Nodes : x # n => m[x] = node[x]
    BY <1>1, <2>3 DEF Cells
  <2> HIDE DEF m
  <2>5. node' = [m EXCEPT ![head] = [m[head] EXCEPT !.prev = n]]
    BY <2>1 DEF m
  <2>6. [m[head] EXCEPT !.prev = n] \in Cells
    BY <2>3, <2>4 DEF Cells
  <2>7. node' \in [Nodes -> Cells]
    BY <2>4, <2>5, <2>6
  <2>8. node'[n] = [payload |-> p, next |-> head, prev |-> NULL]
    BY <1>1, <2>3, <2>4, <2>5
  <2>9. ASSUME NEW k \in 1 .. Len(c)
        PROVE  /\ node'[c[k]].next = At(c, k + 1)
               /\ node'[c[k]].prev = IF k = 1 THEN n ELSE At(c, k - 1)
               /\ node'[c[k]].payload = node[c[k]].payload
    <3>1. CASE k = 1
      <4>1. node'[c[k]] = [node[c[k]] EXCEPT !.prev = n]
        BY <2>2, <2>3, <2>4, <2>5, <3>1
      <4>2. QED
        BY <1>2, <3>1, <4>1 DEF Cells
    <3>2. CASE k # 1
      <4>1. c[k] # head
        BY <2>2, <3>2 DEF Chain
      <4>2. node'[c[k]] = node[c[k]]
        BY <1>2, <2>4, <2>5, <4>1
      <4>3. QED
        BY <1>2, <3>2, <4>2
    <3>3. QED
      BY <3>1, <3>2
  <2>10. At(c, 1 - 1) = NULL /\ \A k \in 1 .. Len(c) : k # 1 - 1
    BY <1>1
  <2>11. \A k \in 1 .. Len(c) :
           /\ node'[c[k]].next = IF k = 1 - 1 THEN n ELSE At(c, k + 1)
           /\ node'[c[k]].prev = IF k = 1 THEN n ELSE At(c, k - 1)
           /\ node'[c[k]].payload = node[c[k]].payload
    BY <2>9, <2>10
  <2>12. node'[n] = [payload |-> p, next |-> At(c, 1), prev |-> At(c, 1 - 1)]
    BY <1>1, <2>8, <2>10
  <2>13. 1 \in 1 .. Len(c) + 1
    BY <1>1
  <2>14. QED
    BY <1>1, <2>1, <2>2, <2>7, <2>11, <2>12, <2>13 DEF Adds
<1>5. QED
  BY <1>3, <1>4

LEMMA AppendAdds ==
  ASSUME Types, NEW c, Chain(c), NEW n \in Nodes \ allocated, NEW p \in Payloads,
         AppendLinkedList(n, p)
  PROVE  Adds(c, Len(c) + 1, n, p)
<1> PICK a : a = Len(c) + 1
  OBVIOUS
<1>1. /\ Len(c) \in Nat /\ num_elements = Len(c) /\ head = At(c, 1) /\ tail = At(c, a - 1)
      /\ At(c, a) = NULL /\ node \in [Nodes -> Cells] /\ a - 1 = Len(c) /\ a \in 1 .. Len(c) + 1
      /\ allocated' = allocated \cup {n} /\ n \in Nodes
  BY ChainFacts DEF Chain, AppendLinkedList, Types, At
<1>2. \A k \in 1 .. Len(c) :
        /\ c[k] \in Nodes /\ c[k] # n /\ k # a
        /\ node[c[k]].next = At(c, k + 1) /\ node[c[k]].prev = At(c, k - 1)
        /\ node[c[k]] \in Cells
  <2>1. \A k \in 1 .. Len(c) : c[k] \in Nodes /\ c[k] \in allocated
    BY ChainFacts
  <2>2. QED
    BY <1>1, <2>1 DEF Chain
<1>3. CASE num_elements = 0
  <2>1. /\ node' = [node EXCEPT ![n] = [payload |-> p, next |-> NULL, prev |-> NULL]]
        /\ head' = n /\ tail' = n /\ num_elements' = 1
    BY <1>3 DEF AppendLinkedList, AddFirst
  <2>2. At(c, a - 1) = NULL
    BY <1>1, <1>3 DEF At
  <2>3. node' \in [Nodes -> Cells]
    BY <1>1, <2>1 DEF Cells
  <2>4. node'[n] = [payload |-> p, next |-> NULL, prev |-> NULL]
    BY <1>1, <2>1
  <2>5. 1 .. Len(c) = {} /\ a = 1
    BY <1>1, <1>3
  <2>6. QED
    BY <1>1, <1>3, <2>1, <2>2, <2>3, <2>4, <2>5 DEF Adds
<1>4. CASE num_elements # 0
  <2>1. /\ node' = [node EXCEPT ![n] = [payload |-> p, next |-> NULL, prev |-> tail],
                                ![tail].next = n]
        /\ tail' = n /\ num_elements' = num_elements + 1 /\ head' = head
    BY <1>4 DEF AppendLinkedList
  <2>2. tail = c[a - 1] /\ a - 1 \in 1 .. Len(c) /\ a # 1
    BY <1>1, <1>4 DEF At
  <2>3. tail \in Nodes /\ tail # n /\ node[tail] \in Cells
    BY <1>2, <2>2
  <2> DEFINE m == [node EXCEPT ![n] = [payload |-> p, next |-> NULL, prev |-> tail]]
  <2>4. m \in [Nodes -> Cells] /\ m[n] = [payload |-> p, next |-> NULL, prev |-> tail]
        /\ \A x \in Nodes : x # n => m[x] = node[x]
    BY <1>1, <2>3 DEF Cells
  <2> HIDE DEF m
  <2>5. node' = [m EXCEPT ![tail] = [m[tail] EXCEPT !.next = n]]
    BY <2>1 DEF m
  <2>6. [m[tail] EXCEPT !.next = n] \in Cells
    BY <2>3, <2>4 DEF Cells
  <2>7. node' \in [Nodes -> Cells]
    BY <2>4, <2>5, <2>6
  <2>8. node'[n] = [payload |-> p, next |-> At(c, a), prev |-> At(c, a - 1)]
    BY <1>1, <2>3, <2>4, <2>5
  <2>9. ASSUME NEW k \in 1 .. Len(c)
        PROVE  /\ node'[c[k]].next = IF k = a - 1 THEN n ELSE At(c, k + 1)
               /\ node'[c[k]].prev = At(c, k - 1)
               /\ node'[c[k]].payload = node[c[k]].payload
    <3>1. CASE k = a - 1
      <4>1. node'[c[k]] = [node[c[k]] EXCEPT !.next = n]
        BY <2>2, <2>3, <2>4, <2>5, <3>1
      <4>2. QED
        BY <1>2, <3>1, <4>1 DEF Cells
    <3>2. CASE k # a - 1
      <4>1. c[k] # tail
        BY <2>2, <3>2 DEF Chain
      <4>2. node'[c[k]] = node[c[k]]
        BY <1>2, <2>4, <2>5, <4>1
      <4>3. QED
        BY <1>2, <3>2, <4>2
    <3>3. QED
      BY <3>1, <3>2
  <2>10. QED
    BY <1>1, <1>2, <2>1, <2>2, <2>7, <2>8, <2>9 DEF Adds
<1>5. QED
  BY <1>3, <1>4

(* LLIteratorInsertBefore, not at the head. *)
LEMMA SpliceAdds ==
  ASSUME Types, NEW c, Chain(c), NEW n \in Nodes \ allocated, NEW p \in Payloads,
         NEW a \in 1 .. Len(c), iter = c[a], a # 1, Splice(n, p)
  PROVE  Adds(c, a, n, p)
<1>1. /\ Len(c) \in Nat /\ node \in [Nodes -> Cells]
      /\ allocated' = allocated \cup {n} /\ num_elements' = num_elements + 1
      /\ head' = head /\ tail' = tail /\ n \in Nodes /\ a \in Int
  BY ChainFacts DEF Splice, Types
<1>2. \A k \in 1 .. Len(c) :
        /\ c[k] \in Nodes /\ c[k] # n
        /\ node[c[k]].next = At(c, k + 1) /\ node[c[k]].prev = At(c, k - 1)
        /\ node[c[k]] \in Cells
  <2>1. \A k \in 1 .. Len(c) : c[k] \in Nodes /\ c[k] \in allocated
    BY ChainFacts
  <2>2. QED
    BY <1>1, <2>1 DEF Chain
<1> PICK v, w : v = c[a - 1] /\ w = c[a]
  OBVIOUS
<1>3. /\ a - 1 \in 1 .. Len(c) /\ At(c, a - 1) = v /\ At(c, a) = w
      /\ a \in 1 .. Len(c) + 1 /\ a # Len(c) + 1
  BY <1>1 DEF At
<1>4. /\ v \in Nodes /\ w \in Nodes /\ v # n /\ w # n /\ v # w
      /\ node[v] \in Cells /\ node[w] \in Cells /\ node[w].prev = v /\ iter = w
  BY <1>1, <1>2, <1>3 DEF Chain
<1> DEFINE new == [payload |-> p, next |-> w, prev |-> v]
<1>5. node' = [node EXCEPT ![n] = new, ![v].next = n, ![w].prev = n]
  BY <1>4 DEF Splice
<1> DEFINE m == [node EXCEPT ![n] = new]
<1>6. m \in [Nodes -> Cells] /\ m[n] = new /\ \A x \in Nodes : x # n => m[x] = node[x]
  BY <1>1, <1>4 DEF Cells
<1> HIDE DEF m
<1> DEFINE m2 == [m EXCEPT ![v] = [m[v] EXCEPT !.next = n]]
<1>7. node' = [m2 EXCEPT ![w] = [m2[w] EXCEPT !.prev = n]]
  BY <1>5 DEF m, m2
<1>8. /\ m2 \in [Nodes -> Cells] /\ m2[n] = new /\ m2[v] = [node[v] EXCEPT !.next = n]
      /\ \A x \in Nodes : x # n /\ x # v => m2[x] = node[x]
  <2>1. [m[v] EXCEPT !.next = n] \in Cells
    BY <1>1, <1>4, <1>6 DEF Cells
  <2>2. QED
    BY <1>4, <1>6, <2>1
<1> HIDE DEF m2
<1>9. /\ node' \in [Nodes -> Cells] /\ node'[n] = new /\ node'[v] = [node[v] EXCEPT !.next = n]
      /\ node'[w] = [node[w] EXCEPT !.prev = n]
      /\ \A x \in Nodes : x # n /\ x # v /\ x # w => node'[x] = node[x]
  <2>1. m2[w] = node[w]
    BY <1>4, <1>8
  <2>2. [m2[w] EXCEPT !.prev = n] \in Cells
    BY <1>1, <1>4, <2>1 DEF Cells
  <2>3. QED
    BY <1>4, <1>7, <1>8, <2>1, <2>2
<1>10. ASSUME NEW k \in 1 .. Len(c)
       PROVE  /\ node'[c[k]].next = IF k = a - 1 THEN n ELSE At(c, k + 1)
              /\ node'[c[k]].prev = IF k = a THEN n ELSE At(c, k - 1)
              /\ node'[c[k]].payload = node[c[k]].payload
  <2>1. CASE k = a - 1
    BY <1>1, <1>2, <1>4, <1>9, <2>1 DEF Cells
  <2>2. CASE k = a
    BY <1>1, <1>2, <1>4, <1>9, <2>2 DEF Cells
  <2>3. CASE k # a /\ k # a - 1
    <3>1. c[k] # v /\ c[k] # w
      BY <1>3, <2>3 DEF Chain
    <3>2. node'[c[k]] = node[c[k]]
      BY <1>2, <1>9, <3>1
    <3>3. QED
      BY <1>2, <2>3, <3>2
  <2>4. QED
    BY <2>1, <2>2, <2>3
<1>11. node'[n] = [payload |-> p, next |-> At(c, a), prev |-> At(c, a - 1)]
  BY <1>3, <1>9
<1>12. QED
  BY <1>1, <1>3, <1>9, <1>10, <1>11 DEF Adds

-----------------------------------------------------------------------------
(* The calls that remove a node.                                            *)

LEMMA BlankIsCell == Blank \in Cells
BY DEF Blank, Cells

LEMMA RemovedBase ==
  ASSUME Types, NEW c, Chain(c)
  PROVE  /\ Len(c) \in Nat /\ node \in [Nodes -> Cells]
         /\ num_elements = Len(c) /\ head = At(c, 1) /\ tail = At(c, Len(c))
         /\ \A k \in 1 .. Len(c) :
              /\ c[k] \in Nodes /\ node[c[k]] \in Cells
              /\ node[c[k]].next = At(c, k + 1) /\ node[c[k]].prev = At(c, k - 1)
         /\ \A j, k \in 1 .. Len(c) : c[j] = c[k] => j = k
<1>1. \A k \in 1 .. Len(c) : c[k] \in Nodes
  BY ChainFacts
<1>2. Len(c) \in Nat
  BY ChainFacts
<1>3. QED
  BY <1>1, <1>2 DEF Chain, Types

LEMMA PopDrops ==
  ASSUME Types, NEW c, Chain(c), PopLinkedList
  PROVE  Drops(c, 1)
<1>1. /\ Len(c) \in Nat /\ node \in [Nodes -> Cells]
      /\ num_elements = Len(c) /\ head = At(c, 1) /\ tail = At(c, Len(c))
      /\ \A k \in 1 .. Len(c) :
           /\ c[k] \in Nodes /\ node[c[k]] \in Cells
           /\ node[c[k]].next = At(c, k + 1) /\ node[c[k]].prev = At(c, k - 1)
      /\ \A j, k \in 1 .. Len(c) : c[j] = c[k] => j = k
  BY RemovedBase
<1>2. num_elements # 0 /\ 1 \in 1 .. Len(c) /\ Len(c) # 0
  BY <1>1 DEF PopLinkedList
<1> PICK w : w = c[1]
  OBVIOUS
<1>3. w \in Nodes /\ head = w /\ At(c, 1 - 1) = NULL /\ node[w].next = At(c, 2)
  BY <1>1, <1>2 DEF At
<1>4. /\ allocated' = allocated \ {w} /\ num_elements' = num_elements - 1
      /\ head' = At(c, 2) /\ tail' = IF num_elements = 1 THEN NULL ELSE tail
      /\ node' = Freed(IF num_elements = 1 THEN node ELSE [node EXCEPT ![At(c, 2)].prev = NULL], w)
  BY <1>3 DEF PopLinkedList
<1>5. CASE Len(c) = 1
  <2>1. node' = [node EXCEPT ![w] = Blank]
    BY <1>1, <1>4, <1>5 DEF Freed
  <2>2. node' \in [Nodes -> Cells]
    BY <1>1, <2>1, BlankIsCell
  <2>3. \A k \in 1 .. Len(c) : k = 1
    BY <1>5
  <2>4. tail' = IF 1 = Len(c) THEN At(c, Len(c) - 1) ELSE tail
    BY <1>1, <1>3, <1>4, <1>5
  <2>5. QED
    BY <1>2, <1>4, <2>2, <2>3, <2>4 DEF Drops
<1>6. CASE Len(c) # 1
  <2>1. 2 \in 1 .. Len(c)
    BY <1>1, <1>2, <1>6
  <2> PICK v : v = c[2]
    OBVIOUS
  <2>2. At(c, 2) = v /\ v \in Nodes /\ v # w /\ node[v] \in Cells
    BY <1>1, <1>2, <2>1 DEF At
  <2> DEFINE m == [node EXCEPT ![v] = [node[v] EXCEPT !.prev = NULL]]
  <2>3. node' = [m EXCEPT ![w] = Blank]
    BY <1>1, <1>4, <1>6, <2>2 DEF Freed
  <2>4. [node[v] EXCEPT !.prev = NULL] \in Cells
    BY <2>2 DEF Cells
  <2>5. /\ m \in [Nodes -> Cells] /\ m[v] = [node[v] EXCEPT !.prev = NULL]
        /\ \A x \in Nodes : x # v => m[x] = node[x]
    BY <1>1, <2>2, <2>4
  <2> HIDE DEF m
  <2>6. /\ node' \in [Nodes -> Cells] /\ node'[v] = [node[v] EXCEPT !.prev = NULL]
        /\ \A x \in Nodes : x # v /\ x # w => node'[x] = node[x]
    BY <1>3, <2>2, <2>3, <2>5, BlankIsCell
  <2>7. ASSUME NEW k \in 1 .. Len(c), k # 1
        PROVE  /\ node'[c[k]].next = IF k = 1 - 1 THEN At(c, 1 + 1) ELSE At(c, k + 1)
               /\ node'[c[k]].prev = IF k = 1 + 1 THEN At(c, 1 - 1) ELSE At(c, k - 1)
               /\ node'[c[k]].payload = node[c[k]].payload
    <3>1. CASE k = 2
      <4>1. node'[c[k]] = [node[c[k]] EXCEPT !.prev = NULL]
        BY <2>6, <3>1
      <4>2. QED
        BY <1>1, <1>3, <3>1, <4>1 DEF Cells
    <3>2. CASE k # 2
      <4>1. c[k] # v /\ c[k] # w /\ k # 1 - 1 /\ k # 1 + 1
        BY <1>1, <1>2, <2>1, <2>7, <3>2
      <4>2. node'[c[k]] = node[c[k]]
        BY <1>1, <2>6, <4>1
      <4>3. QED
        BY <1>1, <4>1, <4>2
    <3>3. QED
      BY <3>1, <3>2
  <2>8. tail' = IF 1 = Len(c) THEN At(c, Len(c) - 1) ELSE tail
    BY <1>1, <1>4, <1>6
  <2>9. QED
    BY <1>2, <1>4, <2>6, <2>7, <2>8 DEF Drops
<1>7. QED
  BY <1>5, <1>6

LEMMA SliceDrops ==
  ASSUME Types, NEW c, Chain(c), SliceLinkedList
  PROVE  Drops(c, Len(c))
<1> PICK a : a = Len(c)
  OBVIOUS
<1>1. /\ a \in Nat /\ a = Len(c) /\ node \in [Nodes -> Cells]
      /\ num_elements = a /\ head = At(c, 1) /\ tail = At(c, a)
      /\ \A k \in 1 .. Len(c) :
           /\ c[k] \in Nodes /\ node[c[k]] \in Cells
           /\ node[c[k]].next = At(c, k + 1) /\ node[c[k]].prev = At(c, k - 1)
      /\ \A j, k \in 1 .. Len(c) : c[j] = c[k] => j = k
  BY RemovedBase
<1>2. num_elements # 0 /\ a \in 1 .. Len(c) /\ a # 0
  BY <1>1 DEF SliceLinkedList
<1> PICK w : w = c[a]
  OBVIOUS
<1>3. w \in Nodes /\ tail = w /\ At(c, a + 1) = NULL /\ node[w].prev = At(c, a - 1)
  BY <1>1, <1>2 DEF At
<1>4. /\ allocated' = allocated \ {w} /\ num_elements' = num_elements - 1
      /\ tail' = At(c, a - 1) /\ head' = IF num_elements = 1 THEN NULL ELSE head
      /\ node' = Freed(IF num_elements = 1 THEN node ELSE [node EXCEPT ![At(c, a - 1)].next = NULL], w)
  BY <1>3 DEF SliceLinkedList
<1>5. CASE a = 1
  <2>1. node' = [node EXCEPT ![w] = Blank]
    BY <1>1, <1>4, <1>5 DEF Freed
  <2>2. node' \in [Nodes -> Cells]
    BY <1>1, <2>1, BlankIsCell
  <2>3. \A k \in 1 .. Len(c) : k = a
    BY <1>1, <1>5
  <2>4. head' = IF a = 1 THEN At(c, 2) ELSE head
    BY <1>1, <1>3, <1>4, <1>5
  <2>5. QED
    BY <1>1, <1>2, <1>4, <2>2, <2>3, <2>4 DEF Drops
<1>6. CASE a # 1
  <2>1. a - 1 \in 1 .. Len(c)
    BY <1>1, <1>2, <1>6
  <2> PICK v : v = c[a - 1]
    OBVIOUS
  <2>2. At(c, a - 1) = v /\ v \in Nodes /\ v # w /\ node[v] \in Cells
    BY <1>1, <1>2, <2>1 DEF At
  <2> DEFINE m == [node EXCEPT ![v] = [node[v] EXCEPT !.next = NULL]]
  <2>3. node' = [m EXCEPT ![w] = Blank]
    BY <1>1, <1>4, <1>6, <2>2 DEF Freed
  <2>4. [node[v] EXCEPT !.next = NULL] \in Cells
    BY <2>2 DEF Cells
  <2>5. /\ m \in [Nodes -> Cells] /\ m[v] = [node[v] EXCEPT !.next = NULL]
        /\ \A x \in Nodes : x # v => m[x] = node[x]
    BY <1>1, <2>2, <2>4
  <2> HIDE DEF m
  <2>6. /\ node' \in [Nodes -> Cells] /\ node'[v] = [node[v] EXCEPT !.next = NULL]
        /\ \A x \in Nodes : x # v /\ x # w => node'[x] = node[x]
    BY <1>3, <2>2, <2>3, <2>5, BlankIsCell
  <2>7. ASSUME NEW k \in 1 .. Len(c), k # a
        PROVE  /\ node'[c[k]].next = IF k = a - 1 THEN At(c, a + 1) ELSE At(c, k + 1)
               /\ node'[c[k]].prev = IF k = a + 1 THEN At(c, a - 1) ELSE At(c, k - 1)
               /\ node'[c[k]].payload = node[c[k]].payload
    <3>1. k # a + 1
      BY <1>1
    <3>2. CASE k = a - 1
      <4>1. node'[c[k]] = [node[c[k]] EXCEPT !.next = NULL]
        BY <2>6, <3>2
      <4>2. QED
        BY <1>1, <1>3, <3>1, <3>2, <4>1 DEF Cells
    <3>3. CASE k # a - 1
      <4>1. c[k] # v /\ c[k] # w
        BY <1>1, <1>2, <2>1, <2>7, <3>3
      <4>2. node'[c[k]] = node[c[k]]
        BY <1>1, <2>6, <4>1
      <4>3. QED
        BY <1>1, <3>1, <3>3, <4>2
    <3>4. QED
      BY <3>2, <3>3
  <2>8. head' = IF a = 1 THEN At(c, 2) ELSE head
    BY <1>1, <1>4, <1>6
  <2>9. QED
    <3>1. tail' = IF a = Len(c) THEN At(c, Len(c) - 1) ELSE tail
      BY <1>1, <1>4
    <3>2. Drops(c, a)
      BY <1>2, <1>4, <2>6, <2>7, <2>8, <3>1 DEF Drops
    <3>3. QED
      BY <1>1, <3>2
<1>7. QED
  BY <1>5, <1>6

(* LLIteratorDelete of the only node. *)
LEMMA SoleDrops ==
  ASSUME Types, NEW c, Chain(c), NEW a \in 1 .. Len(c), iter = c[a], DeleteSole
  PROVE  Drops(c, a) /\ iter' = NULL /\ Len(c) = 1
<1>1. /\ Len(c) \in Nat /\ node \in [Nodes -> Cells]
      /\ num_elements = Len(c) /\ head = At(c, 1) /\ tail = At(c, Len(c))
      /\ \A k \in 1 .. Len(c) :
           /\ c[k] \in Nodes /\ node[c[k]] \in Cells
           /\ node[c[k]].next = At(c, k + 1) /\ node[c[k]].prev = At(c, k - 1)
  BY RemovedBase
<1>2. Len(c) = 1 /\ a = 1 /\ \A k \in 1 .. Len(c) : k = a
  <2>1. Len(c) = 1
    BY <1>1 DEF DeleteSole
  <2>2. a \in 1 .. 1
    BY <2>1
  <2>3. QED
    BY <2>1, <2>2
<1>3. At(c, 2) = NULL /\ At(c, Len(c) - 1) = NULL
  BY <1>2 DEF At
<1>4. /\ head' = NULL /\ tail' = NULL /\ num_elements' = 0 /\ iter' = node[iter].next
      /\ node' = [node EXCEPT ![iter] = Blank] /\ allocated' = allocated \ {iter}
  BY DEF DeleteSole, Freed
<1>5. node' \in [Nodes -> Cells]
  BY <1>1, <1>4, BlankIsCell
<1>6. iter' = NULL
  BY <1>1, <1>2, <1>3, <1>4
<1>7. num_elements' = num_elements - 1
  BY <1>1, <1>2, <1>4
<1>8. QED
  BY <1>2, <1>3, <1>4, <1>5, <1>6, <1>7 DEF Drops

(* LLIteratorDelete of a node between two others. *)
LEMMA InsideDrops ==
  ASSUME Types, NEW c, Chain(c), NEW a \in 1 .. Len(c), iter = c[a], DeleteInside
  PROVE  Drops(c, a) /\ iter' = At(c, a + 1) /\ a # Len(c)
<1>1. /\ Len(c) \in Nat /\ node \in [Nodes -> Cells]
      /\ num_elements = Len(c) /\ head = At(c, 1) /\ tail = At(c, Len(c))
      /\ \A k \in 1 .. Len(c) :
           /\ c[k] \in Nodes /\ node[c[k]] \in Cells
           /\ node[c[k]].next = At(c, k + 1) /\ node[c[k]].prev = At(c, k - 1)
      /\ \A j, k \in 1 .. Len(c) : c[j] = c[k] => j = k
  BY RemovedBase
<1>2. /\ a # 1 /\ a # Len(c)
  <2>1. iter # head /\ iter # tail
    BY DEF DeleteInside
  <2>2. 1 \in 1 .. Len(c) /\ Len(c) \in 1 .. Len(c)
    BY <1>1
  <2>3. head = c[1] /\ tail = c[Len(c)]
    BY <1>1, <2>2 DEF At
  <2>4. QED
    BY <2>1, <2>3
<1>3. a - 1 \in 1 .. Len(c) /\ a + 1 \in 1 .. Len(c) /\ a \in Int
  BY <1>1, <1>2
<1> PICK u, v, w : u = c[a - 1] /\ v = c[a + 1] /\ w = c[a]
  OBVIOUS
<1>4. /\ At(c, a - 1) = u /\ At(c, a + 1) = v
      /\ u \in Nodes /\ v \in Nodes /\ w \in Nodes
      /\ node[u] \in Cells /\ node[v] \in Cells
  BY <1>1, <1>3 DEF At
<1>5. u # v /\ u # w /\ v # w
  BY <1>1, <1>3
<1>6. iter = w /\ node[w].next = v /\ node[w].prev = u
  BY <1>1, <1>4
<1>7. /\ node' = [[node EXCEPT ![u].next = v, ![v].prev = u] EXCEPT ![w] = Blank]
      /\ iter' = v /\ allocated' = allocated \ {w} /\ num_elements' = num_elements - 1
      /\ head' = head /\ tail' = tail
  BY <1>6 DEF DeleteInside, Freed
<1> DEFINE m == [node EXCEPT ![u] = [node[u] EXCEPT !.next = v]]
           m2 == [m EXCEPT ![v] = [m[v] EXCEPT !.prev = u]]
<1>8. node' = [m2 EXCEPT ![w] = Blank]
  BY <1>7
<1>9. [node[u] EXCEPT !.next = v] \in Cells
  BY <1>4 DEF Cells
<1>10. /\ m \in [Nodes -> Cells] /\ m[u] = [node[u] EXCEPT !.next = v]
       /\ \A x \in Nodes : x # u => m[x] = node[x]
  BY <1>1, <1>4, <1>9
<1> HIDE DEF m
<1>11. m[v] = node[v]
  BY <1>4, <1>5, <1>10
<1>12. [m[v] EXCEPT !.prev = u] \in Cells
  BY <1>4, <1>11 DEF Cells
<1>13. /\ m2 \in [Nodes -> Cells] /\ m2[u] = [node[u] EXCEPT !.next = v]
       /\ m2[v] = [node[v] EXCEPT !.prev = u]
       /\ \A x \in Nodes : x # u /\ x # v => m2[x] = node[x]
  BY <1>4, <1>5, <1>10, <1>11, <1>12
<1> HIDE DEF m2
<1>14. /\ node' \in [Nodes -> Cells] /\ node'[u] = [node[u] EXCEPT !.next = v]
       /\ node'[v] = [node[v] EXCEPT !.prev = u]
       /\ \A x \in Nodes : x # u /\ x # v /\ x # w => node'[x] = node[x]
  BY <1>4, <1>5, <1>8, <1>13, BlankIsCell
<1>15. ASSUME NEW k \in 1 .. Len(c), k # a
       PROVE  /\ node'[c[k]].next = IF k = a - 1 THEN At(c, a + 1) ELSE At(c, k + 1)
              /\ node'[c[k]].prev = IF k = a + 1 THEN At(c, a - 1) ELSE At(c, k - 1)
              /\ node'[c[k]].payload = node[c[k]].payload
  <2>1. CASE k = a - 1
    <3>1. node'[c[k]] = [node[c[k]] EXCEPT !.next = v] /\ k # a + 1
      BY <1>3, <1>14, <2>1
    <3>2. QED
      BY <1>1, <1>4, <2>1, <3>1 DEF Cells
  <2>2. CASE k = a + 1
    <3>1. node'[c[k]] = [node[c[k]] EXCEPT !.prev = u] /\ k # a - 1
      BY <1>3, <1>14, <2>2
    <3>2. QED
      BY <1>1, <1>4, <2>2, <3>1 DEF Cells
  <2>3. CASE k # a - 1 /\ k # a + 1
    <3>1. c[k] # u /\ c[k] # v /\ c[k] # w
      BY <1>1, <1>3, <1>15, <2>3
    <3>2. node'[c[k]] = node[c[k]]
      BY <1>1, <1>14, <3>1
    <3>3. QED
      BY <1>1, <2>3, <3>2
  <2>4. QED
    BY <2>1, <2>2, <2>3
<1>16. Drops(c, a)
  BY <1>2, <1>7, <1>14, <1>15 DEF Drops
<1>17. QED
  BY <1>2, <1>4, <1>7, <1>16

(* LLIteratorDelete of the first or the last of several nodes. *)
LEMMA EndDrops ==
  ASSUME Types, NEW c, Chain(c), NEW a \in 1 .. Len(c), iter = c[a], DeleteEnd
  PROVE  Drops(c, a) /\ iter' = IF a = Len(c) THEN At(c, a - 1) ELSE At(c, a + 1)
<1>1. /\ Len(c) \in Nat /\ node \in [Nodes -> Cells]
      /\ num_elements = Len(c) /\ head = At(c, 1) /\ tail = At(c, Len(c))
      /\ \A k \in 1 .. Len(c) :
           /\ c[k] \in Nodes /\ node[c[k]] \in Cells
           /\ node[c[k]].next = At(c, k + 1) /\ node[c[k]].prev = At(c, k - 1)
      /\ \A j, k \in 1 .. Len(c) : c[j] = c[k] => j = k
  BY RemovedBase
<1>2. 1 \in 1 .. Len(c) /\ Len(c) \in 1 .. Len(c) /\ Len(c) # 1
  BY <1>1 DEF DeleteEnd
<1>3. head = c[1] /\ tail = c[Len(c)]
  BY <1>1, <1>2 DEF At
<1>4. CASE iter = head /\ iter' = node[iter].next /\ PopLinkedList
  <2>1. a = 1
    BY <1>1, <1>2, <1>3, <1>4
  <2>2. Drops(c, 1)
    BY <1>4, PopDrops
  <2>3. iter' = At(c, a + 1)
    BY <1>1, <1>4
  <2>4. QED
    BY <1>2, <2>1, <2>2, <2>3
<1>5. CASE iter # head /\ iter = tail /\ iter' = node[iter].prev /\ SliceLinkedList
  <2>1. a = Len(c)
    BY <1>1, <1>2, <1>3, <1>5
  <2>2. Drops(c, Len(c))
    BY <1>5, SliceDrops
  <2>3. iter' = At(c, a - 1)
    BY <1>1, <1>5
  <2>4. QED
    BY <2>1, <2>2, <2>3
<1>6. QED
  BY <1>4, <1>5 DEF DeleteEnd

(* LLIteratorDelete: the iterator moves on, at the tail back. *)
LEMMA DeleteDrops ==
  ASSUME Types, NEW c, Chain(c), NEW a \in 1 .. Len(c), iter = c[a], LLIteratorDelete
  PROVE  /\ Drops(c, a) /\ iter' = IF a = Len(c) THEN At(c, a - 1) ELSE At(c, a + 1)
         /\ ret' = [ok |-> Len(c) # 1, payload |-> node[c[a]].payload]
<1>1. ret' = [ok |-> Len(c) # 1, payload |-> node[c[a]].payload]
  BY DEF LLIteratorDelete, Returns, Chain
<1>2. CASE DeleteSole
  <2>1. Drops(c, a) /\ iter' = NULL /\ Len(c) = 1
    BY <1>2, SoleDrops
  <2>2. a \in 1 .. 1
    BY <2>1
  <2>3. a = Len(c) /\ a - 1 = 0
    BY <2>1, <2>2
  <2>4. At(c, 0) = NULL
    BY DEF At
  <2>5. QED
    BY <1>1, <2>1, <2>3, <2>4
<1>3. CASE DeleteInside
  BY <1>1, <1>3, InsideDrops
<1>4. CASE DeleteEnd
  BY <1>1, <1>4, EndDrops
<1>5. QED
  BY <1>2, <1>3, <1>4 DEF LLIteratorDelete

-----------------------------------------------------------------------------
(* The bubble sort: one comparison, one sweep, the sweeps.                  *)

Swapped(q, k, ascending) ==
  IF Swaps(q[k - 1], q[k], ascending) THEN [q EXCEPT ![k - 1] = q[k], ![k] = q[k - 1]] ELSE q

SweepStep(s, ascending, F, k) == IF k = 1 THEN s ELSE Swapped(F[k - 1], k, ascending)

SweepRec(s, ascending, F, n) == F = [k \in 1 .. n |-> SweepStep(s, ascending, F, k)]

SweepFcn(s, ascending) == CHOOSE F : SweepRec(s, ascending, F, Len(s))

SortStep(s, ascending, F, k) == IF k = 0 THEN s ELSE Sweep(F[k - 1], ascending)

SortRec(s, ascending, F, n) == F = [k \in 0 .. n |-> SortStep(s, ascending, F, k)]

SortFcn(s, ascending) == CHOOSE F : SortRec(s, ascending, F, Len(s))

LEMMA SweepIsFcn ==
  ASSUME NEW s, NEW ascending
  PROVE  Sweep(s, ascending) = IF Len(s) < 2 THEN s ELSE SweepFcn(s, ascending)[Len(s)]
BY DEF Sweep, SweepFcn, SweepRec, SweepStep, Swapped

LEMMA SortIsFcn ==
  ASSUME NEW s, NEW ascending
  PROVE  BubbleSort(s, ascending) = SortFcn(s, ascending)[Len(s)]
BY DEF BubbleSort, SortFcn, SortRec, SortStep

LEMMA SweepExists ==
  ASSUME NEW s, NEW ascending, NEW n \in Nat
  PROVE  \E F : SweepRec(s, ascending, F, n)
<1> DEFINE T == {m \in Nat : \E F : SweepRec(s, ascending, F, m)}
<1>1. 0 \in T
  <2> DEFINE F == [k \in 1 .. 0 |-> s]
  <2>1. F = [k \in 1 .. 0 |-> SweepStep(s, ascending, F, k)]
    OBVIOUS
  <2>2. SweepRec(s, ascending, F, 0)
    BY <2>1, Zenon DEF SweepRec
  <2>3. QED
    BY <2>2
<1>2. ASSUME NEW m \in T PROVE m + 1 \in T
  <2>1. PICK F : SweepRec(s, ascending, F, m)
    OBVIOUS
  <2> DEFINE G == [k \in 1 .. m + 1 |-> IF k <= m THEN F[k] ELSE SweepStep(s, ascending, F, k)]
             H == [k \in 1 .. m + 1 |-> SweepStep(s, ascending, G, k)]
  <2>2. m \in Nat
    OBVIOUS
  <2>3. \A k \in 1 .. m : F[k] = SweepStep(s, ascending, F, k)
    BY <2>1, <2>2 DEF SweepRec
  <2>4. ASSUME NEW k \in 1 .. m + 1 PROVE G[k] = H[k]
    <3>1. k # 1 => G[k - 1] = F[k - 1]
      BY <2>2
    <3>2. SweepStep(s, ascending, G, k) = SweepStep(s, ascending, F, k)
      BY <3>1 DEF SweepStep
    <3>3. QED
      BY <2>2, <2>3, <3>2
  <2>5. G = H
    BY <2>4
  <2>6. SweepRec(s, ascending, G, m + 1)
    BY <2>5 DEF SweepRec
  <2>7. QED
    BY <2>2, <2>6
<1>3. T = Nat
  BY <1>1, <1>2, Rising
<1>4. QED
  BY <1>3

LEMMA SortExists ==
  ASSUME NEW s, NEW ascending, NEW n \in Nat
  PROVE  \E F : SortRec(s, ascending, F, n)
<1> DEFINE T == {m \in Nat : \E F : SortRec(s, ascending, F, m)}
<1>1. 0 \in T
  <2>1. SortRec(s, ascending, [k \in 0 .. 0 |-> s], 0)
    BY DEF SortRec, SortStep
  <2>2. QED
    BY <2>1
<1>2. ASSUME NEW m \in T PROVE m + 1 \in T
  <2>1. PICK F : SortRec(s, ascending, F, m)
    OBVIOUS
  <2> DEFINE G == [k \in 0 .. m + 1 |-> IF k <= m THEN F[k] ELSE SortStep(s, ascending, F, k)]
             H == [k \in 0 .. m + 1 |-> SortStep(s, ascending, G, k)]
  <2>2. m \in Nat
    OBVIOUS
  <2>3. \A k \in 0 .. m : F[k] = SortStep(s, ascending, F, k)
    BY <2>1, <2>2 DEF SortRec
  <2>4. ASSUME NEW k \in 0 .. m + 1 PROVE G[k] = H[k]
    <3>1. k # 0 => G[k - 1] = F[k - 1]
      BY <2>2
    <3>2. SortStep(s, ascending, G, k) = SortStep(s, ascending, F, k)
      BY <3>1 DEF SortStep
    <3>3. QED
      BY <2>2, <2>3, <3>2
  <2>5. G = H
    BY <2>4
  <2>6. SortRec(s, ascending, G, m + 1)
    BY <2>5 DEF SortRec
  <2>7. QED
    BY <2>2, <2>6
<1>3. T = Nat
  BY <1>1, <1>2, Rising
<1>4. QED
  BY <1>3

LEMMA SweepFcnRec ==
  ASSUME NEW s, Len(s) \in Nat, NEW ascending
  PROVE  \A k \in 1 .. Len(s) :
           SweepFcn(s, ascending)[k] =
             IF k = 1 THEN s ELSE Swapped(SweepFcn(s, ascending)[k - 1], k, ascending)
<1>1. \E F : SweepRec(s, ascending, F, Len(s))
  BY SweepExists
<1>2. SweepRec(s, ascending, SweepFcn(s, ascending), Len(s))
  BY <1>1, Zenon DEF SweepFcn
<1>3. ASSUME NEW F, SweepRec(s, ascending, F, Len(s)), NEW k \in 1 .. Len(s)
      PROVE  F[k] = SweepStep(s, ascending, F, k)
  BY <1>3 DEF SweepRec
<1>4. QED
  BY <1>2, <1>3 DEF SweepStep

LEMMA SortFcnRec ==
  ASSUME NEW s, Len(s) \in Nat, NEW ascending
  PROVE  \A k \in 0 .. Len(s) :
           SortFcn(s, ascending)[k] =
             IF k = 0 THEN s ELSE Sweep(SortFcn(s, ascending)[k - 1], ascending)
<1>1. \E F : SortRec(s, ascending, F, Len(s))
  BY SortExists
<1>2. SortRec(s, ascending, SortFcn(s, ascending), Len(s))
  BY <1>1, Zenon DEF SortFcn
<1>3. ASSUME NEW F, SortRec(s, ascending, F, Len(s)), NEW k \in 0 .. Len(s)
      PROVE  F[k] = SortStep(s, ascending, F, k)
  BY <1>3 DEF SortRec
<1>4. QED
  BY <1>2, <1>3 DEF SortStep

(* How often p occurs in s, and sequences with the same elements.           *)
Places(s, p) == {i \in 1 .. Len(s) : s[i] = p}
Times(s, p) == Cardinality(Places(s, p))
SameItems(s, t) == Len(s) = Len(t) /\ \A p : Times(s, p) = Times(t, p)

Swap(q, k, r) ==
  /\ Len(r) = Len(q) /\ r[k - 1] = q[k] /\ r[k] = q[k - 1]
  /\ \A i \in 1 .. Len(q) : i # k /\ i # k - 1 => r[i] = q[i]

LEMMA SwapSame ==
  ASSUME NEW q, Len(q) \in Nat, NEW k \in 2 .. Len(q), NEW r, Swap(q, k, r)
  PROVE  SameItems(r, q)
<1> SUFFICES ASSUME NEW p PROVE Times(r, p) = Times(q, p)
  BY DEF SameItems, Swap
<1> DEFINE other(i) == IF i = k THEN k - 1 ELSE IF i = k - 1 THEN k ELSE i
           f == [i \in Places(q, p) |-> other(i)]
<1>1. ASSUME NEW i \in 1 .. Len(q)
      PROVE  /\ other(i) \in 1 .. Len(q) /\ other(other(i)) = i
             /\ r[other(i)] = q[i] /\ r[i] = q[other(i)]
  <2>1. k \in 1 .. Len(q) /\ k - 1 \in 1 .. Len(q) /\ k # k - 1
    OBVIOUS
  <2>2. CASE i = k
    BY <2>1, <2>2 DEF Swap
  <2>3. CASE i = k - 1
    BY <2>1, <2>3 DEF Swap
  <2>4. CASE i # k /\ i # k - 1
    BY <2>4 DEF Swap
  <2>5. QED
    BY <2>2, <2>3, <2>4
<1> HIDE DEF other
<1>2. Len(r) = Len(q)
  BY DEF Swap
<1>3. ASSUME NEW i \in Places(q, p) PROVE other(i) \in Places(r, p)
  <2>1. i \in 1 .. Len(q) /\ q[i] = p
    BY DEF Places
  <2>2. QED
    BY <1>1, <1>2, <2>1 DEF Places
<1>4. ASSUME NEW j \in Places(r, p) PROVE \E i \in Places(q, p) : other(i) = j
  <2>1. j \in 1 .. Len(q) /\ r[j] = p
    BY <1>2 DEF Places
  <2>2. other(j) \in 1 .. Len(q) /\ q[other(j)] = p /\ other(other(j)) = j
    BY <1>1, <2>1
  <2>3. other(j) \in Places(q, p)
    BY <2>2 DEF Places
  <2>4. QED
    BY <2>2, <2>3
<1>5. \A i, j \in Places(q, p) : other(i) = other(j) => i = j
  <2>1. \A i \in Places(q, p) : i \in 1 .. Len(q)
    BY DEF Places
  <2>2. \A i \in Places(q, p) : other(other(i)) = i
    BY <1>1, <2>1
  <2>3. QED
    BY <2>2
<1>6. f \in Bijection(Places(q, p), Places(r, p))
  BY <1>3, <1>4, <1>5 DEF Bijection, Injection, Surjection, IsInjective
<1>7. IsFiniteSet(Places(q, p))
  <2>1. IsFiniteSet(1 .. Len(q))
    BY FS_Interval
  <2>2. Places(q, p) \subseteq 1 .. Len(q)
    BY DEF Places
  <2>3. QED
    BY <2>1, <2>2, FS_Subset
<1>8. ExistsBijection(Places(q, p), Places(r, p))
  BY <1>6 DEF ExistsBijection
<1>9. Cardinality(Places(q, p)) = Cardinality(Places(r, p))
  BY <1>7, <1>8, FS_Bijection
<1>10. QED
  BY <1>9 DEF Times

LEMMA SameRefl ==
  ASSUME NEW s
  PROVE  SameItems(s, s)
BY DEF SameItems

LEMMA SameTrans ==
  ASSUME NEW s, NEW t, NEW u, SameItems(s, t), SameItems(t, u)
  PROVE  SameItems(s, u)
BY DEF SameItems

(* The order the sort establishes. *)
Le(a, b, ascending) == IF ascending THEN a <= b ELSE a >= b

Compared(P, q, k, ascending, r) ==
  /\ r \in Seq(P) /\ Len(r) = Len(q) /\ SameItems(r, q)
  /\ Le(r[k - 1], r[k], ascending)
  /\ \/ r = q /\ Le(q[k - 1], q[k], ascending)
     \/ Swap(q, k, r) /\ ~ Le(q[k - 1], q[k], ascending)

LEMMA SwappedFacts ==
  ASSUME NEW P, P \subseteq Int, NEW q \in Seq(P), NEW k \in 2 .. Len(q), NEW ascending \in BOOLEAN
  PROVE  Compared(P, q, k, ascending, Swapped(q, k, ascending))
<1> PICK r : r = Swapped(q, k, ascending)
  OBVIOUS
<1>1. /\ Len(q) \in Nat /\ k \in 1 .. Len(q) /\ k - 1 \in 1 .. Len(q) /\ k # k - 1
      /\ q[k] \in P /\ q[k - 1] \in P /\ q[k] \in Int /\ q[k - 1] \in Int
  <2>1. Len(q) \in Nat /\ k \in 1 .. Len(q) /\ k - 1 \in 1 .. Len(q) /\ k # k - 1
    OBVIOUS
  <2>2. q[k] \in P /\ q[k - 1] \in P
    BY <2>1
  <2>3. QED
    BY <2>1, <2>2
<1>2. CASE Swaps(q[k - 1], q[k], ascending)
  <2>1. r = [q EXCEPT ![k - 1] = q[k], ![k] = q[k - 1]]
    BY <1>2 DEF Swapped
  <2> DEFINE m == [q EXCEPT ![k - 1] = q[k]]
  <2>2. m \in Seq(P) /\ Len(m) = Len(q) /\ m[k - 1] = q[k]
        /\ \A i \in 1 .. Len(q) : i # k - 1 => m[i] = q[i]
    BY <1>1
  <2>3. r = [m EXCEPT ![k] = q[k - 1]]
    BY <2>1
  <2> HIDE DEF m
  <2>4. r \in Seq(P) /\ Len(r) = Len(q) /\ r[k] = q[k - 1]
        /\ \A i \in 1 .. Len(q) : i # k => r[i] = m[i]
    BY <1>1, <2>2, <2>3
  <2>5. Swap(q, k, r)
    BY <1>1, <2>2, <2>4 DEF Swap
  <2>6. ~ Le(q[k - 1], q[k], ascending) /\ Le(q[k], q[k - 1], ascending)
    BY <1>1, <1>2 DEF Le, Swaps
  <2>7. SameItems(r, q)
    BY <1>1, <2>5, SwapSame
  <2>8. Le(r[k - 1], r[k], ascending)
    BY <2>5, <2>6 DEF Swap
  <2>9. QED
    BY <2>4, <2>5, <2>6, <2>7, <2>8 DEF Compared
<1>3. CASE ~ Swaps(q[k - 1], q[k], ascending)
  <2>1. r = q
    BY <1>3 DEF Swapped
  <2>2. Le(q[k - 1], q[k], ascending)
    BY <1>1, <1>3 DEF Le, Swaps
  <2>3. QED
    BY <2>1, <2>2, SameRefl DEF Compared
<1>4. QED
  BY <1>2, <1>3

(* The last m of a sequence q are in their places.                          *)
Settled(q, m, ascending) ==
  \A i, j \in 1 .. Len(q) : i < j /\ j > Len(q) - m => Le(q[i], q[j], ascending)

(* ... and in the sweep that settles one more, after k comparisons: the     *)
(* last one compared is the largest so far.                                 *)
Sweeping(q, m, k, ascending) ==
  \A i, j \in 1 .. Len(q) :
    i < j /\ (j > Len(q) - m \/ j = k \/ (j = Len(q) - m /\ k >= Len(q) - m))
      => Le(q[i], q[j], ascending)

LEMMA OneComparison ==
  ASSUME NEW P, P \subseteq Int, NEW q \in Seq(P), NEW k \in 2 .. Len(q), NEW ascending \in BOOLEAN,
         NEW m \in Nat, Sweeping(q, m, k - 1, ascending)
  PROVE  Sweeping(Swapped(q, k, ascending), m, k, ascending)
<1> PICK r : r = Swapped(q, k, ascending)
  OBVIOUS
<1> PICK n : n = Len(q)
  OBVIOUS
<1>1. /\ n = Len(q) /\ n \in Nat /\ k \in 1 .. n /\ k - 1 \in 1 .. n /\ k - 1 < k
      /\ r \in Seq(P) /\ Len(r) = n /\ Le(r[k - 1], r[k], ascending)
      /\ \/ r = q
         \/ Swap(q, k, r) /\ ~ Le(q[k - 1], q[k], ascending)
  <2>1. n = Len(q) /\ n \in Nat /\ k \in 1 .. n /\ k - 1 \in 1 .. n /\ k - 1 < k
    OBVIOUS
  <2>2. /\ r \in Seq(P) /\ Len(r) = Len(q) /\ Le(r[k - 1], r[k], ascending)
        /\ \/ r = q
           \/ Swap(q, k, r) /\ ~ Le(q[k - 1], q[k], ascending)
    <3>1. Compared(P, q, k, ascending, r)
      BY SwappedFacts, Zenon
    <3>2. QED
      BY <3>1 DEF Compared
  <2>3. QED
    BY <2>1, <2>2
<1>2. \A i \in 1 .. n : q[i] \in Int /\ r[i] \in Int
  <2>1. \A i \in 1 .. n : q[i] \in P /\ r[i] \in P
    BY <1>1
  <2>2. QED
    BY <2>1
<1>3. \A i, j \in 1 .. n : i < j /\ j > n - m => Le(q[i], q[j], ascending)
  BY <1>1 DEF Sweeping
<1>4. \A i \in 1 .. n : i < k - 1 => Le(q[i], q[k - 1], ascending)
  BY <1>1 DEF Sweeping
<1>5. k - 1 >= n - m => \A i \in 1 .. n : i < n - m => Le(q[i], q[n - m], ascending)
  <2>1. SUFFICES ASSUME k - 1 >= n - m, NEW i \in 1 .. n, i < n - m
                 PROVE  Le(q[i], q[n - m], ascending)
    OBVIOUS
  <2>2. n - m \in 1 .. n
    BY <1>1, <2>1
  <2>3. QED
    BY <1>1, <2>1, <2>2 DEF Sweeping
<1>6. \A a, b, d \in Int : Le(a, b, ascending) /\ Le(b, d, ascending) => Le(a, d, ascending)
  BY DEF Le
<1>7. ASSUME NEW i \in 1 .. n, i < k PROVE Le(r[i], r[k], ascending)
  <2>1. CASE i = k - 1
    BY <1>1, <2>1
  <2>2. CASE i # k - 1
    <3>1. i < k - 1 /\ i # k /\ i # k - 1
      BY <1>1, <1>7, <2>2
    <3>2. r[i] = q[i] /\ Le(q[i], q[k - 1], ascending)
      BY <1>1, <1>4, <3>1 DEF Swap
    <3>3. CASE r = q
      BY <1>1, <1>2, <1>6, <3>2, <3>3
    <3>4. CASE Swap(q, k, r)
      BY <1>1, <3>2, <3>4 DEF Swap
    <3>5. QED
      BY <1>1, <3>3, <3>4
  <2>3. QED
    BY <2>1, <2>2
<1>8. CASE k > n - m
  <2>1. Le(q[k - 1], q[k], ascending)
    BY <1>1, <1>3, <1>8
  <2>2. r = q
    BY <1>1, <2>1
  <2>3. ASSUME NEW i \in 1 .. n, NEW j \in 1 .. n, i < j,
               j > n - m \/ j = k \/ (j = n - m /\ k >= n - m)
        PROVE  Le(r[i], r[j], ascending)
    <3>1. CASE j > n - m
      BY <1>3, <2>2, <2>3, <3>1
    <3>2. CASE j = k
      BY <1>7, <2>3, <3>2
    <3>3. CASE j = n - m
      <4>1. k - 1 >= n - m
        BY <1>1, <1>8
      <4>2. QED
        BY <1>5, <2>2, <2>3, <3>3, <4>1
    <3>4. QED
      BY <2>3, <3>1, <3>2, <3>3
  <2>4. QED
    BY <1>1, <2>3 DEF Sweeping
<1>9. CASE ~(k > n - m)
  <2>1. ASSUME NEW i \in 1 .. n, NEW j \in 1 .. n, i < j,
               j > n - m \/ j = k \/ (j = n - m /\ k >= n - m)
        PROVE  Le(r[i], r[j], ascending)
    <3>1. CASE j > n - m
      <4>1. j > k /\ j # k /\ j # k - 1
        BY <1>1, <1>9, <3>1
      <4>2. r[j] = q[j]
        BY <1>1, <4>1 DEF Swap
      <4>3. \E h \in 1 .. n : h < j /\ r[i] = q[h]
        <5>1. CASE r = q
          BY <2>1, <5>1
        <5>2. CASE Swap(q, k, r)
          <6>1. CASE i = k
            BY <1>1, <4>1, <5>2, <6>1 DEF Swap
          <6>2. CASE i = k - 1
            BY <1>1, <4>1, <5>2, <6>2 DEF Swap
          <6>3. CASE i # k /\ i # k - 1
            BY <1>1, <2>1, <5>2, <6>3 DEF Swap
          <6>4. QED
            BY <6>1, <6>2, <6>3
        <5>3. QED
          BY <1>1, <5>1, <5>2
      <4>4. QED
        BY <1>3, <3>1, <4>2, <4>3
    <3>2. CASE ~(j > n - m)
      <4>1. j = k
        BY <1>1, <1>9, <2>1, <3>2
      <4>2. QED
        BY <1>7, <2>1, <4>1
    <3>3. QED
      BY <3>1, <3>2
  <2>2. QED
    BY <1>1, <2>1 DEF Sweeping
<1>10. QED
  BY <1>8, <1>9

(* What is left of s after some of the comparisons.                         *)
Rearranged(P, s, q) == q \in Seq(P) /\ Len(q) = Len(s) /\ SameItems(q, s)

LEMMA OneSweep ==
  ASSUME NEW P, P \subseteq Int, NEW s \in Seq(P), NEW ascending \in BOOLEAN,
         NEW m \in Nat, Settled(s, m, ascending)
  PROVE  /\ Rearranged(P, s, Sweep(s, ascending))
         /\ Settled(Sweep(s, ascending), m + 1, ascending)
<1> PICK n : n = Len(s)
  OBVIOUS
<1>1. n = Len(s) /\ n \in Nat
  OBVIOUS
<1>2. CASE n < 2
  <2>1. Sweep(s, ascending) = s
    BY <1>2, SweepIsFcn
  <2>2. Settled(s, m + 1, ascending)
    <3>1. \A i, j \in 1 .. n : ~(i < j)
      BY <1>1, <1>2
    <3>2. QED
      BY <3>1 DEF Settled
  <2>3. QED
    BY <2>1, <2>2, SameRefl DEF Rearranged
<1>3. CASE ~(n < 2)
  <2> PICK F : F = SweepFcn(s, ascending)
    OBVIOUS
  <2>1. \A k \in 1 .. n : F[k] = IF k = 1 THEN s ELSE Swapped(F[k - 1], k, ascending)
    BY <1>1, SweepFcnRec
  <2> DEFINE Good(q, k) == Rearranged(P, s, q) /\ Sweeping(q, m, k, ascending)
             T == {k \in Nat : k + 1 <= n => Good(F[k + 1], k + 1)}
  <2>2. Good(F[1], 1)
    <3>1. F[1] = s
      BY <1>1, <1>3, <2>1
    <3>2. ASSUME NEW i \in 1 .. n, NEW j \in 1 .. n, i < j,
                 j > n - m \/ j = 1 \/ (j = n - m /\ 1 >= n - m)
          PROVE  j > n - m
      BY <1>1, <3>2
    <3>3. Sweeping(s, m, 1, ascending)
      BY <1>1, <3>2 DEF Sweeping, Settled
    <3>4. QED
      BY <3>1, <3>3, SameRefl DEF Rearranged
  <2>3. 0 \in T
    BY <2>2
  <2>4. ASSUME NEW k \in T PROVE k + 1 \in T
    <3>1. k \in Nat
      OBVIOUS
    <3>2. SUFFICES ASSUME k + 2 <= n PROVE Good(F[k + 2], k + 2)
      BY <3>1
    <3> PICK q : q = F[k + 1]
      OBVIOUS
    <3>3. Good(q, k + 1)
      BY <1>1, <3>1, <3>2
    <3>4. q \in Seq(P) /\ Len(q) = n /\ SameItems(q, s)
      BY <1>1, <3>3 DEF Rearranged
    <3>5. k + 2 \in 2 .. Len(q) /\ (k + 2) - 1 = k + 1 /\ k + 2 # 1 /\ k + 2 \in 1 .. n
      BY <1>1, <3>1, <3>2, <3>4
    <3> PICK r : r = Swapped(q, k + 2, ascending)
      OBVIOUS
    <3>6. F[k + 2] = r
      BY <2>1, <3>5
    <3>7. Compared(P, q, k + 2, ascending, r)
      BY <3>4, <3>5, SwappedFacts
    <3>8. Rearranged(P, s, r)
      BY <3>4, <3>7, SameTrans DEF Compared, Rearranged
    <3>9. Sweeping(q, m, (k + 2) - 1, ascending)
      BY <3>3, <3>5
    <3>10. Sweeping(r, m, k + 2, ascending)
      BY <3>4, <3>5, <3>9, OneComparison
    <3>11. QED
      BY <3>6, <3>8, <3>10
  <2>5. T = Nat
    <3> HIDE DEF T
    <3>1. T \subseteq Nat
      BY DEF T
    <3>2. QED
      BY <2>3, <2>4, <3>1, Rising
  <2>6. n - 1 \in T /\ (n - 1) + 1 = n
    <3> HIDE DEF T
    <3>1. n - 1 \in Nat /\ (n - 1) + 1 = n
      BY <1>1, <1>3
    <3>2. QED
      BY <2>5, <3>1
  <2>7. Good(F[n], n)
    BY <1>1, <2>6
  <2>8. Sweep(s, ascending) = F[n]
    BY <1>1, <1>3, SweepIsFcn
  <2> PICK q : q = F[n]
    OBVIOUS
  <2>9. Rearranged(P, s, q) /\ Sweeping(q, m, n, ascending) /\ Len(q) = n
    BY <1>1, <2>7 DEF Rearranged
  <2>10. Settled(q, m + 1, ascending)
    <3>1. ASSUME NEW i \in 1 .. n, NEW j \in 1 .. n, i < j, j > n - (m + 1)
          PROVE  j > n - m \/ (j = n - m /\ n >= n - m)
      BY <1>1, <3>1
    <3>2. QED
      BY <2>9, <3>1 DEF Sweeping, Settled
  <2>11. QED
    BY <2>8, <2>9, <2>10
<1>4. QED
  BY <1>2, <1>3

LEMMA SortSorts ==
  ASSUME NEW P, P \subseteq Int, NEW s \in Seq(P), NEW ascending \in BOOLEAN
  PROVE  /\ Rearranged(P, s, BubbleSort(s, ascending))
         /\ \A i, j \in 1 .. Len(s) :
              i < j => Le(BubbleSort(s, ascending)[i], BubbleSort(s, ascending)[j], ascending)
<1> PICK n : n = Len(s)
  OBVIOUS
<1>1. n = Len(s) /\ n \in Nat
  OBVIOUS
<1> PICK F : F = SortFcn(s, ascending)
  OBVIOUS
<1>2. \A k \in 0 .. n : F[k] = IF k = 0 THEN s ELSE Sweep(F[k - 1], ascending)
  BY <1>1, SortFcnRec
<1> DEFINE Good(q, k) == Rearranged(P, s, q) /\ Settled(q, k, ascending)
           T == {k \in Nat : k <= n => Good(F[k], k)}
<1>3. 0 \in T
  <2>1. F[0] = s
    BY <1>1, <1>2
  <2>2. \A j \in 1 .. n : ~(j > n - 0)
    BY <1>1
  <2>3. Settled(s, 0, ascending)
    BY <1>1, <2>2 DEF Settled
  <2>4. QED
    BY <2>1, <2>3, SameRefl DEF Rearranged
<1>4. ASSUME NEW k \in T PROVE k + 1 \in T
  <2>1. k \in Nat
    OBVIOUS
  <2>2. SUFFICES ASSUME k + 1 <= n PROVE Good(F[k + 1], k + 1)
    BY <2>1
  <2> PICK q : q = F[k]
    OBVIOUS
  <2>3. Good(q, k)
    BY <1>1, <2>1, <2>2
  <2>4. F[k + 1] = Sweep(q, ascending)
    <3>1. k + 1 \in 0 .. n /\ k + 1 # 0 /\ (k + 1) - 1 = k
      BY <1>1, <2>1, <2>2
    <3>2. QED
      BY <1>2, <3>1
  <2>5. q \in Seq(P) /\ Len(q) = n /\ SameItems(q, s) /\ Settled(q, k, ascending)
    BY <1>1, <2>3 DEF Rearranged
  <2>6. /\ Rearranged(P, q, Sweep(q, ascending))
        /\ Settled(Sweep(q, ascending), k + 1, ascending)
    BY <2>1, <2>5, OneSweep
  <2>7. Rearranged(P, s, Sweep(q, ascending))
    BY <1>1, <2>5, <2>6, SameTrans DEF Rearranged
  <2>8. QED
    BY <2>4, <2>6, <2>7
<1>5. T = Nat
  <2> HIDE DEF T
  <2>1. T \subseteq Nat
    BY DEF T
  <2>2. QED
    BY <1>3, <1>4, <2>1, Rising
<1>6. Good(F[n], n)
  BY <1>1, <1>5
<1>7. BubbleSort(s, ascending) = F[n]
  BY <1>1, SortIsFcn
<1> PICK q : q = F[n]
  OBVIOUS
<1>8. Rearranged(P, s, q) /\ Settled(q, n, ascending) /\ Len(q) = n
  BY <1>1, <1>6 DEF Rearranged
<1>9. \A i, j \in 1 .. n : i < j => Le(q[i], q[j], ascending)
  <2>1. \A j \in 1 .. n : j > n - n
    BY <1>1
  <2>2. QED
    BY <1>8, <2>1 DEF Settled
<1>10. QED
  BY <1>1, <1>7, <1>8, <1>9

-----------------------------------------------------------------------------
(* The calls that change payloads only, or no node at all.                  *)

LEMMA PositionIs ==
  ASSUME NEW c, \A j, k \in 1 .. Len(c) : c[j] = c[k] => j = k, NEW k \in 1 .. Len(c)
  PROVE  PositionOf(c[k], c) = k
<1>1. \E j \in 1 .. Len(c) : c[j] = c[k]
  OBVIOUS
<1>2. PositionOf(c[k], c) \in 1 .. Len(c) /\ c[PositionOf(c[k], c)] = c[k]
  BY <1>1 DEF PositionOf
<1>3. QED
  BY <1>2

LEMMA ItemsAre ==
  ASSUME Types, NEW c, Chain(c)
  PROVE  /\ Items(c) \in Seq(Payloads) /\ Len(Items(c)) = Len(c)
         /\ \A k \in 1 .. Len(c) : Items(c)[k] = node[c[k]].payload
<1>1. Len(c) \in Nat
  BY ChainFacts
<1>2. \A k \in 1 .. Len(c) : node[c[k]].payload \in Payloads
  BY DEF Chain
<1>3. Items(c) = [k \in 1 .. Len(c) |-> node[c[k]].payload]
  BY DEF Items
<1>4. Items(c) \in [1 .. Len(c) -> Payloads]
  BY <1>2, <1>3
<1>5. QED
  BY <1>1, <1>3, <1>4, FcnIsSeq

SortedBy(c, s) ==
  /\ node' \in [Nodes -> Cells]
  /\ \A k \in 1 .. Len(c) : node'[c[k]] = [node[c[k]] EXCEPT !.payload = s[k]]

LEMMA SortKeepsChain ==
  ASSUME Types, NEW c, Chain(c), SortLinkedList
  PROVE  /\ Chain(c)'
         /\ \E ascending \in BOOLEAN : SortedBy(c, BubbleSort(Items(c), ascending))
<1>1. FromHead = c
  BY FromHeadIs
<1> PICK items : items = Items(c)
  OBVIOUS
<1>2. PICK ascending \in BOOLEAN :
        node' = [n \in Nodes |->
                   IF n \in Range(c)
                   THEN [node[n] EXCEPT !.payload = BubbleSort(items, ascending)[PositionOf(n, c)]]
                   ELSE node[n]]
  BY <1>1 DEF SortLinkedList
<1> PICK s : s = BubbleSort(items, ascending)
  OBVIOUS
<1>3. items \in Seq(Payloads) /\ Len(items) = Len(c) /\ Payloads \subseteq Int
  BY ItemsAre, Constants
<1>4. s \in Seq(Payloads) /\ Len(s) = Len(c)
  BY <1>3, SortSorts DEF Rearranged
<1>5. /\ Len(c) \in Nat /\ node \in [Nodes -> Cells]
      /\ \A k \in 1 .. Len(c) :
           /\ c[k] \in Nodes /\ node[c[k]] \in Cells
           /\ node[c[k]].next = At(c, k + 1) /\ node[c[k]].prev = At(c, k - 1)
      /\ \A j, k \in 1 .. Len(c) : c[j] = c[k] => j = k
  BY RemovedBase
<1>6. \A n : n \in Range(c) <=> \E k \in 1 .. Len(c) : n = c[k]
  <2>1. DOMAIN c = 1 .. Len(c)
    BY DEF Chain
  <2>2. QED
    BY <2>1 DEF Range
<1>7. \A k \in 1 .. Len(c) : s[k] \in Payloads
  BY <1>4
<1>8. \A k \in 1 .. Len(c) : PositionOf(c[k], c) = k
  BY <1>5, PositionIs
<1>9. ASSUME NEW k \in 1 .. Len(c)
      PROVE  node'[c[k]] = [node[c[k]] EXCEPT !.payload = s[k]]
  BY <1>2, <1>5, <1>6, <1>8
<1>10. ASSUME NEW n \in Nodes PROVE node'[n] \in Cells
  <2>1. CASE n \in Range(c)
    <3>1. PICK k \in 1 .. Len(c) : n = c[k]
      BY <1>6, <2>1
    <3>2. node'[n] = [node[n] EXCEPT !.payload = s[k]] /\ node[n] \in Cells /\ s[k] \in Payloads
      BY <1>5, <1>7, <1>9, <3>1
    <3>3. QED
      BY <3>2 DEF Cells
  <2>2. CASE n \notin Range(c)
    <3>1. node'[n] = node[n]
      BY <1>2, <2>2
    <3>2. QED
      BY <1>5, <3>1
  <2>3. QED
    BY <2>1, <2>2
<1>11. node' \in [Nodes -> Cells]
  <2>1. \E f : node' = [n \in Nodes |-> f[n]]
    <3>1. node' = [n \in Nodes |-> node'[n]]
      BY <1>2
    <3>2. QED
      BY <3>1
  <2>2. QED
    BY <1>10, <2>1
<1>12. SortedBy(c, s)
  BY <1>9, <1>11 DEF SortedBy
<1>13. \A k \in 1 .. Len(c) :
         /\ node'[c[k]].next = node[c[k]].next /\ node'[c[k]].prev = node[c[k]].prev
         /\ node'[c[k]].payload \in Payloads
  BY <1>5, <1>7, <1>9 DEF Cells
<1>14. UNCHANGED <<allocated, head, tail, num_elements>>
  BY DEF SortLinkedList
<1>15. Chain(c)'
  BY <1>13, <1>14 DEF Chain
<1>16. QED
  BY <1>12, <1>15

LEMMA FreeEmpties ==
  ASSUME Types, NEW c, Chain(c), FreeLinkedList
  PROVE  Chain(<<>>)' /\ node' \in [Nodes -> Cells] /\ allocated' = {}
<1>1. FromHead = c
  BY FromHeadIs
<1>2. Range(c) = allocated
  <2>1. DOMAIN c = 1 .. Len(c) /\ allocated = In(c)
    BY DEF Chain
  <2>2. QED
    BY <2>1 DEF Range, In
<1>3. /\ allocated' = {} /\ head' = NULL /\ tail' = NULL /\ num_elements' = 0
      /\ node' = [n \in Nodes |-> IF n \in allocated THEN Blank ELSE node[n]]
  BY <1>1, <1>2 DEF FreeLinkedList
<1>4. node' \in [Nodes -> Cells]
  BY <1>3, BlankIsCell DEF Types
<1>5. Chain(<<>>)'
  <2>1. Len(<<>>) = 0 /\ 1 .. Len(<<>>) = {} /\ <<>> \in Seq(Nodes)
    OBVIOUS
  <2>2. In(<<>>) = {}
    BY <2>1 DEF In
  <2>3. At(<<>>, 1) = NULL /\ At(<<>>, 0) = NULL
    BY <2>1 DEF At
  <2>4. QED
    BY <1>3, <2>1, <2>2, <2>3 DEF Chain
<1>6. QED
  BY <1>3, <1>4, <1>5

LEMMA SameChain ==
  ASSUME Types, NEW c, Chain(c), UNCHANGED list
  PROVE  Chain(c)' /\ node' \in [Nodes -> Cells] /\ allocated' = allocated
BY DEF list, Chain, Types

-----------------------------------------------------------------------------
(* Every call keeps the invariant.                                          *)

Results == [ok : BOOLEAN, payload : Payloads \cup {Nothing}]

LEMMA ReturnsResult ==
  ASSUME NEW ok \in BOOLEAN, NEW p \in Payloads \cup {Nothing}, Returns(ok, p)
  PROVE  ret' \in Results
BY DEF Returns, Results

LEMMA AddKeeps ==
  ASSUME Types, NEW c, Chain(c), NEW a, NEW n, NEW p, Adds(c, a, n, p),
         iter' = iter, ret' \in Results
  PROVE  ListInv'
<1>1. Chain(Inserted(c, a, n))'
  BY AddsChain
<1>2. node' \in [Nodes -> Cells] /\ allocated' = allocated \cup {n}
  BY DEF Adds
<1>3. Types'
  BY <1>2 DEF Types, Results
<1>4. QED
  BY <1>1, <1>3 DEF ListInv

LEMMA DropKeeps ==
  ASSUME Types, NEW c, Chain(c), NEW a, Drops(c, a),
         iter' \in (allocated \ {c[a]}) \cup {NULL, NoIterator}, ret' \in Results
  PROVE  ListInv'
<1>1. Chain(Removed(c, a))'
  BY DropsChain
<1>2. node' \in [Nodes -> Cells] /\ allocated' = allocated \ {c[a]}
  BY DEF Drops
<1>3. Types'
  BY <1>2 DEF Types, Results
<1>4. QED
  BY <1>1, <1>3 DEF ListInv

LEMMA StillKeeps ==
  ASSUME Types, NEW c, Chain(c), UNCHANGED list,
         iter' \in allocated \cup {NULL, NoIterator}, ret' \in Results
  PROVE  ListInv'
<1>1. Chain(c)' /\ node' \in [Nodes -> Cells] /\ allocated' = allocated
  BY SameChain
<1>2. Types'
  BY <1>1 DEF Types, Results
<1>3. QED
  BY <1>1, <1>2 DEF ListInv

LEMMA AtOther ==
  ASSUME NEW c, Chain(c), NEW a \in 1 .. Len(c), NEW j \in Int, j # a
  PROVE  At(c, j) \in (allocated \ {c[a]}) \cup {NULL}
<1>1. CASE j \in 1 .. Len(c)
  <2>1. c[j] \in allocated /\ c[j] # c[a]
    BY <1>1, ChainFacts DEF Chain
  <2>2. QED
    BY <1>1, <2>1 DEF At
<1>2. CASE j \notin 1 .. Len(c)
  BY <1>2 DEF At
<1>3. QED
  BY <1>1, <1>2

LEMMA NoMemoryKeeps ==
  ASSUME Types, NEW c, Chain(c), NoMemory
  PROVE  ListInv'
<1>1. ret' \in Results /\ UNCHANGED list /\ iter' = iter
  BY ReturnsResult DEF NoMemory
<1>2. QED
  BY <1>1, StillKeeps DEF Types

LEMMA CallsKeep ==
  ASSUME Types, NEW c, Chain(c), Add \/ Take \/ SortLinkedList \/ FreeLinkedList
  PROVE  ListInv'
<1>1. CASE Add
  <2>1. iter' = iter
    BY <1>1 DEF Add
  <2>2. ASSUME NEW n \in Nodes \ allocated, NEW p \in Payloads, PushLinkedList(n, p)
        PROVE  ListInv'
    <3>1. Adds(c, 1, n, p)
      BY <2>2, PushAdds
    <3>2. ret' \in Results
      BY <2>2, ReturnsResult DEF PushLinkedList
    <3>3. QED
      BY <2>1, <3>1, <3>2, AddKeeps
  <2>3. ASSUME NEW n \in Nodes \ allocated, NEW p \in Payloads, AppendLinkedList(n, p)
        PROVE  ListInv'
    <3>1. Adds(c, Len(c) + 1, n, p)
      BY <2>3, AppendAdds
    <3>2. ret' \in Results
      BY <2>3, ReturnsResult DEF AppendLinkedList
    <3>3. QED
      BY <2>1, <3>1, <3>2, AddKeeps
  <2>4. QED
    BY <1>1, <2>2, <2>3, NoMemoryKeeps DEF Add
<1>2. CASE Take
  <2>1. iter' = NoIterator
    BY <1>2 DEF Take
  <2>2. /\ Len(c) \in Nat /\ num_elements = Len(c) /\ head = At(c, 1) /\ tail = At(c, Len(c))
        /\ \A k \in 1 .. Len(c) : node[c[k]].payload \in Payloads
    BY RemovedBase DEF Chain
  <2>3. CASE PopLinkedList /\ Returns(TRUE, node[head].payload)
    <3>1. Drops(c, 1)
      BY <2>3, PopDrops
    <3>2. 1 \in 1 .. Len(c)
      BY <3>1 DEF Drops
    <3>3. node[head].payload \in Payloads
      BY <2>2, <3>2 DEF At
    <3>4. ret' \in Results
      BY <2>3, <3>3, ReturnsResult
    <3>5. QED
      BY <2>1, <3>1, <3>4, DropKeeps
  <2>4. CASE SliceLinkedList /\ Returns(TRUE, node[tail].payload)
    <3>1. Drops(c, Len(c))
      BY <2>4, SliceDrops
    <3>2. Len(c) \in 1 .. Len(c)
      BY <3>1 DEF Drops
    <3>3. node[tail].payload \in Payloads
      BY <2>2, <3>2 DEF At
    <3>4. ret' \in Results
      BY <2>4, <3>3, ReturnsResult
    <3>5. QED
      BY <2>1, <3>1, <3>4, DropKeeps
  <2>5. CASE num_elements = 0 /\ Returns(FALSE, Nothing) /\ UNCHANGED list
    <3>1. ret' \in Results
      BY <2>5, ReturnsResult
    <3>2. QED
      BY <2>1, <2>5, <3>1, StillKeeps
  <2>6. QED
    BY <1>2, <2>3, <2>4, <2>5 DEF Take
<1>3. CASE SortLinkedList
  <2>1. Chain(c)' /\ node' \in [Nodes -> Cells]
    BY <1>3, SortKeepsChain DEF SortedBy
  <2>2. ret' \in Results /\ iter' = iter /\ allocated' = allocated
    BY <1>3, ReturnsResult DEF SortLinkedList
  <2>3. Types'
    BY <2>1, <2>2 DEF Types, Results
  <2>4. QED
    BY <2>1, <2>3 DEF ListInv
<1>4. CASE FreeLinkedList
  <2>1. Chain(<<>>)' /\ node' \in [Nodes -> Cells] /\ allocated' = {}
    BY <1>4, FreeEmpties
  <2>2. ret' \in Results /\ iter' = NoIterator
    BY <1>4, ReturnsResult DEF FreeLinkedList
  <2>3. Types'
    BY <2>1, <2>2 DEF Types, Results
  <2>4. QED
    BY <2>1, <2>3 DEF ListInv
<1>5. QED
  BY <1>1, <1>2, <1>3, <1>4

(* The node a usable iterator is at. *)
LEMMA IteratorPlace ==
  ASSUME Types, NEW c, Chain(c), Usable
  PROVE  \E a \in 1 .. Len(c) : iter = c[a]
<1>1. iter \in allocated
  BY Constants DEF Types, Usable
<1>2. QED
  BY <1>1, ChainFacts

LEMMA IteratorKeeps ==
  ASSUME Types, NEW c, Chain(c),
         LLMakeIterator \/ LLIteratorFree \/ LLIteratorNext \/ LLIteratorPrev
         \/ LLIteratorGetPayload \/ LLIteratorDelete \/ LLIteratorInsertBefore
  PROVE  ListInv'
<1>1. /\ Len(c) \in Nat /\ num_elements = Len(c) /\ head = At(c, 1) /\ tail = At(c, Len(c))
      /\ \A k \in 1 .. Len(c) :
           /\ node[c[k]].payload \in Payloads
           /\ node[c[k]].next = At(c, k + 1) /\ node[c[k]].prev = At(c, k - 1)
  BY RemovedBase DEF Chain
<1>2. \A j \in Int : At(c, j) \in allocated \cup {NULL}
  BY ChainFacts
<1>3. CASE LLMakeIterator
  <2>1. UNCHANGED list /\ ret' \in Results
    BY <1>3, ReturnsResult DEF LLMakeIterator
  <2>2. head \in allocated \cup {NULL} /\ tail \in allocated \cup {NULL}
    BY <1>1, <1>2
  <2>3. iter' \in allocated \cup {NULL, NoIterator}
    BY <1>3, <2>2 DEF LLMakeIterator, Types
  <2>4. QED
    BY <2>1, <2>3, StillKeeps
<1>4. CASE LLIteratorFree
  <2>1. UNCHANGED list /\ ret' \in Results /\ iter' = NoIterator
    BY <1>4, ReturnsResult DEF LLIteratorFree
  <2>2. QED
    BY <2>1, StillKeeps
<1>5. ASSUME NEW to \in allocated \cup {NULL}, LLIteratorMove(to) PROVE ListInv'
  <2>1. UNCHANGED list /\ ret' \in Results
    BY <1>5, ReturnsResult DEF LLIteratorMove
  <2>2. iter' \in allocated \cup {NULL, NoIterator}
    BY <1>5 DEF LLIteratorMove, Types
  <2>3. QED
    BY <2>1, <2>2, StillKeeps
<1>6. CASE LLIteratorNext
  <2>1. PICK a \in 1 .. Len(c) : iter = c[a]
    BY <1>6, IteratorPlace DEF LLIteratorNext
  <2>2. node[iter].next \in allocated \cup {NULL}
    BY <1>1, <1>2, <2>1
  <2>3. QED
    BY <1>5, <1>6, <2>2 DEF LLIteratorNext
<1>7. CASE LLIteratorPrev
  <2>1. PICK a \in 1 .. Len(c) : iter = c[a]
    BY <1>7, IteratorPlace DEF LLIteratorPrev
  <2>2. node[iter].prev \in allocated \cup {NULL}
    BY <1>1, <1>2, <2>1
  <2>3. QED
    BY <1>5, <1>7, <2>2 DEF LLIteratorPrev
<1>8. CASE LLIteratorGetPayload
  <2>1. PICK a \in 1 .. Len(c) : iter = c[a]
    BY <1>8, IteratorPlace DEF LLIteratorGetPayload
  <2>2. node[iter].payload \in Payloads
    BY <1>1, <2>1
  <2>3. UNCHANGED list /\ iter' = iter /\ ret' \in Results
    BY <1>8, <2>2, ReturnsResult DEF LLIteratorGetPayload
  <2>4. QED
    BY <2>3, StillKeeps DEF Types
<1>9. CASE LLIteratorDelete
  <2>1. PICK a \in 1 .. Len(c) : iter = c[a]
    BY <1>9, IteratorPlace DEF LLIteratorDelete
  <2>2. /\ Drops(c, a) /\ iter' = IF a = Len(c) THEN At(c, a - 1) ELSE At(c, a + 1)
        /\ ret' = [ok |-> Len(c) # 1, payload |-> node[c[a]].payload]
    BY <1>9, <2>1, DeleteDrops
  <2>3. a - 1 \in Int /\ a + 1 \in Int /\ a - 1 # a /\ a + 1 # a
    OBVIOUS
  <2>4. iter' \in (allocated \ {c[a]}) \cup {NULL, NoIterator}
    BY <2>2, <2>3, AtOther
  <2>5. ret' \in Results
    <3>1. (Len(c) # 1) \in BOOLEAN /\ node[c[a]].payload \in Payloads
      BY <1>1
    <3>2. QED
      BY <2>2, <3>1 DEF Results
  <2>6. QED
    BY <2>2, <2>4, <2>5, DropKeeps
<1>10. CASE LLIteratorInsertBefore
  <2>1. iter' = iter
    BY <1>10 DEF LLIteratorInsertBefore
  <2>2. CASE NoMemory
    BY <2>2, NoMemoryKeeps
  <2>3. ASSUME NEW n \in Nodes \ allocated, NEW p \in Payloads,
               IF iter = head THEN PushLinkedList(n, p) ELSE Splice(n, p)
        PROVE  ListInv'
    <3>1. PICK a \in 1 .. Len(c) : iter = c[a]
      BY <1>10, IteratorPlace DEF LLIteratorInsertBefore
    <3>2. CASE iter = head
      <4>1. PushLinkedList(n, p)
        BY <2>3, <3>2
      <4>2. Adds(c, 1, n, p)
        BY <4>1, PushAdds
      <4>3. ret' \in Results
        BY <4>1, ReturnsResult DEF PushLinkedList
      <4>4. QED
        BY <2>1, <4>2, <4>3, AddKeeps
    <3>3. CASE iter # head
      <4>1. Splice(n, p)
        BY <2>3, <3>3
      <4>2. a # 1
        BY <1>1, <3>1, <3>3 DEF At
      <4>3. Adds(c, a, n, p)
        BY <3>1, <4>1, <4>2, SpliceAdds
      <4>4. ret' \in Results
        BY <4>1, ReturnsResult DEF Splice
      <4>5. QED
        BY <2>1, <4>3, <4>4, AddKeeps
    <3>4. QED
      BY <3>2, <3>3
  <2>4. QED
    BY <1>10, <2>2, <2>3 DEF LLIteratorInsertBefore
<1>11. QED
  BY <1>3, <1>4, <1>6, <1>7, <1>8, <1>9, <1>10

LEMMA InitListInv ==
  ASSUME Init
  PROVE  ListInv
<1>1. Chain(<<>>)
  <2>1. Len(<<>>) = 0 /\ 1 .. Len(<<>>) = {} /\ <<>> \in Seq(Nodes)
    OBVIOUS
  <2>2. In(<<>>) = {}
    BY <2>1 DEF In
  <2>3. At(<<>>, 1) = NULL /\ At(<<>>, 0) = NULL
    BY <2>1 DEF At
  <2>4. QED
    BY <2>1, <2>2, <2>3 DEF Chain, Init
<1>2. Types
  BY BlankIsCell DEF Types, Init
<1>3. QED
  BY <1>1, <1>2 DEF ListInv

LEMMA NextListInv ==
  ASSUME ListInv, [Next]_vars
  PROVE  ListInv'
<1>1. Types
  BY DEF ListInv
<1>2. PICK c : Chain(c)
  BY DEF ListInv
<1>3. CASE UNCHANGED vars
  <2>1. UNCHANGED list /\ iter' = iter /\ ret' = ret
    BY <1>3 DEF vars
  <2>2. QED
    BY <1>1, <1>2, <2>1, StillKeeps DEF Types, Results
<1>4. CASE Next
  BY <1>1, <1>2, <1>4, CallsKeep, IteratorKeeps DEF Next
<1>5. QED
  BY <1>3, <1>4

(* Whatever the calls and whichever cells malloc hands out, the ends of the *)
(* list and the iterator never dangle.                                      *)
THEOREM ListTypeCorrect == Spec => []TypeOK
<1>1. ListInv => TypeOK
  BY ListInvImplies
<1>2. QED
  BY InitListInv, NextListInv, <1>1, PTL DEF Spec

(* The links, the memory in use and num_elements agree after every sequence *)
(* of calls at either end, through the iterator, or to SortLinkedList.      *)
THEOREM LinksWhole == Spec => []LinksOK
<1>1. ListInv => LinksOK
  BY ListInvImplies
<1>2. QED
  BY InitListInv, NextListInv, <1>1, PTL DEF Spec

-----------------------------------------------------------------------------
(* The operations on sequences in which ListSequence is written, as         *)
(* insertions and removals.                                                 *)

LEMMA SameSeq ==
  ASSUME NEW S, NEW s \in Seq(S), NEW t \in Seq(S), Len(s) = Len(t),
         \A k \in 1 .. Len(s) : s[k] = t[k]
  PROVE  s = t
OBVIOUS

LEMMA Parts ==
  ASSUME NEW S, NEW s \in Seq(S), NEW a \in 1 .. Len(s) + 1, NEW b \in 0 .. Len(s), a <= b + 1
  PROVE  /\ SubSeq(s, a, b) \in Seq(S) /\ Len(SubSeq(s, a, b)) = b - a + 1
         /\ \A k \in 1 .. b - a + 1 : SubSeq(s, a, b)[k] = s[a + k - 1]
<1>1. Len(s) \in Nat /\ a \in Nat /\ b \in Nat /\ b - a + 1 \in Nat
  OBVIOUS
<1>2. \A i \in a .. b : s[i] \in S
  OBVIOUS
<1>3. SubSeq(s, a, b) \in Seq(S)
  BY <1>1, <1>2
<1>4. Len(SubSeq(s, a, b)) = b - a + 1
  BY <1>1
<1>5. \A k \in 1 .. b - a + 1 : SubSeq(s, a, b)[k] = s[a + k - 1]
  BY <1>1
<1>6. QED
  BY <1>3, <1>4, <1>5

LEMMA Joined ==
  ASSUME NEW S, NEW s \in Seq(S), NEW t \in Seq(S)
  PROVE  /\ s \o t \in Seq(S) /\ Len(s \o t) = Len(s) + Len(t)
         /\ \A k \in 1 .. Len(s) + Len(t) :
              (s \o t)[k] = IF k <= Len(s) THEN s[k] ELSE t[k - Len(s)]
OBVIOUS

LEMMA InsertedInside ==
  ASSUME NEW S, NEW s \in Seq(S), NEW a \in 1 .. Len(s) + 1, NEW p \in S
  PROVE  SubSeq(s, 1, a - 1) \o <<p>> \o SubSeq(s, a, Len(s)) = Inserted(s, a, p)
<1>1. Len(s) \in Nat /\ a \in Int /\ a - 1 \in 0 .. Len(s) /\ Len(s) \in 0 .. Len(s) /\ 1 \in 1 .. Len(s) + 1
  OBVIOUS
<1>0. PICK x, y, z, u, d :
      /\ x = SubSeq(s, 1, a - 1) /\ y = SubSeq(s, a, Len(s))
      /\ z = x \o <<p>> /\ u = z \o y /\ d = Inserted(s, a, p)
  OBVIOUS
<1>2. x \in Seq(S) /\ Len(x) = a - 1 /\ \A k \in 1 .. a - 1 : x[k] = s[k]
  <2>1. x \in Seq(S) /\ Len(x) = (a - 1) - 1 + 1
        /\ \A k \in 1 .. (a - 1) - 1 + 1 : x[k] = s[1 + k - 1]
    BY <1>0, <1>1, Parts
  <2>2. QED
    BY <1>1, <2>1
<1>3. y \in Seq(S) /\ Len(y) = Len(s) - a + 1 /\ \A k \in 1 .. Len(s) - a + 1 : y[k] = s[a + k - 1]
  BY <1>0, <1>1, Parts
<1>4. <<p>> \in Seq(S) /\ Len(<<p>>) = 1 /\ <<p>>[1] = p
  OBVIOUS
<1>5. z \in Seq(S) /\ Len(z) = a /\ \A k \in 1 .. a : z[k] = IF k <= a - 1 THEN s[k] ELSE p
  <2>1. z \in Seq(S) /\ Len(z) = Len(x) + 1
        /\ \A k \in 1 .. Len(x) + 1 : z[k] = IF k <= Len(x) THEN x[k] ELSE <<p>>[k - Len(x)]
    BY <1>0, <1>2, <1>4, Joined
  <2>2. \A k \in 1 .. a : ~(k <= a - 1) => k - Len(x) = 1
    BY <1>1, <1>2
  <2>3. QED
    BY <1>1, <1>2, <1>4, <2>1, <2>2
<1>6. /\ u \in Seq(S) /\ Len(u) = Len(s) + 1
      /\ \A k \in 1 .. Len(s) + 1 : u[k] = IF k <= a THEN z[k] ELSE y[k - a]
  <2>1. u \in Seq(S) /\ Len(u) = Len(z) + Len(y)
        /\ \A k \in 1 .. Len(z) + Len(y) : u[k] = IF k <= Len(z) THEN z[k] ELSE y[k - Len(z)]
    <3>1. z \in Seq(S) /\ y \in Seq(S)
      BY <1>3, <1>5
    <3>2. u = z \o y
      BY <1>0
    <3>3. QED
      BY <3>1, <3>2, Joined
  <2>2. Len(z) = a /\ Len(y) = Len(s) - a + 1 /\ Len(z) + Len(y) = Len(s) + 1
    <3>1. Len(z) = a /\ Len(y) = Len(s) - a + 1
      BY <1>3, <1>5
    <3>2. QED
      BY <1>1, <3>1
  <2>3. QED
    BY <2>1, <2>2
<1>7. /\ d \in Seq(S) /\ Len(d) = Len(s) + 1
      /\ \A k \in 1 .. Len(s) + 1 :
           d[k] = IF k < a THEN s[k] ELSE IF k = a THEN p ELSE s[k - 1]
  <2>1. d \in Seq(S) /\ InsertedIs(s, a, p, d)
    BY <1>0, InsertedFacts
  <2>2. QED
    BY <2>1 DEF InsertedIs
<1>8. ASSUME NEW k \in 1 .. Len(s) + 1 PROVE u[k] = d[k]
  <2>1. CASE k <= a
    <3>1. k \in 1 .. a /\ (k <= a - 1 <=> k < a) /\ (~(k < a) => k = a)
      BY <1>1, <2>1
    <3>2. z[k] = IF k <= a - 1 THEN s[k] ELSE p
      BY <1>5, <3>1
    <3>3. u[k] = z[k]
      BY <1>6, <2>1
    <3>4. d[k] = IF k < a THEN s[k] ELSE IF k = a THEN p ELSE s[k - 1]
      BY <1>7
    <3>5. QED
      BY <3>1, <3>2, <3>3, <3>4
  <2>2. CASE ~(k <= a)
    <3>1. k - a \in 1 .. Len(s) - a + 1 /\ a + (k - a) - 1 = k - 1
      BY <1>1, <2>2
    <3>2. u[k] = s[k - 1]
      BY <1>3, <1>6, <2>2, <3>1
    <3>3. d[k] = IF k < a THEN s[k] ELSE IF k = a THEN p ELSE s[k - 1]
      BY <1>7
    <3>4. ~(k < a) /\ k # a
      BY <1>1, <2>2
    <3>5. QED
      BY <3>2, <3>3, <3>4
  <2>3. QED
    BY <2>1, <2>2
<1>9. u = d
  BY <1>6, <1>7, <1>8, SameSeq
<1>10. QED
  BY <1>0, <1>9

LEMMA InsertedAtEnds ==
  ASSUME NEW S, NEW s \in Seq(S), NEW p \in S
  PROVE  <<p>> \o s = Inserted(s, 1, p) /\ Append(s, p) = Inserted(s, Len(s) + 1, p)
<1>1. Len(s) \in Nat /\ 1 \in 1 .. Len(s) + 1 /\ Len(s) + 1 \in 1 .. Len(s) + 1
  OBVIOUS
<1> PICK d, e, u, v :
      /\ d = Inserted(s, 1, p) /\ e = Inserted(s, Len(s) + 1, p)
      /\ u = <<p>> \o s /\ v = Append(s, p)
  OBVIOUS
<1>2. /\ d \in Seq(S) /\ Len(d) = Len(s) + 1
      /\ \A k \in 1 .. Len(s) + 1 :
           d[k] = IF k < 1 THEN s[k] ELSE IF k = 1 THEN p ELSE s[k - 1]
  <2>1. d \in Seq(S) /\ InsertedIs(s, 1, p, d)
    BY <1>1, InsertedFacts
  <2>2. QED
    BY <2>1 DEF InsertedIs
<1>3. /\ e \in Seq(S) /\ Len(e) = Len(s) + 1
      /\ \A k \in 1 .. Len(s) + 1 :
           e[k] = IF k < Len(s) + 1 THEN s[k] ELSE IF k = Len(s) + 1 THEN p ELSE s[k - 1]
  <2>1. e \in Seq(S) /\ InsertedIs(s, Len(s) + 1, p, e)
    BY <1>1, InsertedFacts
  <2>2. QED
    BY <2>1 DEF InsertedIs
<1>4. /\ u \in Seq(S) /\ Len(u) = Len(s) + 1
      /\ \A k \in 1 .. Len(s) + 1 : u[k] = IF k = 1 THEN p ELSE s[k - 1]
  <2>1. <<p>> \in Seq(S) /\ Len(<<p>>) = 1 /\ <<p>>[1] = p
    OBVIOUS
  <2>2. u \in Seq(S) /\ Len(u) = 1 + Len(s)
        /\ \A k \in 1 .. 1 + Len(s) : u[k] = IF k <= 1 THEN <<p>>[k] ELSE s[k - 1]
    BY <2>1, Joined
  <2>3. \A k \in 1 .. Len(s) + 1 : k <= 1 <=> k = 1
    BY <1>1
  <2>4. QED
    BY <1>1, <2>1, <2>2, <2>3
<1>5. /\ v \in Seq(S) /\ Len(v) = Len(s) + 1
      /\ \A k \in 1 .. Len(s) + 1 : v[k] = IF k = Len(s) + 1 THEN p ELSE s[k]
  OBVIOUS
<1>6. u = d
  <2>1. \A k \in 1 .. Len(s) + 1 : u[k] = d[k]
    BY <1>1, <1>2, <1>4
  <2>2. QED
    BY <1>2, <1>4, <2>1, SameSeq
<1>7. v = e
  <2>1. \A k \in 1 .. Len(s) + 1 : v[k] = e[k]
    BY <1>1, <1>3, <1>5
  <2>2. QED
    BY <1>3, <1>5, <2>1, SameSeq
<1>8. QED
  BY <1>6, <1>7

LEMMA RemovedInside ==
  ASSUME NEW S, NEW s \in Seq(S), NEW a \in 1 .. Len(s)
  PROVE  SubSeq(s, 1, a - 1) \o SubSeq(s, a + 1, Len(s)) = Removed(s, a)
<1>1. /\ Len(s) \in Nat /\ a \in Int /\ a - 1 \in 0 .. Len(s) /\ Len(s) \in 0 .. Len(s)
      /\ 1 \in 1 .. Len(s) + 1 /\ a + 1 \in 1 .. Len(s) + 1
  OBVIOUS
<1>0. PICK x, y, u, d :
      /\ x = SubSeq(s, 1, a - 1) /\ y = SubSeq(s, a + 1, Len(s))
      /\ u = x \o y /\ d = Removed(s, a)
  OBVIOUS
<1>2. x \in Seq(S) /\ Len(x) = a - 1 /\ \A k \in 1 .. a - 1 : x[k] = s[k]
  <2>1. x \in Seq(S) /\ Len(x) = (a - 1) - 1 + 1
        /\ \A k \in 1 .. (a - 1) - 1 + 1 : x[k] = s[1 + k - 1]
    BY <1>0, <1>1, Parts
  <2>2. QED
    BY <1>1, <2>1
<1>3. y \in Seq(S) /\ Len(y) = Len(s) - a /\ \A k \in 1 .. Len(s) - a : y[k] = s[a + k]
  <2>1. y \in Seq(S) /\ Len(y) = Len(s) - (a + 1) + 1
        /\ \A k \in 1 .. Len(s) - (a + 1) + 1 : y[k] = s[(a + 1) + k - 1]
    BY <1>0, <1>1, Parts
  <2>2. QED
    BY <1>1, <2>1
<1>4. /\ u \in Seq(S) /\ Len(u) = Len(s) - 1
      /\ \A k \in 1 .. Len(s) - 1 : u[k] = IF k <= a - 1 THEN x[k] ELSE y[k - (a - 1)]
  <2>1. u \in Seq(S) /\ Len(u) = Len(x) + Len(y)
        /\ \A k \in 1 .. Len(x) + Len(y) : u[k] = IF k <= Len(x) THEN x[k] ELSE y[k - Len(x)]
    <3>1. x \in Seq(S) /\ y \in Seq(S)
      BY <1>2, <1>3
    <3>2. QED
      BY <1>0, <3>1, Joined
  <2>2. Len(x) = a - 1 /\ Len(y) = Len(s) - a /\ Len(x) + Len(y) = Len(s) - 1
    <3>1. Len(x) = a - 1 /\ Len(y) = Len(s) - a
      BY <1>2, <1>3
    <3>2. QED
      BY <1>1, <3>1
  <2>3. QED
    BY <2>1, <2>2
<1>5. /\ d \in Seq(S) /\ Len(d) = Len(s) - 1
      /\ \A k \in 1 .. Len(s) - 1 : d[k] = IF k < a THEN s[k] ELSE s[k + 1]
  BY <1>0, RemovedFacts
<1>6. ASSUME NEW k \in 1 .. Len(s) - 1 PROVE u[k] = d[k]
  <2>1. CASE k < a
    <3>1. k \in 1 .. a - 1 /\ k <= a - 1
      BY <1>1, <2>1
    <3>2. QED
      BY <1>2, <1>4, <1>5, <2>1, <3>1
  <2>2. CASE ~(k < a)
    <3>1. k - (a - 1) \in 1 .. Len(s) - a /\ a + (k - (a - 1)) = k + 1 /\ ~(k <= a - 1)
      BY <1>1, <2>2
    <3>2. QED
      BY <1>3, <1>4, <1>5, <2>2, <3>1
  <2>3. QED
    BY <2>1, <2>2
<1>7. u = d
  BY <1>4, <1>5, <1>6, SameSeq
<1>8. QED
  BY <1>0, <1>7

LEMMA RemovedAtEnds ==
  ASSUME NEW S, NEW s \in Seq(S), s # <<>>
  PROVE  Tail(s) = Removed(s, 1) /\ SubSeq(s, 1, Len(s) - 1) = Removed(s, Len(s))
<1>1. Len(s) \in Nat /\ 1 \in 1 .. Len(s) /\ Len(s) \in 1 .. Len(s) /\ Len(s) - 1 \in Nat
  OBVIOUS
<1> PICK d, e, u, v :
      /\ d = Removed(s, 1) /\ e = Removed(s, Len(s))
      /\ u = Tail(s) /\ v = SubSeq(s, 1, Len(s) - 1)
  OBVIOUS
<1>2. /\ d \in Seq(S) /\ Len(d) = Len(s) - 1
      /\ \A k \in 1 .. Len(s) - 1 : d[k] = IF k < 1 THEN s[k] ELSE s[k + 1]
  BY <1>1, RemovedFacts
<1>3. /\ e \in Seq(S) /\ Len(e) = Len(s) - 1
      /\ \A k \in 1 .. Len(s) - 1 : e[k] = IF k < Len(s) THEN s[k] ELSE s[k + 1]
  BY <1>1, RemovedFacts
<1>4. u \in Seq(S) /\ Len(u) = Len(s) - 1 /\ \A k \in 1 .. Len(s) - 1 : u[k] = s[k + 1]
  OBVIOUS
<1>5. v \in Seq(S) /\ Len(v) = Len(s) - 1 /\ \A k \in 1 .. Len(s) - 1 : v[k] = s[k]
  <2>1. Len(s) - 1 \in 0 .. Len(s) /\ 1 \in 1 .. Len(s) + 1 /\ 1 <= (Len(s) - 1) + 1
    BY <1>1
  <2>2. v \in Seq(S) /\ Len(v) = (Len(s) - 1) - 1 + 1
        /\ \A k \in 1 .. (Len(s) - 1) - 1 + 1 : v[k] = s[1 + k - 1]
    BY <2>1, Parts
  <2>3. QED
    BY <1>1, <2>2
<1>6. u = d
  <2>1. \A k \in 1 .. Len(s) - 1 : u[k] = d[k]
    BY <1>1, <1>2, <1>4
  <2>2. QED
    BY <1>2, <1>4, <2>1, SameSeq
<1>7. v = e
  <2>1. \A k \in 1 .. Len(s) - 1 : v[k] = e[k]
    BY <1>1, <1>3, <1>5
  <2>2. QED
    BY <1>3, <1>5, <2>1, SameSeq
<1>8. QED
  BY <1>6, <1>7

-----------------------------------------------------------------------------
(* The list as ListSequence sees it: its payloads and the position of the   *)
(* iterator.                                                                *)

LEMMA FromHeadNext ==
  ASSUME NEW d, Chain(d)'
  PROVE  FromHead' = d
<1> DEFINE link == [n \in Nodes |-> node'[n].next]
<1>1. /\ d \in Seq(Nodes) /\ head' = At(d, 1)
      /\ \A j, k \in 1 .. Len(d) : d[j] = d[k] => j = k
      /\ \A k \in 1 .. Len(d) : node'[d[k]].next = At(d, k + 1)
  BY DEF Chain
<1>2. Len(d) <= NumNodes /\ Len(d) \in Nat
  BY <1>1, ShortChain
<1>3. head' = IF d = <<>> THEN NULL ELSE d[1]
  BY <1>1, <1>2 DEF At
<1>4. ASSUME NEW k \in 1 .. Len(d)
      PROVE  link[d[k]] = IF k < Len(d) THEN d[k + 1] ELSE NULL
  <2>1. link[d[k]] = At(d, k + 1)
    BY <1>1
  <2>2. k < Len(d) <=> k + 1 \in 1 .. Len(d)
    BY <1>2
  <2>3. QED
    BY <2>1, <2>2 DEF At
<1> HIDE DEF link
<1>5. Walk(head', link) = d
  BY <1>1, <1>2, <1>3, <1>4, WalkIs
<1>6. QED
  BY <1>5 DEF FromHead, link

LEMMA ItemsNext ==
  ASSUME NEW d, Chain(d)'
  PROVE  Items(FromHead)' = [k \in 1 .. Len(d) |-> node'[d[k]].payload]
BY FromHeadNext DEF Items

LEMMA AddsItems ==
  ASSUME Types, NEW c, Chain(c), NEW a, NEW n, NEW p, Adds(c, a, n, p)
  PROVE  Items(FromHead)' = Inserted(Items(FromHead), a, p)
<1> PICK d, s : d = Inserted(c, a, n) /\ s = Items(FromHead)
  OBVIOUS
<1>1. /\ c \in Seq(Nodes) /\ Len(c) \in Nat /\ a \in 1 .. Len(c) + 1 /\ n \in Nodes
      /\ a \in Int
  BY ChainFacts DEF Adds, Chain
<1>2. Chain(d)'
  BY AddsChain
<1>3. Items(FromHead)' = [k \in 1 .. Len(d) |-> node'[d[k]].payload]
  BY <1>2, ItemsNext
<1>4. /\ Len(d) = Len(c) + 1
      /\ \A k \in 1 .. Len(c) + 1 :
           d[k] = IF k < a THEN c[k] ELSE IF k = a THEN n ELSE c[k - 1]
  <2>1. InsertedIs(c, a, n, d)
    BY <1>1, InsertedFacts
  <2>2. QED
    BY <2>1 DEF InsertedIs
<1>5. FromHead = c
  BY FromHeadIs
<1>6. Len(s) = Len(c) /\ \A k \in 1 .. Len(c) : s[k] = node[c[k]].payload
  BY <1>5, ItemsAre
<1>7. Inserted(s, a, p) =
        [k \in 1 .. Len(c) + 1 |-> IF k < a THEN s[k] ELSE IF k = a THEN p ELSE s[k - 1]]
  BY <1>6 DEF Inserted
<1>8. /\ node'[n].payload = p
      /\ \A k \in 1 .. Len(c) : node'[c[k]].payload = node[c[k]].payload
  BY DEF Adds
<1>9. ASSUME NEW k \in 1 .. Len(c) + 1
      PROVE  node'[d[k]].payload = IF k < a THEN s[k] ELSE IF k = a THEN p ELSE s[k - 1]
  <2>1. CASE k < a
    <3>1. k \in 1 .. Len(c) /\ d[k] = c[k]
      BY <1>1, <1>4, <2>1
    <3>2. QED
      BY <1>6, <1>8, <2>1, <3>1
  <2>2. CASE k = a
    <3>1. d[k] = n /\ ~(k < a)
      BY <1>1, <1>4, <2>2
    <3>2. QED
      BY <1>8, <2>2, <3>1
  <2>3. CASE k > a
    <3>1. k - 1 \in 1 .. Len(c) /\ ~(k < a) /\ k # a
      BY <1>1, <2>3
    <3>2. d[k] = c[k - 1]
      BY <1>4, <3>1
    <3>3. QED
      BY <1>6, <1>8, <3>1, <3>2
  <2>4. QED
    BY <1>1, <2>1, <2>2, <2>3
<1>10. QED
  BY <1>3, <1>4, <1>7, <1>9

LEMMA DropsItems ==
  ASSUME Types, NEW c, Chain(c), NEW a, Drops(c, a)
  PROVE  Items(FromHead)' = Removed(Items(FromHead), a)
<1> PICK d, s : d = Removed(c, a) /\ s = Items(FromHead)
  OBVIOUS
<1>1. c \in Seq(Nodes) /\ Len(c) \in Nat /\ a \in 1 .. Len(c) /\ a \in Int
  BY ChainFacts DEF Drops, Chain
<1>2. Chain(d)'
  BY DropsChain
<1>3. Items(FromHead)' = [k \in 1 .. Len(d) |-> node'[d[k]].payload]
  BY <1>2, ItemsNext
<1>4. /\ Len(d) = Len(c) - 1
      /\ \A k \in 1 .. Len(c) - 1 : d[k] = IF k < a THEN c[k] ELSE c[k + 1]
  BY <1>1, RemovedFacts
<1>5. FromHead = c
  BY FromHeadIs
<1>6. Len(s) = Len(c) /\ \A k \in 1 .. Len(c) : s[k] = node[c[k]].payload
  BY <1>5, ItemsAre
<1>7. Removed(s, a) = [k \in 1 .. Len(c) - 1 |-> IF k < a THEN s[k] ELSE s[k + 1]]
  BY <1>6 DEF Removed
<1>8. \A k \in 1 .. Len(c) : k # a => node'[c[k]].payload = node[c[k]].payload
  BY DEF Drops
<1>9. ASSUME NEW k \in 1 .. Len(c) - 1
      PROVE  node'[d[k]].payload = IF k < a THEN s[k] ELSE s[k + 1]
  <2>1. CASE k < a
    <3>1. k \in 1 .. Len(c) /\ d[k] = c[k] /\ k # a
      BY <1>1, <1>4, <2>1
    <3>2. QED
      BY <1>6, <1>8, <2>1, <3>1
  <2>2. CASE ~(k < a)
    <3>1. k + 1 \in 1 .. Len(c) /\ k + 1 # a
      BY <1>1, <2>2
    <3>2. d[k] = c[k + 1]
      BY <1>4, <2>2
    <3>3. QED
      BY <1>6, <1>8, <2>2, <3>1, <3>2
  <2>3. QED
    BY <2>1, <2>2
<1>10. QED
  BY <1>3, <1>4, <1>7, <1>9

LEMMA PositionNow ==
  ASSUME NEW c, Chain(c), NEW a \in 1 .. Len(c), iter = c[a]
  PROVE  Position = a
<1>1. FromHead = c
  BY FromHeadIs
<1>2. c[a] \in Nodes
  BY ChainFacts
<1>3. iter \notin {NoIterator, NULL}
  BY <1>2, Constants
<1>4. PositionOf(c[a], c) = a
  BY PositionIs DEF Chain
<1>5. QED
  BY <1>1, <1>3, <1>4 DEF Position

LEMMA PositionNext ==
  ASSUME NEW d, Chain(d)', NEW a \in 1 .. Len(d), iter' = d[a]
  PROVE  Position' = a
<1>1. FromHead' = d
  BY FromHeadNext
<1>2. d \in Seq(Nodes) /\ \A j, k \in 1 .. Len(d) : d[j] = d[k] => j = k
  BY DEF Chain
<1>3. d[a] \in Nodes
  BY <1>2
<1>4. iter' \notin {NoIterator, NULL}
  BY <1>3, Constants
<1>5. PositionOf(d[a], d) = a
  BY <1>2, PositionIs
<1>6. QED
  BY <1>1, <1>4, <1>5 DEF Position

LEMMA NoPosition ==
  /\ iter \in {NoIterator, NULL} => Position = iter
  /\ iter' \in {NoIterator, NULL} => Position' = iter'
BY DEF Position

LEMMA SameItemsNext ==
  ASSUME UNCHANGED list
  PROVE  /\ Items(FromHead)' = Items(FromHead)
         /\ iter' = iter => Position' = Position
<1>1. node' = node /\ head' = head
  BY DEF list
<1>2. FromHead' = FromHead
  BY <1>1 DEF FromHead
<1>3. QED
  BY <1>1, <1>2 DEF Items, Position

(* A call that adds leaves the iterator at its node. *)
LEMMA AddsPosition ==
  ASSUME Types, NEW c, Chain(c), NEW a, NEW n, NEW p, Adds(c, a, n, p),
         a \in 1 .. Len(c), iter = c[a], iter' = iter
  PROVE  Position = a /\ Position' = a + 1
<1> PICK d : d = Inserted(c, a, n)
  OBVIOUS
<1>1. c \in Seq(Nodes) /\ Len(c) \in Nat /\ n \in Nodes /\ a \in Int
  BY ChainFacts DEF Adds, Chain
<1>2. Chain(d)'
  BY AddsChain
<1>3. /\ Len(d) = Len(c) + 1
      /\ \A k \in 1 .. Len(c) + 1 :
           d[k] = IF k < a THEN c[k] ELSE IF k = a THEN n ELSE c[k - 1]
  <2>1. a \in 1 .. Len(c) + 1
    BY <1>1
  <2>2. InsertedIs(c, a, n, d)
    BY <1>1, <2>1, InsertedFacts
  <2>3. QED
    BY <2>2 DEF InsertedIs
<1>4. a + 1 \in 1 .. Len(d) /\ ~(a + 1 < a) /\ a + 1 # a /\ (a + 1) - 1 = a
  BY <1>1, <1>3
<1>5. d[a + 1] = c[a]
  BY <1>3, <1>4
<1>6. QED
  BY <1>2, <1>4, <1>5, PositionNow, PositionNext

(* After a deletion the iterator stands where the deleted node was, one     *)
(* before at the tail.                                                      *)
LEMMA DropsPosition ==
  ASSUME Types, NEW c, Chain(c), NEW a, Drops(c, a), iter = c[a],
         iter' = IF a = Len(c) THEN At(c, a - 1) ELSE At(c, a + 1)
  PROVE  Position = a /\ Position' = IF a = Len(c) THEN a - 1 ELSE a
<1> PICK d : d = Removed(c, a)
  OBVIOUS
<1>1. c \in Seq(Nodes) /\ Len(c) \in Nat /\ a \in 1 .. Len(c) /\ a \in Int
  BY ChainFacts DEF Drops, Chain
<1>2. Chain(d)'
  BY DropsChain
<1>3. /\ Len(d) = Len(c) - 1
      /\ \A k \in 1 .. Len(c) - 1 : d[k] = IF k < a THEN c[k] ELSE c[k + 1]
  BY <1>1, RemovedFacts
<1>4. Position = a
  BY <1>1, PositionNow
<1>5. CASE a = Len(c) /\ a = 1
  <2>1. iter' = NULL /\ a - 1 = NULL
    BY <1>5 DEF At, NULL
  <2>2. QED
    BY <1>4, <1>5, <2>1, NoPosition
<1>6. CASE a = Len(c) /\ a # 1
  <2>1. a - 1 \in 1 .. Len(c) /\ a - 1 \in 1 .. Len(d) /\ a - 1 < a
    BY <1>1, <1>3, <1>6
  <2>2. iter' = c[a - 1] /\ d[a - 1] = c[a - 1]
    BY <1>3, <1>6, <2>1 DEF At
  <2>3. QED
    BY <1>2, <1>4, <1>6, <2>1, <2>2, PositionNext
<1>7. CASE a # Len(c)
  <2>1. a + 1 \in 1 .. Len(c) /\ a \in 1 .. Len(d) /\ ~(a < a)
    BY <1>1, <1>3, <1>7
  <2>2. iter' = c[a + 1] /\ d[a] = c[a + 1]
    BY <1>3, <1>7, <2>1 DEF At
  <2>3. QED
    BY <1>2, <1>4, <1>7, <2>1, <2>2, PositionNext
<1>8. QED
  BY <1>5, <1>6, <1>7

-----------------------------------------------------------------------------
(* The list implements ListSequence: each call is the call of that name on  *)
(* the sequence of payloads, or fails and changes nothing.                  *)

Seen == Items(FromHead)

LEMMA SeenIs ==
  ASSUME Types, NEW c, Chain(c)
  PROVE  /\ Seen \in Seq(Payloads) /\ Len(Seen) = Len(c) /\ Len(c) \in Nat
         /\ \A k \in 1 .. Len(c) : Seen[k] = node[c[k]].payload
<1>1. FromHead = c /\ Len(c) \in Nat
  BY FromHeadIs, ChainFacts
<1>2. QED
  BY <1>1, ItemsAre DEF Seen

LEMMA FailStep ==
  ASSUME UNCHANGED list, iter' = iter, Returns(FALSE, Nothing)
  PROVE  Abstract!SNext
<1>1. Items(FromHead)' = Items(FromHead) /\ Position' = Position
  BY SameItemsNext
<1>2. Abstract!SFail
  BY <1>1 DEF Abstract!SFail, Abstract!Returns, Returns
<1>3. QED
  BY <1>2 DEF Abstract!SNext

LEMMA AddStep ==
  ASSUME Types, NEW c, Chain(c), Add
  PROVE  Abstract!SNext
<1>1. iter = NoIterator /\ iter' = NoIterator
  BY DEF Add
<1>2. Position = -1 /\ Position' = -1
  BY <1>1, NoPosition DEF NoIterator
<1>3. Seen \in Seq(Payloads) /\ Len(Seen) = Len(c)
  BY SeenIs
<1>4. ASSUME NEW n \in Nodes \ allocated, NEW p \in Payloads, PushLinkedList(n, p)
      PROVE  Abstract!SNext
  <2>1. Adds(c, 1, n, p)
    BY <1>4, PushAdds
  <2>2. Items(FromHead)' = Inserted(Seen, 1, p)
    BY <2>1, AddsItems DEF Seen
  <2>3. Items(FromHead)' = <<p>> \o Seen
    BY <1>3, <2>2, InsertedAtEnds
  <2>4. Returns(TRUE, Nothing)
    BY <1>4 DEF PushLinkedList
  <2>5. Abstract!SAdd
    BY <1>2, <2>3, <2>4 DEF Abstract!SAdd, Abstract!Returns, Returns, Seen
  <2>6. QED
    BY <2>5 DEF Abstract!SNext
<1>5. ASSUME NEW n \in Nodes \ allocated, NEW p \in Payloads, AppendLinkedList(n, p)
      PROVE  Abstract!SNext
  <2>1. Adds(c, Len(c) + 1, n, p)
    BY <1>5, AppendAdds
  <2>2. Items(FromHead)' = Inserted(Seen, Len(Seen) + 1, p)
    BY <1>3, <2>1, AddsItems DEF Seen
  <2>3. Items(FromHead)' = Append(Seen, p)
    BY <1>3, <2>2, InsertedAtEnds
  <2>4. Returns(TRUE, Nothing)
    BY <1>5 DEF AppendLinkedList
  <2>5. Abstract!SAdd
    BY <1>2, <2>3, <2>4 DEF Abstract!SAdd, Abstract!Returns, Returns, Seen
  <2>6. QED
    BY <2>5 DEF Abstract!SNext
<1>6. CASE NoMemory
  BY <1>1, <1>6, FailStep DEF NoMemory
<1>7. QED
  BY <1>4, <1>5, <1>6 DEF Add

LEMMA TakeStep ==
  ASSUME Types, NEW c, Chain(c), Take
  PROVE  Abstract!SNext
<1>1. iter = NoIterator /\ iter' = NoIterator
  BY DEF Take
<1>2. Position = -1 /\ Position' = -1
  BY <1>1, NoPosition DEF NoIterator
<1>3. /\ Seen \in Seq(Payloads) /\ Len(Seen) = Len(c) /\ Len(c) \in Nat
      /\ \A k \in 1 .. Len(c) : Seen[k] = node[c[k]].payload
  BY SeenIs
<1>4. head = At(c, 1) /\ tail = At(c, Len(c))
  BY DEF Chain
<1>5. CASE PopLinkedList /\ Returns(TRUE, node[head].payload)
  <2>1. Drops(c, 1)
    BY <1>5, PopDrops
  <2>2. 1 \in 1 .. Len(c)
    BY <2>1 DEF Drops
  <2>3. Seen # <<>> /\ Head(Seen) = node[head].payload
    BY <1>3, <1>4, <2>2 DEF At
  <2>4. Items(FromHead)' = Removed(Seen, 1)
    BY <2>1, DropsItems DEF Seen
  <2>5. Items(FromHead)' = Tail(Seen)
    BY <1>3, <2>3, <2>4, RemovedAtEnds
  <2>6. Returns(TRUE, Head(Seen))
    BY <1>5, <2>3
  <2>7. Abstract!STake
    BY <1>2, <2>3, <2>5, <2>6 DEF Abstract!STake, Abstract!Returns, Returns, Seen
  <2>8. QED
    BY <2>7 DEF Abstract!SNext
<1>6. CASE SliceLinkedList /\ Returns(TRUE, node[tail].payload)
  <2>1. Drops(c, Len(c))
    BY <1>6, SliceDrops
  <2>2. Len(c) \in 1 .. Len(c)
    BY <2>1 DEF Drops
  <2>3. Seen # <<>> /\ Seen[Len(Seen)] = node[tail].payload
    BY <1>3, <1>4, <2>2 DEF At
  <2>4. Items(FromHead)' = Removed(Seen, Len(Seen))
    BY <1>3, <2>1, DropsItems DEF Seen
  <2>5. Items(FromHead)' = SubSeq(Seen, 1, Len(Seen) - 1)
    BY <1>3, <2>3, <2>4, RemovedAtEnds
  <2>6. Returns(TRUE, Seen[Len(Seen)])
    BY <1>6, <2>3
  <2>7. Abstract!STake
    BY <1>2, <2>3, <2>5, <2>6
       DEF Abstract!STake, Abstract!Returns, Returns, Seen, Abstract!Front, Abstract!Last
  <2>8. QED
    BY <2>7 DEF Abstract!SNext
<1>7. CASE num_elements = 0 /\ Returns(FALSE, Nothing) /\ UNCHANGED list
  BY <1>1, <1>7, FailStep
<1>8. QED
  BY <1>5, <1>6, <1>7 DEF Take

LEMMA SortStepOK ==
  ASSUME Types, NEW c, Chain(c), SortLinkedList
  PROVE  Abstract!SNext
<1>1. Position = -1 /\ Position' = -1
  BY NoPosition DEF NoIterator, SortLinkedList
<1>2. Seen \in Seq(Payloads) /\ Len(Seen) = Len(c) /\ Seen = Items(c)
  BY SeenIs, FromHeadIs DEF Seen
<1>3. Chain(c)' /\ \E up \in BOOLEAN : SortedBy(c, BubbleSort(Seen, up))
  BY <1>2, SortKeepsChain
<1>4. PICK ascending \in BOOLEAN : SortedBy(c, BubbleSort(Seen, ascending))
  BY <1>3
<1> PICK s, n : s = BubbleSort(Seen, ascending) /\ n = Len(c)
  OBVIOUS
<1>5. /\ Rearranged(Payloads, Seen, s)
      /\ \A i, j \in 1 .. n : i < j => Le(s[i], s[j], ascending)
  BY <1>2, SortSorts, Constants
<1>6. s \in Seq(Payloads) /\ Len(s) = n /\ n \in Nat /\ SameItems(s, Seen)
  BY <1>2, <1>5 DEF Rearranged
<1>7. Items(FromHead)' = s
  <2>1. Items(FromHead)' = [k \in 1 .. n |-> node'[c[k]].payload]
    BY <1>3, ItemsNext
  <2>2. ASSUME NEW k \in 1 .. n PROVE node'[c[k]].payload = s[k]
    <3>1. node[c[k]] \in Cells
      BY RemovedBase
    <3>2. node'[c[k]] = [node[c[k]] EXCEPT !.payload = s[k]]
      BY <1>4 DEF SortedBy
    <3>3. QED
      BY <3>1, <3>2 DEF Cells
  <2>3. s = [k \in 1 .. n |-> s[k]]
    BY <1>6
  <2>4. QED
    BY <2>1, <2>2, <2>3
<1>8. \A p \in Payloads : Abstract!Occurrences(s, p) = Abstract!Occurrences(Seen, p)
  <2>1. ASSUME NEW p PROVE Abstract!Occurrences(s, p) = Abstract!Occurrences(Seen, p)
    <3>1. Times(s, p) = Times(Seen, p)
      BY <1>6 DEF SameItems
    <3>2. \A S : Abstract!Cardinality(S) = Cardinality(S)
      BY Zenon DEF Cardinality, Abstract!Cardinality
    <3>3. \A t : Abstract!Occurrences(t, p) = Times(t, p)
      BY <3>2, Zenon DEF Times, Places, Abstract!Occurrences
    <3>4. QED
      BY <3>1, <3>3
  <2>2. QED
    BY <2>1
<1>9. \/ \A i \in 1 .. Len(s) - 1 : s[i] <= s[i + 1]
      \/ \A i \in 1 .. Len(s) - 1 : s[i] >= s[i + 1]
  <2>1. \A i \in 1 .. Len(s) - 1 : Le(s[i], s[i + 1], ascending)
    BY <1>5, <1>6
  <2>2. QED
    BY <2>1 DEF Le
<1>10. Returns(TRUE, Nothing)
  BY DEF SortLinkedList
<1>11. Abstract!SSort
  BY <1>1, <1>2, <1>6, <1>7, <1>8, <1>9, <1>10
     DEF Abstract!SSort, Abstract!Returns, Returns, Seen
<1>12. QED
  BY <1>11 DEF Abstract!SNext

LEMMA FreeStep ==
  ASSUME Types, NEW c, Chain(c), FreeLinkedList
  PROVE  Abstract!SNext
<1>1. Position = -1 /\ Position' = -1
  BY NoPosition DEF NoIterator, FreeLinkedList
<1>2. Chain(<<>>)'
  BY FreeEmpties
<1>3. Items(FromHead)' = [k \in 1 .. Len(<<>>) |-> node'[<<>>[k]].payload]
  BY <1>2, ItemsNext
<1>4. Items(FromHead)' = <<>>
  BY <1>3
<1>5. Returns(TRUE, Nothing)
  BY DEF FreeLinkedList
<1>6. Abstract!SClear
  BY <1>1, <1>4, <1>5 DEF Abstract!SClear, Abstract!Returns, Returns
<1>7. QED
  BY <1>6 DEF Abstract!SNext

LEMMA IteratorStep ==
  ASSUME Types, NEW c, Chain(c), LLMakeIterator \/ LLIteratorFree
  PROVE  Abstract!SNext
<1>1. /\ Seen \in Seq(Payloads) /\ Len(Seen) = Len(c) /\ Len(c) \in Nat
      /\ head = At(c, 1) /\ tail = At(c, Len(c)) /\ num_elements = Len(c)
  BY SeenIs DEF Chain
<1>2. CASE LLIteratorFree
  <2>1. iter # NoIterator /\ iter' = NoIterator /\ UNCHANGED list /\ Returns(TRUE, Nothing)
    BY <1>2 DEF LLIteratorFree
  <2>2. Position' = -1 /\ Items(FromHead)' = Items(FromHead)
    BY <2>1, NoPosition, SameItemsNext DEF NoIterator
  <2>3. Position # -1
    <3>1. CASE iter = NULL
      BY <3>1, NoPosition, Constants DEF NoIterator
    <3>2. CASE iter # NULL
      <4>1. iter \in allocated
        BY <2>1, <3>2 DEF Types
      <4>2. PICK k \in 1 .. Len(c) : c[k] = iter
        BY <4>1, ChainFacts
      <4>3. Position = k
        BY <4>2, PositionNow
      <4>4. QED
        BY <1>1, <4>3
    <3>3. QED
      BY <3>1, <3>2
  <2>4. Abstract!SDrop
    BY <2>1, <2>2, <2>3 DEF Abstract!SDrop, Abstract!Returns, Returns
  <2>5. QED
    BY <2>4 DEF Abstract!SNext
<1>3. CASE LLMakeIterator
  <2>1. iter = NoIterator /\ UNCHANGED list
    BY <1>3 DEF LLMakeIterator
  <2>2. Position = -1 /\ Items(FromHead)' = Items(FromHead)
    BY <2>1, NoPosition, SameItemsNext DEF NoIterator
  <2>3. CASE num_elements = 0
    BY <1>3, <2>1, <2>3, FailStep DEF LLMakeIterator
  <2>4. CASE num_elements # 0
    <3>1. iter' \in {head, tail} /\ Returns(TRUE, Nothing)
      BY <1>3, <2>4 DEF LLMakeIterator
    <3>2. 1 \in 1 .. Len(c) /\ Len(c) \in 1 .. Len(c)
      BY <1>1, <2>4
    <3>3. iter' = c[1] \/ iter' = c[Len(c)]
      BY <1>1, <3>1, <3>2 DEF At
    <3>4. Chain(c)'
      BY <2>1, SameChain
    <3>5. Position' = 1 \/ Position' = Len(Seen)
      BY <1>1, <3>2, <3>3, <3>4, PositionNext
    <3>6. Seen # <<>>
      BY <1>1, <3>2
    <3>7. Abstract!SMake
      BY <2>2, <3>1, <3>5, <3>6 DEF Abstract!SMake, Abstract!Returns, Returns, Seen
    <3>8. QED
      BY <3>7 DEF Abstract!SNext
  <2>5. QED
    BY <2>3, <2>4
<1>4. QED
  BY <1>2, <1>3

LEMMA MoveStep ==
  ASSUME Types, NEW c, Chain(c),
         LLIteratorNext \/ LLIteratorPrev \/ LLIteratorGetPayload
  PROVE  Abstract!SNext
<1>1. PICK a \in 1 .. Len(c) : iter = c[a]
  BY IteratorPlace DEF LLIteratorNext, LLIteratorPrev, LLIteratorGetPayload
<1>2. /\ Seen \in Seq(Payloads) /\ Len(Seen) = Len(c) /\ Len(c) \in Nat
      /\ Seen[a] = node[iter].payload
      /\ node[iter].next = At(c, a + 1) /\ node[iter].prev = At(c, a - 1)
  BY <1>1, SeenIs DEF Chain
<1>3. Position = a /\ a > 0
  BY <1>1, PositionNow
<1>4. \A k \in 1 .. Len(c) : c[k] # NULL
  BY ChainFacts
<1>5. ASSUME NEW b \in {a - 1, a + 1}, LLIteratorMove(At(c, b)) PROVE Abstract!SNext
  <2>1. UNCHANGED list
    BY <1>5 DEF LLIteratorMove
  <2>2. CASE At(c, b) = NULL
    BY <1>5, <2>1, <2>2, FailStep DEF LLIteratorMove
  <2>3. CASE At(c, b) # NULL
    <3>1. b \in 1 .. Len(c) /\ At(c, b) = c[b]
      BY <2>3 DEF At
    <3>2. iter' = c[b] /\ Returns(TRUE, Nothing)
      BY <1>5, <2>3, <3>1 DEF LLIteratorMove
    <3>3. Chain(c)'
      BY <2>1, SameChain
    <3>4. Position' = b
      BY <3>1, <3>2, <3>3, PositionNext
    <3>5. \/ a < Len(Seen) /\ b = a + 1
          \/ a > 1 /\ b = a - 1
      BY <1>2, <3>1
    <3>6. Items(FromHead)' = Items(FromHead)
      BY <2>1, SameItemsNext
    <3>7. Abstract!SMove
      BY <1>3, <3>2, <3>4, <3>5, <3>6 DEF Abstract!SMove, Abstract!Returns, Returns, Seen
    <3>8. QED
      BY <3>7 DEF Abstract!SNext
  <2>4. QED
    BY <2>2, <2>3
<1>6. CASE LLIteratorNext
  BY <1>2, <1>5, <1>6 DEF LLIteratorNext
<1>7. CASE LLIteratorPrev
  BY <1>2, <1>5, <1>7 DEF LLIteratorPrev
<1>8. CASE LLIteratorGetPayload
  <2>1. UNCHANGED list /\ iter' = iter /\ Returns(TRUE, Seen[a])
    BY <1>2, <1>8 DEF LLIteratorGetPayload
  <2>2. Items(FromHead)' = Items(FromHead) /\ Position' = Position
    BY <2>1, SameItemsNext
  <2>3. Abstract!SGet
    BY <1>3, <2>1, <2>2 DEF Abstract!SGet, Abstract!Returns, Returns, Seen
  <2>4. QED
    BY <2>3 DEF Abstract!SNext
<1>9. QED
  BY <1>6, <1>7, <1>8

LEMMA DeleteStep ==
  ASSUME Types, NEW c, Chain(c), LLIteratorDelete
  PROVE  Abstract!SNext
<1>1. PICK a \in 1 .. Len(c) : iter = c[a]
  BY IteratorPlace DEF LLIteratorDelete
<1>2. /\ Seen \in Seq(Payloads) /\ Len(Seen) = Len(c) /\ Len(c) \in Nat
      /\ Seen[a] = node[c[a]].payload
  BY <1>1, SeenIs
<1>3. /\ Drops(c, a) /\ iter' = IF a = Len(c) THEN At(c, a - 1) ELSE At(c, a + 1)
      /\ ret' = [ok |-> Len(c) # 1, payload |-> node[c[a]].payload]
  BY <1>1, DeleteDrops
<1>4. Position = a /\ Position' = IF a = Len(Seen) THEN a - 1 ELSE a
  BY <1>1, <1>2, <1>3, DropsPosition
<1>5. Items(FromHead)' = Removed(Seen, a)
  BY <1>3, DropsItems DEF Seen
<1>6. Items(FromHead)' = SubSeq(Seen, 1, a - 1) \o SubSeq(Seen, a + 1, Len(Seen))
  BY <1>2, <1>5, RemovedInside
<1>7. (Items(FromHead)' # <<>>) <=> (Len(c) # 1)
  <2>1. Removed(Seen, a) \in Seq(Payloads) /\ Len(Removed(Seen, a)) = Len(Seen) - 1
    BY <1>2, RemovedFacts
  <2> PICK d : d = Removed(Seen, a)
    OBVIOUS
  <2>2. d \in Seq(Payloads) /\ Len(d) = Len(c) - 1
    BY <1>2, <2>1
  <2>3. d # <<>> <=> Len(d) # 0
    BY <2>2
  <2>4. QED
    BY <1>2, <1>5, <2>2, <2>3
<1>8. ret' = [ok |-> Items(FromHead)' # <<>>, payload |-> Seen[a]]
  <2>1. (Items(FromHead)' # <<>>) = (Len(c) # 1)
    BY <1>7
  <2>2. QED
    BY <1>2, <1>3, <2>1
<1>9. Position > 0
  BY <1>1, <1>4
<1>10. Abstract!SDelete
  BY <1>4, <1>6, <1>8, <1>9
     DEF Abstract!SDelete, Abstract!Returns, Abstract!RemoveAt, Seen
<1>11. QED
  BY <1>10 DEF Abstract!SNext

LEMMA InsertStep ==
  ASSUME Types, NEW c, Chain(c), LLIteratorInsertBefore
  PROVE  Abstract!SNext
<1>1. PICK a \in 1 .. Len(c) : iter = c[a]
  BY IteratorPlace DEF LLIteratorInsertBefore
<1>2. /\ Seen \in Seq(Payloads) /\ Len(Seen) = Len(c) /\ Len(c) \in Nat /\ a > 0
      /\ head = At(c, 1) /\ iter' = iter
  <2>1. Seen \in Seq(Payloads) /\ Len(Seen) = Len(c) /\ Len(c) \in Nat
    BY SeenIs
  <2>2. head = At(c, 1)
    BY DEF Chain
  <2>3. iter' = iter
    BY DEF LLIteratorInsertBefore
  <2>4. QED
    BY <1>1, <2>1, <2>2, <2>3
<1>3. ASSUME NEW n \in Nodes \ allocated, NEW p \in Payloads, Adds(c, a, n, p),
             Returns(TRUE, Nothing)
      PROVE  Abstract!SNext
  <2>1. Position = a /\ Position' = a + 1
    BY <1>1, <1>2, <1>3, AddsPosition
  <2>2. Items(FromHead)' = Inserted(Seen, a, p)
    BY <1>3, AddsItems DEF Seen
  <2>3. a \in 1 .. Len(Seen) + 1
    BY <1>1, <1>2
  <2>4. Items(FromHead)' = SubSeq(Seen, 1, a - 1) \o <<p>> \o SubSeq(Seen, a, Len(Seen))
    BY <1>2, <2>2, <2>3, InsertedInside
  <2>5. Abstract!SInsert
    BY <1>2, <1>3, <2>1, <2>4
       DEF Abstract!SInsert, Abstract!Returns, Returns, Abstract!InsertAt, Seen
  <2>6. QED
    BY <2>5 DEF Abstract!SNext
<1>4. CASE NoMemory
  BY <1>4, FailStep DEF NoMemory
<1>5. ASSUME NEW n \in Nodes \ allocated, NEW p \in Payloads,
             IF iter = head THEN PushLinkedList(n, p) ELSE Splice(n, p)
      PROVE  Abstract!SNext
  <2>1. CASE iter = head
    <3>1. PushLinkedList(n, p)
      BY <1>5, <2>1
    <3>2. a = 1
      <4>1. 1 \in 1 .. Len(c)
        BY <1>1, <1>2
      <4>2. c[a] = c[1]
        BY <1>1, <1>2, <2>1, <4>1 DEF At
      <4>3. QED
        BY <1>1, <4>1, <4>2 DEF Chain
    <3>3. Adds(c, a, n, p)
      BY <3>1, <3>2, PushAdds
    <3>4. QED
      BY <1>3, <3>1, <3>3 DEF PushLinkedList
  <2>2. CASE iter # head
    <3>1. Splice(n, p)
      BY <1>5, <2>2
    <3>2. a # 1
      BY <1>1, <1>2, <2>2 DEF At
    <3>3. Adds(c, a, n, p)
      BY <1>1, <3>1, <3>2, SpliceAdds
    <3>4. QED
      BY <1>3, <3>1, <3>3 DEF Splice
  <2>3. QED
    BY <2>1, <2>2
<1>6. QED
  BY <1>4, <1>5 DEF LLIteratorInsertBefore

LEMMA ListStep ==
  ASSUME ListInv, [Next]_vars
  PROVE  [Abstract!SNext]_(Abstract!svars)
<1>1. Types
  BY DEF ListInv
<1>2. PICK c : Chain(c)
  BY DEF ListInv
<1>3. CASE UNCHANGED vars
  <2>1. UNCHANGED list /\ iter' = iter /\ ret' = ret
    BY <1>3 DEF vars
  <2>2. Items(FromHead)' = Items(FromHead) /\ Position' = Position
    BY <2>1, SameItemsNext
  <2>3. QED
    BY <2>1, <2>2 DEF Abstract!svars
<1>4. CASE Next
  <2>1. Abstract!SNext
    BY <1>1, <1>2, <1>4, AddStep, TakeStep, SortStepOK, FreeStep, IteratorStep, MoveStep,
       DeleteStep, InsertStep DEF Next
  <2>2. QED
    BY <2>1
<1>5. QED
  BY <1>3, <1>4

LEMMA InitStep ==
  ASSUME Init
  PROVE  Abstract!SInit
<1>1. Types /\ Chain(<<>>)
  <2>1. Len(<<>>) = 0 /\ 1 .. Len(<<>>) = {} /\ <<>> \in Seq(Nodes)
    OBVIOUS
  <2>2. In(<<>>) = {}
    BY <2>1 DEF In
  <2>3. At(<<>>, 1) = NULL /\ At(<<>>, 0) = NULL
    BY <2>1 DEF At
  <2>4. QED
    BY <2>1, <2>2, <2>3, BlankIsCell DEF Chain, Init, Types
<1>2. Seen \in Seq(Payloads) /\ Len(Seen) = 0
  BY <1>1, SeenIs
<1>3. Seen = <<>>
  BY <1>2
<1>4. Position = -1
  BY NoPosition DEF Init, NoIterator
<1>5. QED
  BY <1>3, <1>4 DEF Init, Abstract!SInit, Seen

(* LinkedList.h: the list and its iterator act as a sequence with a         *)
(* position, whatever order malloc hands the cells out in; SortLinkedList   *)
(* sorts, and loses no payload.                                             *)
THEOREM ActsAsASequence == Spec => ActsAsSequence
<1>1. ListInv /\ [Next]_vars => [Abstract!SNext]_(Abstract!svars)
  BY ListStep
<1>2. Init => Abstract!SInit
  BY InitStep
<1>3. QED
  BY <1>1, <1>2, InitListInv, NextListInv, PTL DEF Spec, ActsAsSequence, Abstract!SSpec
=============================================================================
