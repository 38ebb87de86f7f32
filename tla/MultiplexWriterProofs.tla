------------------------ MODULE MultiplexWriterProofs ------------------------
(***************************************************************************)
(* Proofs about MultiplexWriter: its types, and that a connection carries  *)
(* what was written to its queue, in order.                                *)
(***************************************************************************)
EXTENDS MultiplexWriter, SequenceTheorems, WellFoundedInduction, TLAPS

-----------------------------------------------------------------------------
(* Subsequences, by induction on the length of a sequence *)

(* Induction, for a set of numbers: one that holds 0 and the successor of   *)
(* each of its members holds them all.                                      *)
LEMMA Rising ==
  ASSUME NEW T, T \subseteq Nat, 0 \in T, \A n \in T : n + 1 \in T
  PROVE  T = Nat
<1> SUFFICES ASSUME Nat \ T # {} PROVE FALSE
  OBVIOUS
<1>1. PICK x \in Nat \ T : \A y \in Nat \ T : ~ (<<y, x>> \in OpToRel(<, Nat))
  BY WFMin, NatLessThanWellFounded
<1>2. \A y \in Nat \ T : ~(y < x)
  BY <1>1 DEF OpToRel
<1>3. x \in Nat /\ x \notin T /\ x # 0
  BY <1>1
<1> HIDE <1>1
<1>4. x - 1 \in Nat /\ x - 1 < x /\ (x - 1) + 1 = x
  BY <1>3
<1>5. x - 1 \in T
  BY <1>2, <1>4
<1>6. QED
  BY <1>3, <1>4, <1>5

-----------------------------------------------------------------------------
(* The recursion of Only, for the first n elements.                         *)

OnlyStep(s, S, F, i) ==
  IF i = 0 THEN <<>> ELSE IF s[i] \in S THEN Append(F[i - 1], s[i]) ELSE F[i - 1]

OnlyRec(s, S, F, n) == F = [i \in 0 .. n |-> OnlyStep(s, S, F, i)]

OnlyFcn(s, S) == CHOOSE F : OnlyRec(s, S, F, Len(s))

LEMMA OnlyIs ==
  ASSUME NEW s, NEW S
  PROVE  Only(s, S) = OnlyFcn(s, S)[Len(s)]
BY DEF Only, OnlyFcn, OnlyRec, OnlyStep

LEMMA OnlyExists ==
  ASSUME NEW s, NEW S, NEW n \in Nat
  PROVE  \E F : OnlyRec(s, S, F, n)
<1> DEFINE T == {m \in Nat : \E F : OnlyRec(s, S, F, m)}
<1>1. 0 \in T
  <2>1. OnlyRec(s, S, [i \in 0 .. 0 |-> <<>>], 0)
    BY DEF OnlyRec, OnlyStep
  <2>2. QED
    BY <2>1
<1>2. ASSUME NEW m \in T PROVE m + 1 \in T
  <2>1. PICK F : OnlyRec(s, S, F, m)
    OBVIOUS
  <2> DEFINE G == [i \in 0 .. m + 1 |-> IF i <= m THEN F[i] ELSE OnlyStep(s, S, F, i)]
             H == [i \in 0 .. m + 1 |-> OnlyStep(s, S, G, i)]
  <2>2. m \in Nat
    OBVIOUS
  <2>3. \A i \in 0 .. m : F[i] = OnlyStep(s, S, F, i)
    BY <2>1, <2>2 DEF OnlyRec
  <2>4. ASSUME NEW i \in 0 .. m + 1 PROVE G[i] = H[i]
    <3>1. i # 0 => G[i - 1] = F[i - 1]
      BY <2>2
    <3>2. OnlyStep(s, S, G, i) = OnlyStep(s, S, F, i)
      BY <3>1 DEF OnlyStep
    <3>3. QED
      BY <2>2, <2>3, <3>2
  <2>5. G = H
    BY <2>4
  <2>6. OnlyRec(s, S, G, m + 1)
    BY <2>5 DEF OnlyRec
  <2>7. QED
    BY <2>2, <2>6
<1>3. T = Nat
  BY <1>1, <1>2, Rising
<1>4. QED
  BY <1>3

LEMMA OnlyFcnRec ==
  ASSUME NEW s, NEW S, Len(s) \in Nat
  PROVE  /\ OnlyFcn(s, S)[0] = <<>>
         /\ \A i \in 0 .. Len(s) - 1 :
              OnlyFcn(s, S)[i + 1] =
                IF s[i + 1] \in S THEN Append(OnlyFcn(s, S)[i], s[i + 1])
                ELSE OnlyFcn(s, S)[i]
<1>1. \E F : OnlyRec(s, S, F, Len(s))
  BY OnlyExists
<1>2. OnlyRec(s, S, OnlyFcn(s, S), Len(s))
  BY <1>1, Zenon DEF OnlyFcn
<1>3. ASSUME NEW F, OnlyRec(s, S, F, Len(s)), NEW i \in 0 .. Len(s)
      PROVE  F[i] = OnlyStep(s, S, F, i)
  BY <1>3 DEF OnlyRec
<1>4. \A i \in 0 .. Len(s) : OnlyFcn(s, S)[i] = OnlyStep(s, S, OnlyFcn(s, S), i)
  BY <1>2, <1>3
<1>5. QED
  <2>1. OnlyFcn(s, S)[0] = <<>>
    BY <1>4 DEF OnlyStep
  <2>2. ASSUME NEW i \in 0 .. Len(s) - 1
        PROVE  OnlyFcn(s, S)[i + 1] =
                 IF s[i + 1] \in S THEN Append(OnlyFcn(s, S)[i], s[i + 1])
                 ELSE OnlyFcn(s, S)[i]
    <3>1. i + 1 \in 0 .. Len(s) /\ (i + 1) - 1 = i /\ i + 1 # 0
      OBVIOUS
    <3>2. OnlyFcn(s, S)[i + 1] = OnlyStep(s, S, OnlyFcn(s, S), i + 1)
      BY <1>4, <3>1
    <3>3. QED
      BY <3>1, <3>2 DEF OnlyStep
  <2>3. QED
    BY <2>1, <2>2

(* Only the first n elements count for the first n steps. *)
LEMMA OnlyFcnSame ==
  ASSUME NEW s, NEW t, NEW S, Len(s) \in Nat, Len(t) \in Nat,
         NEW n \in Nat, n <= Len(s), n <= Len(t), \A i \in 1 .. n : s[i] = t[i]
  PROVE  OnlyFcn(s, S)[n] = OnlyFcn(t, S)[n]
<1> DEFINE T == {m \in Nat : m <= n => OnlyFcn(s, S)[m] = OnlyFcn(t, S)[m]}
<1>1. 0 \in T
  BY OnlyFcnRec
<1>2. ASSUME NEW m \in T PROVE m + 1 \in T
  <2>1. m \in Nat
    OBVIOUS
  <2>2. SUFFICES ASSUME m + 1 <= n PROVE OnlyFcn(s, S)[m + 1] = OnlyFcn(t, S)[m + 1]
    BY <2>1
  <2>3. m + 1 \in 1 .. n /\ m \in 0 .. Len(s) - 1 /\ m \in 0 .. Len(t) - 1
    BY <2>1, <2>2
  <2>4. OnlyFcn(s, S)[m] = OnlyFcn(t, S)[m]
    BY <2>1, <2>2
  <2>5. s[m + 1] = t[m + 1]
    BY <2>3
  <2>6. QED
    BY <2>3, <2>4, <2>5, OnlyFcnRec
<1>3. T = Nat
  BY <1>1, <1>2, Rising
<1>4. QED
  BY <1>3

-----------------------------------------------------------------------------
(* What is cited elsewhere *)

LEMMA OnlyEmpty ==
  ASSUME NEW S
  PROVE  Only(<<>>, S) = <<>>
BY OnlyIs, OnlyFcnRec

LEMMA OnlyAppend ==
  ASSUME NEW A, NEW s \in Seq(A), NEW x \in A, NEW S
  PROVE  Only(Append(s, x), S) = IF x \in S THEN Append(Only(s, S), x) ELSE Only(s, S)
<1> DEFINE t == Append(s, x)
<1>1. /\ Len(s) \in Nat /\ Len(t) = Len(s) + 1 /\ t[Len(t)] = x
      /\ \A i \in 1 .. Len(s) : t[i] = s[i]
  OBVIOUS
<1> HIDE DEF t
<1>2. OnlyFcn(t, S)[Len(s)] = OnlyFcn(s, S)[Len(s)]
  BY <1>1, OnlyFcnSame
<1>3. OnlyFcn(t, S)[Len(t)] = IF x \in S THEN Append(OnlyFcn(t, S)[Len(s)], x)
                              ELSE OnlyFcn(t, S)[Len(s)]
  <2>1. Len(s) \in 0 .. Len(t) - 1 /\ Len(t) \in Nat
    BY <1>1
  <2>2. QED
    BY <1>1, <2>1, OnlyFcnRec
<1>4. QED
  BY <1>2, <1>3, OnlyIs DEF t

LEMMA OnlyType ==
  ASSUME NEW A, NEW s \in Seq(A), NEW S
  PROVE  Only(s, S) \in Seq(A)
<1> DEFINE F == OnlyFcn(s, S)
           T == {m \in Nat : m <= Len(s) => F[m] \in Seq(A)}
<1>1. /\ Len(s) \in Nat /\ F[0] = <<>>
      /\ \A i \in 0 .. Len(s) - 1 :
           F[i + 1] = IF s[i + 1] \in S THEN Append(F[i], s[i + 1]) ELSE F[i]
  BY OnlyFcnRec
<1> HIDE DEF F
<1>2. 0 \in T
  <2>1. <<>> \in Seq(A)
    OBVIOUS
  <2>2. F[0] \in Seq(A)
    BY <1>1, <2>1, Zenon
  <2>3. QED
    BY <2>2
<1>3. ASSUME NEW m \in T PROVE m + 1 \in T
  <2>1. m \in Nat
    OBVIOUS
  <2>2. SUFFICES ASSUME m + 1 <= Len(s) PROVE F[m + 1] \in Seq(A)
    BY <2>1
  <2>3. m \in 0 .. Len(s) - 1 /\ s[m + 1] \in A /\ F[m] \in Seq(A)
    BY <1>1, <2>1, <2>2
  <2>4. Append(F[m], s[m + 1]) \in Seq(A)
    BY <2>3
  <2>5. F[m + 1] = IF s[m + 1] \in S THEN Append(F[m], s[m + 1]) ELSE F[m]
    BY <1>1, <2>3
  <2>6. QED
    BY <2>3, <2>4, <2>5, Zenon
<1>4. T = Nat
  BY <1>2, <1>3, Rising
<1>5. QED
  BY <1>1, <1>4, OnlyIs DEF F

LEMMA OnlyOne ==
  ASSUME NEW x, NEW S
  PROVE  Only(<<x>>, S) = IF x \in S THEN <<x>> ELSE <<>>
<1> DEFINE s == <<x>>
<1>1. Len(s) = 1 /\ s[1] = x
  OBVIOUS
<1> HIDE DEF s
<1>2. OnlyFcn(s, S)[0] = <<>>
  BY <1>1, OnlyFcnRec
<1>3. OnlyFcn(s, S)[0 + 1] = IF s[0 + 1] \in S THEN Append(OnlyFcn(s, S)[0], s[0 + 1])
                             ELSE OnlyFcn(s, S)[0]
  BY <1>1, OnlyFcnRec
<1>4. OnlyFcn(s, S)[1] = IF x \in S THEN <<x>> ELSE <<>>
  BY <1>1, <1>2, <1>3
<1>5. QED
  BY <1>1, <1>4, OnlyIs DEF s

Joins(s, t, S) == Only(s \o t, S) = Only(s, S) \o Only(t, S)

LEMMA JoinsAppend ==
  ASSUME NEW A, NEW s \in Seq(A), NEW t \in Seq(A), NEW x \in A, NEW S, Joins(s, t, S)
  PROVE  Joins(s, Append(t, x), S)
<1> DEFINE h == s \o t
<1>1. h \in Seq(A) /\ s \o Append(t, x) = Append(h, x)
  OBVIOUS
<1>2. Only(h, S) = Only(s, S) \o Only(t, S)
  BY DEF Joins
<1> HIDE DEF h
<1>3. Only(Append(h, x), S) = IF x \in S THEN Append(Only(h, S), x) ELSE Only(h, S)
  BY <1>1, OnlyAppend
<1>4. Only(Append(t, x), S) = IF x \in S THEN Append(Only(t, S), x) ELSE Only(t, S)
  BY OnlyAppend
<1>5. Only(s, S) \in Seq(A) /\ Only(t, S) \in Seq(A)
  BY OnlyType
<1>6. Append(Only(s, S) \o Only(t, S), x) = Only(s, S) \o Append(Only(t, S), x)
  <2> DEFINE u == Only(s, S)
             v == Only(t, S)
  <2>1. u \in Seq(A) /\ v \in Seq(A)
    BY <1>5
  <2> HIDE DEF u, v
  <2>2. u \o v \in Seq(A) /\ <<x>> \in Seq(A)
    BY <2>1, ConcatProperties
  <2>3. Append(u \o v, x) = (u \o v) \o <<x>> /\ Append(v, x) = v \o <<x>>
    BY <2>1, <2>2, AppendIsConcat
  <2>4. (u \o v) \o <<x>> = u \o (v \o <<x>>)
    BY <2>1, <2>2, ConcatAssociative
  <2>5. QED
    BY <2>3, <2>4 DEF u, v
<1>7. QED
  BY <1>1, <1>2, <1>3, <1>4, <1>6 DEF Joins

LEMMA OnlyConcat ==
  ASSUME NEW A, NEW s \in Seq(A), NEW t \in Seq(A), NEW S
  PROVE  Only(s \o t, S) = Only(s, S) \o Only(t, S)
<1> DEFINE T == {n \in Nat : n <= Len(t) => Joins(s, SubSeq(t, 1, n), S)}
<1>1. Joins(s, SubSeq(t, 1, 0), S)
  <2>1. SubSeq(t, 1, 0) = <<>> /\ s \o <<>> = s
    OBVIOUS
  <2>2. Only(s, S) \in Seq(A)
    BY OnlyType
  <2>3. Only(s, S) \o <<>> = Only(s, S)
    BY <2>2
  <2>4. QED
    BY <2>1, <2>3, OnlyEmpty DEF Joins
<1>2. ASSUME NEW n \in Nat, n + 1 <= Len(t), Joins(s, SubSeq(t, 1, n), S)
      PROVE  Joins(s, SubSeq(t, 1, n + 1), S)
  <2> DEFINE u == SubSeq(t, 1, n)
             e == t[n + 1]
  <2>1. u \in Seq(A) /\ e \in A /\ SubSeq(t, 1, n + 1) = Append(u, e)
    BY <1>2
  <2>2. Joins(s, u, S)
    BY <1>2
  <2> HIDE DEF u, e
  <2>3. Joins(s, Append(u, e), S)
    BY <2>1, <2>2, JoinsAppend
  <2>4. QED
    BY <2>1, <2>3
<1>3. 0 \in T /\ \A n \in T : n + 1 \in T
  BY <1>1, <1>2
<1>4. T = Nat
  BY <1>3, Rising
<1>5. Len(t) \in Nat /\ Len(t) \in T
  BY <1>4
<1>6. Joins(s, SubSeq(t, 1, Len(t)), S) /\ SubSeq(t, 1, Len(t)) = t
  BY <1>5
<1>7. QED
  BY <1>6 DEF Joins

-----------------------------------------------------------------------------
(* Concatenation as an operator that is only known by its laws. *)

Cat(s, t) == s \o t

LEMMA CatLaws ==
  ASSUME NEW A, NEW a \in Seq(A), NEW b \in Seq(A), NEW c \in Seq(A)
  PROVE  /\ Cat(a, b) \in Seq(A)
         /\ Cat(Cat(a, b), c) = Cat(a, Cat(b, c))
         /\ Cat(a, <<>>) = a
         /\ Cat(<<>>, a) = a
BY DEF Cat

-----------------------------------------------------------------------------
(* Writes and their blocks *)

Writes == WritesOf(program)

-----------------------------------------------------------------------------
(* Sequences *)

LEMMA HeadAndTail ==
  ASSUME NEW A, NEW s \in Seq(A), s # <<>>
  PROVE  /\ Head(s) \in A /\ Tail(s) \in Seq(A) /\ <<Head(s)>> \in Seq(A)
         /\ s = <<Head(s)>> \o Tail(s)
OBVIOUS

LEMMA ConcatIsPrefix ==
  ASSUME NEW A, NEW s \in Seq(A), NEW t \in Seq(A)
  PROVE  IsPrefix(s, s \o t)
<1>1. Len(s) <= Len(s \o t) /\ Len(s) \in Nat
  OBVIOUS
<1>2. SubSeq(s, 1, Len(s)) = SubSeq(s \o t, 1, Len(s))
  OBVIOUS
<1>3. QED
  BY <1>1, <1>2 DEF IsPrefix

(* The blocks of a sequence of writes. *)
BlocksOf(s) == [i \in 1 .. Len(s) |-> s[i].block]

LEMMA BlocksOfCons ==
  ASSUME NEW A, NEW x \in A, NEW s \in Seq(A)
  PROVE  BlocksOf(<<x>> \o s) = <<x.block>> \o BlocksOf(s)
<1> DEFINE h == <<x>> \o s
           k == <<x.block>> \o BlocksOf(s)
<1>1. Len(h) = Len(s) + 1 /\ h[1] = x /\ \A i \in 1 .. Len(s) : h[i + 1] = s[i]
  OBVIOUS
<1>2. BlocksOf(s) \in Seq({s[i].block : i \in 1 .. Len(s)}) /\ Len(BlocksOf(s)) = Len(s)
  BY DEF BlocksOf
<1>3. \A i \in 1 .. Len(s) : BlocksOf(s)[i] = s[i].block
  BY DEF BlocksOf
<1>4. /\ DOMAIN k = 1 .. Len(s) + 1 /\ k[1] = x.block
      /\ \A i \in 1 .. Len(s) : k[i + 1] = s[i].block
  BY <1>2, <1>3
<1>5. QED
  BY <1>1, <1>4 DEF BlocksOf

-----------------------------------------------------------------------------
(* By and Part *)

LEMMA PartIs ==
  ASSUME NEW p, NEW q
  PROVE  Part(p, q) = BlocksOf(Only(p, {x \in Writes : x.queue = q}))
BY DEF Part, BlocksOf, Writes

LEMMA PartType ==
  ASSUME NEW p \in Seq(Writes), NEW q
  PROVE  Part(p, q) \in Seq(Blocks)
<1> DEFINE s == Only(p, {x \in Writes : x.queue = q})
<1>1. s \in Seq(Writes)
  BY OnlyType
<1> HIDE DEF s
<1>2. \A i \in 1 .. Len(s) : s[i].block \in Blocks
  BY <1>1 DEF Blocks, Writes
<1>3. BlocksOf(s) \in Seq(Blocks)
  BY <1>1, <1>2 DEF BlocksOf
<1>4. QED
  BY <1>3, PartIs DEF s

LEMMA PartCons ==
  ASSUME NEW p \in Seq(Writes), NEW q, p # <<>>
  PROVE  Part(p, q) = IF Head(p).queue = q THEN <<Head(p).block>> \o Part(Tail(p), q)
                      ELSE Part(Tail(p), q)
<1> DEFINE S == {x \in Writes : x.queue = q}
           h == Head(p)
           t == Tail(p)
           r == Only(t, S)
<1>1. h \in Writes /\ t \in Seq(Writes) /\ <<h>> \in Seq(Writes) /\ p = <<h>> \o t
  BY HeadAndTail
<1>2. h \in S <=> h.queue = q
  BY <1>1
<1>3. r \in Seq(Writes)
  BY <1>1, OnlyType
<1> HIDE DEF S, h, t
<1>4. Only(p, S) = Only(<<h>>, S) \o r
  <2> DEFINE g == <<h>>
  <2>1. g \in Seq(Writes) /\ p = g \o t
    BY <1>1
  <2> HIDE DEF g
  <2>2. Only(g \o t, S) = Only(g, S) \o Only(t, S)
    BY <1>1, <2>1, OnlyConcat
  <2>3. QED
    BY <2>1, <2>2 DEF g
<1>5. Only(<<h>>, S) = IF h \in S THEN <<h>> ELSE <<>>
  BY OnlyOne
<1>6. Part(p, q) = BlocksOf(Only(p, S)) /\ Part(t, q) = BlocksOf(r)
  BY PartIs DEF S
<1> HIDE DEF r
<1>7. Part(p, q) = IF h \in S THEN <<h.block>> \o Part(t, q) ELSE Part(t, q)
  <2>1. CASE h \in S
    <3>1. BlocksOf(<<h>> \o r) = <<h.block>> \o BlocksOf(r)
      BY <1>1, <1>3, BlocksOfCons
    <3>2. Only(p, S) = <<h>> \o r
      BY <2>1, <1>4, <1>5
    <3>3. QED
      BY <2>1, <1>6, <3>1, <3>2, Zenon
  <2>2. CASE h \notin S
    <3>1. <<>> \o r = r
      BY <1>3
    <3>2. Only(p, S) = r
      BY <2>2, <1>4, <1>5, <3>1
    <3>3. QED
      BY <2>2, <1>6, <3>2
  <2>3. QED
    BY <2>1, <2>2
<1>8. QED
  BY <1>2, <1>7, Zenon DEF h, t

LEMMA ByType ==
  ASSUME NEW s \in Seq(Blocks), NEW w
  PROVE  By(s, w) \in Seq(Blocks)
BY OnlyType DEF By

LEMMA ByConcat ==
  ASSUME NEW s \in Seq(Blocks), NEW t \in Seq(Blocks), NEW w
  PROVE  By(s \o t, w) = By(s, w) \o By(t, w)
BY OnlyConcat DEF By

LEMMA ByCat ==
  ASSUME NEW a \in Seq(Blocks), NEW b \in Seq(Blocks), NEW w
  PROVE  By(Cat(a, b), w) = Cat(By(a, w), By(b, w))
BY ByConcat DEF Cat

LEMMA ByOne ==
  ASSUME NEW b \in Blocks, NEW w
  PROVE  By(<<b>>, w) = IF b.by = w THEN <<b>> ELSE <<>>
BY OnlyOne DEF By

-----------------------------------------------------------------------------
(* The inductive invariant                                                  *)

Suffix(s, t) == \E n \in 0 .. Len(t) : s = SubSeq(t, n + 1, Len(t))

(* The types of all variables, and: a writer past its lock has a write to  *)
(* make, a sender past its dequeue has a block in its buffer.              *)
WriterTypes ==
  /\ program \in Programs
  /\ todo \in [Writers -> Seq(Writes)]
  /\ \A w \in Writers : Suffix(todo[w], program[w])
  /\ queue \in [Queues -> Seq(Blocks)]
  /\ sent \in [Queues -> Seq(Blocks)]
  /\ buf \in [Queues -> Blocks \cup {NoBlock}]
  /\ \A q \in Queues : pc[q] \in {"unlock", "send"} => buf[q] \in Blocks
  /\ mutex \in [Queues -> {Nobody} \cup Queues \cup Writers]
  /\ \A q \in Queues : mutex[q] \in {Nobody, q} \cup Writers
  /\ pc \in [Queues \cup Writers ->
               {"lock", "check", "waiting", "enqueue", "signal", "unlock", "send"}]
  /\ \A q \in Queues : pc[q] \in {"lock", "check", "waiting", "unlock", "send"}
  /\ \A w \in Writers : /\ pc[w] \in {"lock", "enqueue", "signal", "unlock"}
                        /\ pc[w] # "lock" => todo[w] # <<>>
  /\ open \in [Queues -> BOOLEAN] /\ alive \in BOOLEAN

LEMMA ProgramTypes ==
  ASSUME program \in Programs, NEW w \in Writers
  PROVE  /\ program[w] \in Seq(Writes)
         /\ \A i \in 1 .. Len(program[w]) : /\ program[w][i] \in Writes
                                            /\ program[w][i].queue \in Queues
                                            /\ program[w][i].block.by = w
                                            /\ program[w][i].block \in Blocks
<1>1. program \in [Writers -> Seq(Writes)]
  BY WriterAssumption DEF Writes
<1>2. program[w] \in Seq(Writes)
  BY <1>1
<1>3. \A i \in 1 .. Len(program[w]) : program[w][i] \in Writes
  BY <1>2
<1>4. \A i \in 1 .. Len(program[w]) : program[w][i].block \in Blocks
  BY <1>3 DEF Writes, Blocks
<1>5. QED
  BY <1>2, <1>3, <1>4, WriterAssumption

LEMMA SuffixTail ==
  ASSUME NEW A, NEW t \in Seq(A), NEW s, Suffix(s, t), s # <<>>
  PROVE  /\ Suffix(Tail(s), t)
         /\ \E i \in 1 .. Len(t) : Head(s) = t[i]
<1>1. PICK n \in 0 .. Len(t) : s = SubSeq(t, n + 1, Len(t))
  BY DEF Suffix
<1>2. Len(t) \in Nat /\ n \in Nat /\ n + 1 \in Nat
  OBVIOUS
<1>3. n < Len(t)
  BY <1>1, <1>2
<1>4. n + 1 \in 0 .. Len(t) /\ n + 1 \in 1 .. Len(t)
  BY <1>2, <1>3
<1>5. Tail(s) = SubSeq(t, (n + 1) + 1, Len(t)) /\ Head(s) = t[n + 1]
  BY <1>1, <1>2, <1>3
<1>6. QED
  BY <1>4, <1>5 DEF Suffix

(* What a writer that has a write to make is about to write. *)
LEMMA HeadTypes ==
  ASSUME WriterTypes, NEW w \in Writers, todo[w] # <<>>
  PROVE  /\ Head(todo[w]).queue \in Queues
         /\ Head(todo[w]).block \in Blocks
         /\ Head(todo[w]).block.by = w
         /\ todo[w] \in Seq(Writes)
         /\ Tail(todo[w]) \in Seq(Writes)
         /\ Suffix(Tail(todo[w]), program[w])
<1>1. program \in Programs /\ todo[w] \in Seq(Writes) /\ Suffix(todo[w], program[w])
  BY DEF WriterTypes
<1>2. program[w] \in Seq(Writes)
  BY <1>1, ProgramTypes
<1>3. PICK i \in 1 .. Len(program[w]) : Head(todo[w]) = program[w][i]
  BY <1>1, <1>2, SuffixTail
<1>4. Suffix(Tail(todo[w]), program[w])
  BY <1>1, <1>2, SuffixTail
<1>5. Tail(todo[w]) \in Seq(Writes)
  BY <1>1
<1>6. QED
  BY <1>1, <1>3, <1>4, <1>5, ProgramTypes

LEMMA WriterInit == Init => WriterTypes
<1> SUFFICES ASSUME Init PROVE WriterTypes
  OBVIOUS
<1>1. program \in Programs /\ todo = program
  BY DEF Init
<1>2. program \in [Writers -> Seq(Writes)]
  BY <1>1, WriterAssumption DEF Writes
<1>3. \A w \in Writers : Suffix(todo[w], program[w])
  <2> SUFFICES ASSUME NEW w \in Writers PROVE Suffix(todo[w], program[w])
    OBVIOUS
  <2>1. program[w] \in Seq(Writes) /\ todo[w] = program[w]
    BY <1>1, <1>2
  <2>2. program[w] = SubSeq(program[w], 0 + 1, Len(program[w]))
    BY <2>1
  <2>3. QED
    BY <2>1, <2>2 DEF Suffix
<1>4. <<>> \in Seq(Blocks)
  OBVIOUS
<1>5. QED
  BY <1>1, <1>2, <1>3, <1>4, WriterAssumption, Zenon DEF Init, WriterTypes

LEMMA SameProgram ==
  ASSUME program' = program
  PROVE  Writes' = Writes /\ Blocks' = Blocks
BY DEF Writes, Blocks, WritesOf

(* Every step keeps the types. *)
LEMMA WriterTypesStep ==
  ASSUME WriterTypes, [Next]_vars
  PROVE  WriterTypes'
<1>1. ASSUME NEW w \in Writers, WriterLock(w) PROVE WriterTypes'
  <2>1. Target(w) \in Queues
    BY <1>1, HeadTypes DEF WriterLock, Target
  <2>2. program' = program
    BY <1>1 DEF WriterLock, env
  <2>3. Writes' = Writes /\ Blocks' = Blocks
    BY <2>2, SameProgram
  <2>4. QED
    BY <1>1, <2>1, <2>2, <2>3, WriterAssumption DEF WriterLock, WriterTypes, env
<1>2. ASSUME NEW w \in Writers, WriterEnqueue(w) PROVE WriterTypes'
  <2>1. Target(w) \in Queues /\ Head(todo[w]).block \in Blocks
    BY <1>2, HeadTypes DEF WriterEnqueue, Target, WriterTypes
  <2>2. Suffix(Tail(todo[w]), program[w]) /\ Tail(todo[w]) \in Seq(Writes)
    BY <1>2, HeadTypes DEF WriterEnqueue, WriterTypes
  <2>3. program' = program
    BY <1>2 DEF WriterEnqueue, env
  <2>4. Writes' = Writes /\ Blocks' = Blocks
    BY <2>3, SameProgram
  <2>5. QED
    BY <1>2, <2>1, <2>2, <2>3, <2>4, WriterAssumption DEF WriterEnqueue, WriterTypes, env
<1>3. ASSUME NEW w \in Writers, WriterSignal(w) PROVE WriterTypes'
  <2>1. Target(w) \in Queues /\ Head(todo[w]).block \in Blocks
    BY <1>3, HeadTypes DEF WriterSignal, Target, WriterTypes
  <2>2. Suffix(Tail(todo[w]), program[w]) /\ Tail(todo[w]) \in Seq(Writes)
    BY <1>3, HeadTypes DEF WriterSignal, WriterTypes
  <2>3. program' = program
    BY <1>3 DEF WriterSignal, env
  <2>4. Writes' = Writes /\ Blocks' = Blocks
    BY <2>3, SameProgram
  <2>5. QED
    BY <1>3, <2>1, <2>2, <2>3, <2>4, WriterAssumption DEF WriterSignal, WriterTypes, env
<1>4. ASSUME NEW w \in Writers, WriterUnlock(w) PROVE WriterTypes'
  <2>1. Target(w) \in Queues /\ Head(todo[w]).block \in Blocks
    BY <1>4, HeadTypes DEF WriterUnlock, Target, WriterTypes
  <2>2. Suffix(Tail(todo[w]), program[w]) /\ Tail(todo[w]) \in Seq(Writes)
    BY <1>4, HeadTypes DEF WriterUnlock, WriterTypes
  <2>3. program' = program
    BY <1>4 DEF WriterUnlock, env
  <2>4. Writes' = Writes /\ Blocks' = Blocks
    BY <2>3, SameProgram
  <2>5. QED
    BY <1>4, <2>1, <2>2, <2>3, <2>4, WriterAssumption DEF WriterUnlock, WriterTypes, env
<1>5. ASSUME NEW q \in Queues, SenderLock(q) PROVE WriterTypes'
  <2>1. program' = program
    BY <1>5 DEF SenderLock, env
  <2>2. Writes' = Writes /\ Blocks' = Blocks
    BY <2>1, SameProgram
  <2>3. QED
    BY <1>5, <2>1, <2>2, WriterAssumption DEF SenderLock, env, WriterTypes
<1>6. ASSUME NEW q \in Queues, SenderWait(q) PROVE WriterTypes'
  <2>1. program' = program
    BY <1>6 DEF SenderWait, env
  <2>2. Writes' = Writes /\ Blocks' = Blocks
    BY <2>1, SameProgram
  <2>3. QED
    BY <1>6, <2>1, <2>2, WriterAssumption DEF SenderWait, env, WriterTypes
<1>7. ASSUME NEW q \in Queues, SenderDequeue(q) PROVE WriterTypes'
  <2>1. program' = program
    BY <1>7 DEF SenderDequeue, env
  <2>2. Writes' = Writes /\ Blocks' = Blocks
    BY <2>1, SameProgram
  <2>3. QED
    BY <1>7, <2>1, <2>2, WriterAssumption DEF SenderDequeue, env, WriterTypes
<1>8. ASSUME NEW q \in Queues, SenderUnlock(q) PROVE WriterTypes'
  <2>1. program' = program
    BY <1>8 DEF SenderUnlock, env
  <2>2. Writes' = Writes /\ Blocks' = Blocks
    BY <2>1, SameProgram
  <2>3. QED
    BY <1>8, <2>1, <2>2, WriterAssumption DEF SenderUnlock, env, WriterTypes
<1>9. ASSUME NEW q \in Queues, SenderSend(q) PROVE WriterTypes'
  <2>1. program' = program
    BY <1>9 DEF SenderSend, env
  <2>2. Writes' = Writes /\ Blocks' = Blocks
    BY <2>1, SameProgram
  <2>3. QED
    BY <1>9, <2>1, <2>2, WriterAssumption DEF SenderSend, env, WriterTypes
<1>10. ASSUME NEW q \in Queues, SigPipe(q) PROVE WriterTypes'
  <2>1. program' = program
    BY <1>10 DEF SigPipe
  <2>2. Writes' = Writes /\ Blocks' = Blocks
    BY <2>1, SameProgram
  <2>3. QED
    BY <1>10, <2>1, <2>2, Zenon DEF SigPipe, WriterTypes
<1>11. ASSUME NEW q \in Queues, SpuriousWakeup(q) PROVE WriterTypes'
  <2>1. program' = program
    BY <1>11 DEF SpuriousWakeup, env
  <2>2. Writes' = Writes /\ Blocks' = Blocks
    BY <2>1, SameProgram
  <2>3. QED
    BY <1>11, <2>1, <2>2, WriterAssumption DEF SpuriousWakeup, env, WriterTypes
<1>12. ASSUME NEW q \in Queues, Break(q) PROVE WriterTypes'
  <2>1. program' = program
    BY <1>12 DEF Break
  <2>2. Writes' = Writes /\ Blocks' = Blocks
    BY <2>1, SameProgram
  <2>3. QED
    BY <1>12, <2>1, <2>2, WriterAssumption DEF Break, WriterTypes
<1>13. ASSUME UNCHANGED vars PROVE WriterTypes'
  <2>1. Writes' = Writes /\ Blocks' = Blocks
    BY <1>13, SameProgram DEF vars
  <2>2. QED
    BY <1>13, <2>1 DEF vars, WriterTypes
<1>14. QED
  BY <1>1, <1>2, <1>3, <1>4, <1>5, <1>6, <1>7, <1>8, <1>9, <1>10, <1>11, <1>12, <1>13 DEF Next, Writer, Sender

-----------------------------------------------------------------------------
(* What is on its way to a connection: sent, in the hand of the sender, or *)
(* in the queue.                                                            *)

Line(q) == sent[q] \o InHand(q) \o queue[q]

Carried(q, w) ==
  IF open[q] THEN By(Line(q), w) \o Part(Unwritten(w), q) = Part(program[w], q)
  ELSE IsPrefix(By(sent[q], w), Part(program[w], q))

(* A step that moves nothing: a connection that is open keeps its line, a   *)
(* broken one what was sent, and no writer's remainder changes.            *)
Still(q) == IF open[q] THEN Line(q)' = Line(q) ELSE sent'[q] = sent[q]

LEMMA CarriedSame ==
  ASSUME NEW q, NEW w, program' = program, open'[q] = open[q], Still(q),
         Unwritten(w)' = Unwritten(w), Carried(q, w)
  PROVE  Carried(q, w)'
<1>1. Writes' = Writes /\ Blocks' = Blocks
  BY SameProgram
<1>2. \A s : By(s, w)' = By(s, w)
  BY <1>1 DEF By
<1>3. \A p : Part(p, q)' = Part(p, q)
  BY <1>1 DEF Part, Writes
<1>4. CASE open[q]
  BY <1>1, <1>4 DEF Carried, Still, By, Part, Writes
<1>5. CASE ~open[q]
  BY <1>1, <1>5 DEF Carried, Still, By, Part, Writes
<1>6. QED
  BY <1>4, <1>5

LEMMA LineTypes ==
  ASSUME WriterTypes, NEW q \in Queues
  PROVE  /\ sent[q] \in Seq(Blocks) /\ queue[q] \in Seq(Blocks)
         /\ InHand(q) \in Seq(Blocks) /\ Line(q) \in Seq(Blocks)
<1>1. sent[q] \in Seq(Blocks) /\ queue[q] \in Seq(Blocks)
  BY DEF WriterTypes
<1>2. InHand(q) \in Seq(Blocks)
  BY DEF WriterTypes, InHand
<1>3. QED
  BY <1>1, <1>2 DEF Line

(* Every step but a writer's enqueue and a break. *)
LEMMA StillSteps ==
  ASSUME WriterTypes, NEW w \in Writers, NEW q \in Queues,
         \/ WriterLock(w) \/ WriterSignal(w) \/ WriterUnlock(w)
         \/ SenderLock(q) \/ SenderWait(q) \/ SenderDequeue(q) \/ SenderUnlock(q)
         \/ SenderSend(q) \/ SigPipe(q) \/ SpuriousWakeup(q) \/ UNCHANGED vars
  PROVE  /\ program' = program /\ open' = open
         /\ \A r \in Queues : Still(r)
         /\ \A v \in Writers : Unwritten(v)' = Unwritten(v)
<1> DEFINE G == /\ program' = program /\ open' = open
                /\ \A r \in Queues : Still(r)
                /\ \A v \in Writers : Unwritten(v)' = Unwritten(v)
<1>1. CASE WriterLock(w)
  <2>1. /\ program' = program /\ open' = open /\ queue' = queue /\ sent' = sent
        /\ buf' = buf
    BY <1>1 DEF WriterLock, env
  <2>2. \A r \in Queues : pc'[r] = pc[r]
    BY <1>1, WriterAssumption DEF WriterLock, WriterTypes
  <2>3. \A r \in Queues : Still(r)
    BY <2>1, <2>2 DEF Still, Line, InHand
  <2>4. \A v \in Writers : Unwritten(v)' = Unwritten(v)
    BY <1>1 DEF WriterLock, WriterTypes, Unwritten
  <2>5. QED
    BY <2>1, <2>3, <2>4
<1>2. CASE WriterSignal(w)
  <2>1. Target(w) \in Queues
    BY <1>2, HeadTypes DEF WriterSignal, WriterTypes, Target
  <2>2. QED
    BY <1>2, <2>1, WriterAssumption DEF WriterSignal, env, WriterTypes, Still, Line, InHand, Unwritten
<1>3. CASE WriterUnlock(w)
  <2>1. /\ program' = program /\ open' = open /\ queue' = queue /\ sent' = sent
        /\ buf' = buf
    BY <1>3 DEF WriterUnlock, env
  <2>2. \A r \in Queues : pc'[r] = pc[r]
    BY <1>3, WriterAssumption DEF WriterUnlock, WriterTypes
  <2>3. \A r \in Queues : Still(r)
    BY <2>1, <2>2 DEF Still, Line, InHand
  <2>4. \A v \in Writers : Unwritten(v)' = Unwritten(v)
    BY <1>3 DEF WriterUnlock, WriterTypes, Unwritten
  <2>5. QED
    BY <2>1, <2>3, <2>4
<1>4. CASE SenderLock(q)
  BY <1>4, WriterAssumption DEF SenderLock, env, WriterTypes, Still, Line, InHand, Unwritten
<1>5. CASE SenderWait(q)
  BY <1>5, WriterAssumption DEF SenderWait, env, WriterTypes, Still, Line, InHand, Unwritten
<1>6. CASE SenderUnlock(q)
  <2>1. /\ program' = program /\ open' = open /\ queue' = queue /\ sent' = sent
        /\ buf' = buf /\ todo' = todo
    BY <1>6 DEF SenderUnlock, env
  <2>2. \A r \in Queues : InHand(r)' = InHand(r)
    BY <1>6 DEF SenderUnlock, WriterTypes, InHand
  <2>3. \A r \in Queues : Still(r)
    BY <2>1, <2>2 DEF Still, Line
  <2>4. \A v \in Writers : Unwritten(v)' = Unwritten(v)
    BY <1>6, <2>1, WriterAssumption DEF SenderUnlock, WriterTypes, Unwritten
  <2>5. QED
    BY <2>1, <2>3, <2>4
<1>7. CASE SigPipe(q)
  BY <1>7, WriterAssumption DEF SigPipe, WriterTypes, Still, Line, InHand, Unwritten
<1>8. CASE SpuriousWakeup(q)
  BY <1>8, WriterAssumption DEF SpuriousWakeup, env, WriterTypes, Still, Line, InHand, Unwritten
<1>9. CASE UNCHANGED vars
  BY <1>9 DEF vars, Still, Line, InHand, Unwritten
<1>10. CASE SenderDequeue(q)
  <2>1. /\ queue[q] # <<>> /\ queue'[q] = Tail(queue[q]) /\ sent' = sent
        /\ program' = program /\ open' = open /\ todo' = todo
        /\ InHand(q) = <<>> /\ InHand(q)' = <<Head(queue[q])>>
    BY <1>10 DEF SenderDequeue, WriterTypes, InHand, env
  <2>2. Line(q)' = Line(q)
    <3> DEFINE s == sent[q]
               u == queue[q]
    <3>1. s \in Seq(Blocks) /\ u \in Seq(Blocks) /\ u # <<>>
      BY <2>1, LineTypes
    <3> HIDE DEF s, u
    <3>2. (s \o <<Head(u)>>) \o Tail(u) = (s \o <<>>) \o u
      BY <3>1
    <3>3. QED
      BY <2>1, <3>2 DEF Line, s, u
  <2>3. \A r \in Queues : r # q => queue'[r] = queue[r] /\ InHand(r)' = InHand(r)
    BY <1>10 DEF SenderDequeue, WriterTypes, InHand
  <2>4. \A r \in Queues : Line(r)' = Line(r)
    BY <2>1, <2>2, <2>3 DEF Line
  <2>5. \A v \in Writers : Unwritten(v)' = Unwritten(v)
    BY <1>10, <2>1, WriterAssumption DEF SenderDequeue, WriterTypes, Unwritten
  <2>6. QED
    BY <2>1, <2>4, <2>5 DEF Still
<1>11. CASE SenderSend(q)
  <2>1. /\ queue' = queue /\ program' = program /\ open' = open /\ todo' = todo
        /\ InHand(q) = <<buf[q]>> /\ InHand(q)' = <<>> /\ buf[q] \in Blocks
        /\ sent'[q] = IF open[q] THEN Append(sent[q], buf[q]) ELSE sent[q]
    BY <1>11 DEF SenderSend, WriterTypes, InHand, env
  <2>2. Still(q)
    <3> DEFINE s == sent[q]
               u == queue[q]
               b == buf[q]
    <3>1. s \in Seq(Blocks) /\ u \in Seq(Blocks) /\ b \in Blocks
      BY <2>1, LineTypes
    <3> HIDE DEF s, u, b
    <3>2. (Append(s, b) \o <<>>) \o u = (s \o <<b>>) \o u
      BY <3>1
    <3>3. QED
      BY <2>1, <3>2 DEF Still, Line, s, u, b
  <2>3. \A r \in Queues : r # q => sent'[r] = sent[r] /\ InHand(r)' = InHand(r)
    BY <1>11 DEF SenderSend, WriterTypes, InHand
  <2>4. \A r \in Queues : r # q => Still(r)
    BY <2>1, <2>3 DEF Still, Line
  <2>5. \A v \in Writers : Unwritten(v)' = Unwritten(v)
    BY <1>11, <2>1, WriterAssumption DEF SenderSend, WriterTypes, Unwritten
  <2>6. QED
    BY <2>1, <2>2, <2>4, <2>5
<1>12. QED
  BY <1>1, <1>2, <1>3, <1>4, <1>5, <1>6, <1>7, <1>8, <1>9, <1>10, <1>11

(* What a connection carries, and what is still to be written to it, after  *)
(* a step.                                                                  *)
LEMMA CarriedNext ==
  ASSUME NEW q, NEW w, program' = program
  PROVE  Carried(q, w)' =
           IF open'[q] THEN By(Line(q)', w) \o Part(Unwritten(w)', q) = Part(program[w], q)
           ELSE IsPrefix(By(sent'[q], w), Part(program[w], q))
<1>1. Writes' = Writes /\ Blocks' = Blocks
  BY SameProgram
<1>2. QED
  BY <1>1 DEF Carried, By, Part, Writes

LEMMA EnqueueCarries ==
  ASSUME WriterTypes, NEW w \in Writers, WriterEnqueue(w),
         NEW q \in Queues, NEW v \in Writers, Carried(q, v)
  PROVE  Carried(q, v)'
<1> DEFINE b == Head(todo[w]).block
           rest == todo[w]
           L == Line(q)
<1>1. rest # <<>> /\ Target(w) \in Queues /\ b \in Blocks /\ b.by = w /\ rest \in Seq(Writes)
      /\ Tail(rest) \in Seq(Writes)
  BY HeadTypes DEF WriterEnqueue, WriterTypes, Target
<1>2. /\ program' = program /\ open' = open /\ sent' = sent /\ todo' = todo
      /\ queue' = [queue EXCEPT ![Target(w)] = Append(@, b)]
      /\ \A r \in Queues : InHand(r)' = InHand(r)
  BY WriterAssumption DEF WriterEnqueue, WriterTypes, InHand, env
<1>3. Unwritten(w) = rest /\ Unwritten(w)' = Tail(rest)
      /\ (v # w => Unwritten(v)' = Unwritten(v))
  BY <1>2, WriterAssumption DEF WriterEnqueue, WriterTypes, Unwritten
<1>4. sent[q] \in Seq(Blocks) /\ queue[q] \in Seq(Blocks) /\ InHand(q) \in Seq(Blocks)
      /\ L \in Seq(Blocks)
  BY LineTypes
<1>5. CASE ~open[q]
  BY <1>2, <1>5, CarriedNext DEF Carried
<1>6. CASE open[q] /\ q # Target(w)
  <2>1. Line(q)' = L
    BY <1>2, <1>6 DEF WriterTypes, Line
  <2>2. v = w => Part(rest, q) = Part(Tail(rest), q)
    BY <1>1, <1>6, PartCons DEF Target
  <2>3. Part(Unwritten(v)', q) = Part(Unwritten(v), q)
    BY <1>3, <2>2
  <2>4. By(Line(q)', v) \o Part(Unwritten(v)', q) = Part(program[v], q)
    BY <1>6, <2>1, <2>3 DEF Carried
  <2>5. QED
    BY <1>2, <1>6, <2>4, CarriedNext
<1>7. CASE open[q] /\ q = Target(w)
  <2>1. Line(q)' = L \o <<b>>
    <3> DEFINE a == sent[q]
               c == queue[q]
               i == InHand(q)
    <3>1. queue'[q] = Append(c, b)
      BY <1>2, <1>7 DEF WriterTypes
    <3>2. a \in Seq(Blocks) /\ c \in Seq(Blocks) /\ i \in Seq(Blocks) /\ b \in Blocks
      BY <1>1, <1>4
    <3>3. Line(q)' = a \o i \o Append(c, b) /\ L = a \o i \o c
      BY <1>2, <3>1 DEF Line
    <3> HIDE DEF a, c, i, b, L
    <3>4. a \o i \in Seq(Blocks) /\ <<b>> \in Seq(Blocks)
      BY <3>2
    <3>5. Append(c, b) = c \o <<b>>
      BY <3>2, AppendIsConcat
    <3>6. (a \o i) \o (c \o <<b>>) = ((a \o i) \o c) \o <<b>>
      BY <3>2, <3>4, ConcatAssociative
    <3>7. QED
      BY <3>3, <3>5, <3>6
  <2>2. By(Line(q)', v) = By(L, v) \o (IF v = w THEN <<b>> ELSE <<>>)
    <3> DEFINE g == <<b>>
    <3>1. g \in Seq(Blocks) /\ By(g, v) = IF v = w THEN g ELSE <<>>
      BY <1>1, ByOne
    <3> HIDE DEF g, L, b
    <3>2. By(Cat(L, g), v) = Cat(By(L, v), By(g, v))
      BY <1>4, <3>1, ByCat
    <3>3. QED
      BY <2>1, <3>1, <3>2 DEF g, Cat
  <2>3. By(L, v) \o Part(Unwritten(v), q) = Part(program[v], q) /\ By(L, v) \in Seq(Blocks)
    BY <1>4, <1>7, ByType DEF Carried
  <2>4. CASE v # w
    <3>1. By(L, v) \o <<>> = By(L, v)
      BY <2>3
    <3>2. By(Line(q)', v) \o Part(Unwritten(v)', q) = Part(program[v], q)
      BY <1>3, <2>2, <2>3, <2>4, <3>1
    <3>3. QED
      BY <1>2, <1>7, <3>2, CarriedNext
  <2>5. CASE v = w
    <3> DEFINE y == By(L, w)
               r == Part(Tail(rest), q)
               g == <<b>>
    <3>1. Part(rest, q) = g \o r
      BY <1>1, <1>7, PartCons DEF Target
    <3>2. y \in Seq(Blocks) /\ r \in Seq(Blocks) /\ g \in Seq(Blocks)
      <4>1. \A z \in Seq(Writes) : Part(z, q) \in Seq(Blocks)
        BY PartType
      <4>2. r \in Seq(Blocks)
        BY <1>1, <4>1
      <4>3. g \in Seq(Blocks)
        BY <1>1
      <4>4. y \in Seq(Blocks)
        BY <2>3, <2>5
      <4>5. QED
        BY <4>2, <4>3, <4>4
    <3>3. y \o (g \o r) = Part(program[w], q)
      BY <1>3, <2>3, <2>5, <3>1
    <3>4. By(Line(q)', w) = y \o g
      BY <2>2, <2>5
    <3>5. Part(Unwritten(w)', q) = r
      BY <1>3
    <3> HIDE DEF y, r, g
    <3>6. (y \o g) \o r = y \o (g \o r)
      BY <3>2, ConcatAssociative
    <3>7. By(Line(q)', w) \o Part(Unwritten(w)', q) = Part(program[w], q)
      BY <3>3, <3>4, <3>5, <3>6
    <3>8. QED
      BY <1>2, <1>7, <2>5, <3>7, CarriedNext
  <2>6. QED
    BY <2>4, <2>5
<1>8. QED
  BY <1>5, <1>6, <1>7

LEMMA BreakCarries ==
  ASSUME WriterTypes, NEW p \in Queues, Break(p),
         NEW q \in Queues, NEW w \in Writers, Carried(q, w)
  PROVE  Carried(q, w)'
<1>1. /\ program' = program /\ sent' = sent
      /\ (q = p => open[q] /\ ~open'[q]) /\ (q # p => open'[q] = open[q])
      /\ Line(q)' = Line(q) /\ Unwritten(w)' = Unwritten(w)
  BY DEF Break, WriterTypes, Line, InHand, Unwritten
<1>2. CASE q # p
  BY <1>1, <1>2, CarriedSame DEF Still
<1>3. CASE q = p
  <2> DEFINE a == sent[q]
             i == InHand(q)
             c == queue[q]
             y == By(a, w)
             z == By(i, w)
             x == By(c, w)
             r == Part(Unwritten(w), q)
  <2>1. a \in Seq(Blocks) /\ i \in Seq(Blocks) /\ c \in Seq(Blocks)
    BY LineTypes
  <2>2. Unwritten(w) \in Seq(Writes)
    BY HeadTypes DEF WriterTypes, Unwritten
  <2>3. r \in Seq(Blocks)
    BY <2>2, PartType
  <2>4. By((a \o i) \o c, w) \o r = Part(program[w], q)
    BY <1>1, <1>3 DEF Carried, Line
  <2> HIDE DEF a, i, c, r
  <2>5. y \in Seq(Blocks) /\ z \in Seq(Blocks) /\ x \in Seq(Blocks) /\ a \o i \in Seq(Blocks)
    BY <2>1, ByType
  <2>6. By(Cat(Cat(a, i), c), w) = Cat(Cat(y, z), x)
    <3>1. Cat(a, i) \in Seq(Blocks)
      BY <2>1, CatLaws
    <3>2. By(Cat(Cat(a, i), c), w) = Cat(By(Cat(a, i), w), By(c, w))
      BY <2>1, <3>1, ByCat
    <3>3. By(Cat(a, i), w) = Cat(By(a, w), By(i, w))
      BY <2>1, ByCat
    <3>4. QED
      BY <3>2, <3>3
  <2> HIDE DEF y, z, x
  <2>7. ((y \o z) \o x) \o r = y \o (z \o (x \o r))
    <3>1. Cat(y, z) \in Seq(Blocks) /\ Cat(x, r) \in Seq(Blocks)
      BY <2>3, <2>5, CatLaws
    <3>2. Cat(Cat(Cat(y, z), x), r) = Cat(Cat(y, z), Cat(x, r))
      BY <2>3, <2>5, <3>1, CatLaws
    <3>3. Cat(Cat(y, z), Cat(x, r)) = Cat(y, Cat(z, Cat(x, r)))
      BY <2>3, <2>5, <3>1, CatLaws
    <3>4. QED
      BY <3>2, <3>3, Zenon DEF Cat
  <2>8. z \o (x \o r) \in Seq(Blocks)
    BY <2>3, <2>5
  <2>9. IsPrefix(y, y \o (z \o (x \o r)))
    BY <2>5, <2>8, ConcatIsPrefix
  <2>10. IsPrefix(y, Part(program[w], q))
    BY <2>4, <2>6, <2>7, <2>9, Zenon DEF Cat
  <2>11. QED
    BY <1>1, <1>3, <2>10, CarriedNext DEF y, a
<1>4. QED
  BY <1>2, <1>3

-----------------------------------------------------------------------------
(* The invariant as a whole *)

WriterInv == WriterTypes /\ \A q \in Queues, w \in Writers : Carried(q, w)

LEMMA InitCarries ==
  ASSUME Init, WriterTypes
  PROVE  \A q \in Queues, w \in Writers : Carried(q, w)
<1> SUFFICES ASSUME NEW q \in Queues, NEW w \in Writers PROVE Carried(q, w)
  OBVIOUS
<1>1. /\ sent[q] = <<>> /\ InHand(q) = <<>> /\ queue[q] = <<>>
      /\ Unwritten(w) = program[w] /\ open[q]
  BY DEF Init, InHand, Unwritten
<1>2. Line(q) = <<>>
  BY <1>1 DEF Line
<1>3. By(<<>>, w) = <<>>
  BY OnlyEmpty DEF By
<1>4. program[w] \in Seq(Writes)
  BY ProgramTypes DEF WriterTypes
<1>5. Part(program[w], q) \in Seq(Blocks)
  BY <1>4, PartType
<1>6. <<>> \o Part(program[w], q) = Part(program[w], q)
  BY <1>5
<1>7. QED
  BY <1>1, <1>2, <1>3, <1>6 DEF Carried

LEMMA NextCarries ==
  ASSUME WriterInv, [Next]_vars, NEW q \in Queues, NEW w \in Writers
  PROVE  Carried(q, w)'
<1>1. WriterTypes /\ Carried(q, w)
  BY DEF WriterInv
<1> DEFINE Quiet == /\ program' = program /\ open' = open
                    /\ \A r \in Queues : Still(r)
                    /\ \A v \in Writers : Unwritten(v)' = Unwritten(v)
<1>2. ASSUME Quiet PROVE Carried(q, w)'
  BY <1>1, <1>2, CarriedSame
<1> HIDE DEF Quiet
<1>3. ASSUME NEW v \in Writers, Writer(v) PROVE Carried(q, w)'
  <2>1. CASE WriterEnqueue(v)
    BY <1>1, <2>1, EnqueueCarries
  <2>2. CASE WriterLock(v) \/ WriterSignal(v) \/ WriterUnlock(v)
    <3>1. Quiet
      BY <1>1, <2>2, StillSteps DEF Quiet
    <3>2. QED
      BY <1>2, <3>1
  <2>3. QED
    BY <1>3, <2>1, <2>2 DEF Writer
<1>4. ASSUME NEW p \in Queues, Sender(p) \/ SpuriousWakeup(p) PROVE Carried(q, w)'
  <2>1. Quiet
    BY <1>1, <1>4, StillSteps DEF Quiet, Sender
  <2>2. QED
    BY <1>2, <2>1
<1>5. ASSUME NEW p \in Queues, Break(p) PROVE Carried(q, w)'
  BY <1>1, <1>5, BreakCarries
<1>6. CASE UNCHANGED vars
  <2>1. Quiet
    BY <1>1, <1>6, StillSteps DEF Quiet
  <2>2. QED
    BY <1>2, <2>1
<1>7. QED
  BY <1>3, <1>4, <1>5, <1>6 DEF Next

LEMMA WriterInvariant == Spec => []WriterInv
<1>1. Init => WriterInv
  BY WriterInit, InitCarries DEF WriterInv
<1>2. WriterInv /\ [Next]_vars => WriterInv'
  <2> SUFFICES ASSUME WriterInv, [Next]_vars PROVE WriterInv'
    OBVIOUS
  <2>1. WriterTypes'
    BY WriterTypesStep DEF WriterInv
  <2>2. \A q \in Queues, w \in Writers : Carried(q, w)'
    BY NextCarries
  <2>3. QED
    BY <2>1, <2>2 DEF WriterInv
<1>3. QED
  BY <1>1, <1>2, PTL DEF Spec

(* The types of the sending side (multiplex_writer.c:32-68), for any number *)
(* of queues, writer threads and blocks: a sender that was woken looks at   *)
(* its queue again, so what it sends is always a block.                     *)
THEOREM WriterTypeCorrect == Spec => []TypeOK
<1>1. WriterInv => TypeOK
  <2> SUFFICES ASSUME WriterInv PROVE TypeOK
    OBVIOUS
  <2>1. \A w \in Writers : Suffix(todo[w], program[w])
    BY DEF WriterInv, WriterTypes
  <2>2. QED
    BY <2>1 DEF WriterInv, WriterTypes, TypeOK, Suffix
<1>2. QED
  BY <1>1, WriterInvariant, PTL

(* However many threads write to however many queues (write_block_to_queue, *)
(* listen_for_blocks), a connection carries the blocks of each writer that  *)
(* are meant for it, in the order that writer wrote them, and a broken one  *)
(* a prefix of them.                                                        *)
THEOREM QueuesCarryInOrder == Spec => []CarriesInOrder
<1>1. WriterInv => CarriesInOrder
  <2> SUFFICES ASSUME WriterInv PROVE CarriesInOrder
    OBVIOUS
  <2>1. \A q \in Queues, w \in Writers : Carried(q, w)
    BY DEF WriterInv
  <2>2. QED
    BY <2>1, Zenon DEF CarriesInOrder, Carried, Line
<1>2. QED
  BY <1>1, WriterInvariant, PTL

=============================================================================
