---------------------------- MODULE HashTableProofs ----------------------------
(***************************************************************************)
(* The proof that the hash table keeps its readers and writers apart, its  *)
(* chains well formed and its count right, and that it implements the      *)
(* atomic map, for any number of threads, keys, values and buckets.        *)
(***************************************************************************)
EXTENDS HashTable, FiniteSetTheorems, SequenceTheorems, WellFoundedInduction, TLAPS

-----------------------------------------------------------------------------
(* The inductive invariant                                                  *)

(* Which operation o a thread is in, at step s. *)
OpAt(s, o) ==
  /\ o \in {"idle", "insert", "lookup", "remove"} /\ s \in Steps
  /\ s = "idle" <=> o = "idle"
  /\ s \in {"enter_wait", "enter", "enter_wrt", "enter_post", "leave_wait",
            "leave", "leave_post"} => o = "lookup"
  /\ s \in {"resize", "iterate", "transfer", "free_new", "count", "push", "replace"}
       => o = "insert"
  /\ s = "uncount" => o = "remove"
  /\ s \in {"write_wait", "write_post"} => o \in {"insert", "remove"}

(* An operation has its arguments a, and a result x only once it is over. *)
ArgType == [key : KeySet \cup {-1}, value : Values \cup {NoValue}]
ResultType == [ret : -1 .. 2, value : Values \cup {NoValue}]
OverAt == {"uncount", "write_post", "leave_wait", "leave", "leave_post"}

ArgAt(s, o, a, x) ==
  /\ a \in ArgType /\ x \in ResultType
  /\ o # "idle" => a.key \in KeySet
  /\ o = "insert" => a.value \in Values
  /\ s \notin OverAt => x = NoResult

Ops == {"idle", "insert", "lookup", "remove"}

LocalTypes ==
  /\ pc \in [Threads -> Steps] /\ op \in [Threads -> Ops]
  /\ arg \in [Threads -> ArgType] /\ pos \in [Threads -> Nat]
  /\ result \in [Threads -> ResultType]

Locals ==
  /\ LocalTypes
  /\ \A t \in Threads : OpAt(pc[t], op[t]) /\ ArgAt(pc[t], op[t], arg[t], result[t])

(* The semaphores: mutex is held by one lookup on its way in or out, wrt by *)
(* one writer or by the lookups that readcount counts, together.            *)
MutexSteps == {"enter", "enter_wrt", "enter_post", "leave", "leave_post"}
Counted == Inside \cup {t \in Threads : pc[t] = "enter_wrt"}

Locking ==
  /\ mutex \in {0, 1} /\ wrt \in {0, 1}
  /\ mutex = 1 => \A t \in Threads : pc[t] \notin MutexSteps
  /\ \A t, u \in Threads : pc[t] \in MutexSteps /\ pc[u] \in MutexSteps => t = u
  /\ wrt = 1 <=> Writers = {} /\ Inside = {}
  /\ \A t, u \in Writers : t = u
  /\ Writers = {} \/ Inside = {}
  /\ readcount = Cardinality(Counted)

(* The chains: their pairs are in the right buckets and differ in their     *)
(* keys; find has passed no node of the key, and finds it or it is absent.  *)
Chains ==
  /\ buckets \in [0 .. NumBuckets - 1 -> Seq(Pairs)]
  /\ \A b \in 0 .. NumBuckets - 1 :
       /\ \A i \in 1 .. Len(buckets[b]) : HashKeyToBucketNum(buckets[b][i].key) = b
       /\ \A i, j \in 1 .. Len(buckets[b]) : buckets[b][i].key = buckets[b][j].key => i = j

WalkOK(t) ==
  /\ pc[t] = "walk" => /\ pos[t] \in 1 .. Len(Chain(t))
                       /\ \A i \in 1 .. pos[t] - 1 : Chain(t)[i].key # arg[t].key
  /\ pc[t] \in {"count", "push"} =>
       \A i \in 1 .. Len(Chain(t)) : Chain(t)[i].key # arg[t].key
  /\ pc[t] = "replace" => /\ pos[t] \in 1 .. Len(Chain(t))
                          /\ Chain(t)[pos[t]].key = arg[t].key

(* The count runs one ahead while a pair is being added or taken out. *)
Ahead == IF \E t \in Threads : pc[t] \in {"push", "uncount"} THEN 1 ELSE 0

CountOK ==
  /\ num_elements \in Nat /\ IsFiniteSet(Places)
  /\ num_elements >= Stored + Ahead
  /\ ~MayRunOut => num_elements = Stored + Ahead

(* The resize: it has inserted nothing or, without ever reading the         *)
(* iterator, one pair; and if it was through after one, there was but one.  *)
FirstNode(g) == g.valid /\ UsedFrom(0) # {} /\ g.bucket = FirstFrom(0) /\ g.node = 1

GrowthType ==
  [valid : BOOLEAN, bucket : 0 .. NumBuckets - 1, node : Nat, inserted : {0, 1}]

GrowthOK ==
  /\ growth \in GrowthType
  /\ growth.valid => growth.node \in 1 .. Len(buckets[growth.bucket])
  /\ (\A t \in Threads : pc[t] \notin {"transfer", "free_new"}) => growth = NoGrowth
  /\ \A t \in Threads :
       /\ pc[t] \in {"iterate", "transfer"} => num_elements >= 3 * NumBuckets
       /\ pc[t] = "iterate" => growth = NoGrowth
       /\ pc[t] = "transfer" => \/ growth.inserted = 0 /\ FirstNode(growth)
                                \/ growth.inserted = 1 /\ (growth.valid \/ Stored <= 1)
  /\ fault => num_elements > Stored

TableInv ==
  /\ Locals /\ Locking /\ Chains
  /\ \A t \in Threads : WalkOK(t)
  /\ CountOK /\ GrowthOK

-----------------------------------------------------------------------------
(* A step of thread t takes it to step s, in operation o, with the          *)
(* arguments a, the position p and the result x.                            *)

Moves(t, s, o, a, p, x) ==
  /\ LocalTypes'
  /\ pc'[t] = s /\ op'[t] = o /\ arg'[t] = a /\ pos'[t] = p /\ result'[t] = x
  /\ \A u \in Threads \ {t} :
       /\ pc'[u] = pc[u] /\ op'[u] = op[u] /\ arg'[u] = arg[u]
       /\ pos'[u] = pos[u] /\ result'[u] = result[u]

LEMMA LocalsStep ==
  ASSUME Locals, NEW t \in Threads, NEW s, NEW o, NEW a, NEW p, NEW x,
         Moves(t, s, o, a, p, x), OpAt(s, o), ArgAt(s, o, a, x)
  PROVE  Locals'
BY DEF Locals, Moves

LEMMA InitLocals == Init => Locals
BY DEF Init, Locals, LocalTypes, OpAt, ArgAt, ArgType, ResultType, Ops, Steps,
   NoArg, NoResult, NoValue, OverAt

(* Every step is such a move; Goes leaves all but the step alone. *)
Goes(t, s) == Moves(t, s, op[t], arg[t], pos[t], result[t])

LEMMA GoesTo ==
  ASSUME Locals, NEW t \in Threads, NEW s \in Steps, Goto(t, s), UNCHANGED locals
  PROVE  Goes(t, s)
BY DEF Locals, LocalTypes, Goto, locals, Goes, Moves

LEMMA Stays ==
  ASSUME Locals, NEW t \in Threads, UNCHANGED <<pc, locals>>
  PROVE  Goes(t, pc[t])
BY DEF Locals, LocalTypes, locals, Goes, Moves

LEMMA Resulting ==
  ASSUME Locals, NEW t \in Threads, NEW s \in Steps, NEW ret \in -1 .. 2,
         NEW v \in Values \cup {NoValue},
         Goto(t, s), Result(t, ret, v), UNCHANGED <<op, arg, pos>>
  PROVE  Moves(t, s, op[t], arg[t], pos[t], [ret |-> ret, value |-> v])
BY DEF Locals, LocalTypes, ResultType, Goto, Result, Moves

LEMMA Walking ==
  ASSUME Locals, NEW t \in Threads, NEW s \in Steps, NEW p \in Nat,
         Goto(t, s) \/ (s = pc[t] /\ pc' = pc), pos' = [pos EXCEPT ![t] = p],
         UNCHANGED <<op, arg, result>>
  PROVE  Moves(t, s, op[t], arg[t], p, result[t])
BY DEF Locals, LocalTypes, Goto, Moves

LEMMA Returning ==
  ASSUME Locals, NEW t \in Threads, Return(t)
  PROVE  Moves(t, "idle", "idle", NoArg, 0, NoResult)
BY DEF Locals, LocalTypes, Return, Goto, Moves, NoArg, NoResult, ArgType,
   ResultType, Ops, Steps, NoValue

LEMMA Calling ==
  ASSUME Locals, NEW t \in Threads, NEW s \in Steps, NEW o \in Ops, NEW a \in ArgType,
         Goto(t, s), op' = [op EXCEPT ![t] = o], arg' = [arg EXCEPT ![t] = a],
         UNCHANGED <<pos, result>>
  PROVE  Moves(t, s, o, a, pos[t], result[t])
BY DEF Locals, LocalTypes, Goto, Moves

-----------------------------------------------------------------------------
(* The semaphores                                                           *)

WriterAt(s, o) == s \in Writing \/ (s \in {"find", "walk"} /\ o # "lookup")
InsideAt(s, o) == o = "lookup" /\ s \in {"enter_post", "find", "walk", "leave_wait", "leave"}
CountedAt(s, o) == InsideAt(s, o) \/ s = "enter_wrt"

LEMMA Roles ==
  ASSUME NEW u
  PROVE  /\ u \in Writers <=> u \in Threads /\ WriterAt(pc[u], op[u])
         /\ u \in Inside <=> u \in Threads /\ InsideAt(pc[u], op[u])
         /\ u \in Counted <=> u \in Threads /\ CountedAt(pc[u], op[u])
BY DEF Writers, Inside, Counted, WriterAt, InsideAt, CountedAt

LEMMA RolesStep ==
  ASSUME NEW t \in Threads, NEW s, NEW o, NEW a, NEW p, NEW x, Moves(t, s, o, a, p, x),
         NEW u
  PROVE  /\ u \in Writers' <=> IF u = t THEN WriterAt(s, o) ELSE u \in Writers
         /\ u \in Inside' <=> IF u = t THEN InsideAt(s, o) ELSE u \in Inside
         /\ u \in Counted' <=> IF u = t THEN CountedAt(s, o) ELSE u \in Counted
<1>1. /\ u \in Writers' <=> u \in Threads /\ WriterAt(pc'[u], op'[u])
      /\ u \in Inside' <=> u \in Threads /\ InsideAt(pc'[u], op'[u])
      /\ u \in Counted' <=> u \in Threads /\ CountedAt(pc'[u], op'[u])
  BY DEF Writers, Inside, Counted, WriterAt, InsideAt, CountedAt
<1>2. u \in Threads /\ u # t => pc'[u] = pc[u] /\ op'[u] = op[u]
  BY DEF Moves
<1>3. pc'[t] = s /\ op'[t] = o
  BY DEF Moves
<1>4. QED
  BY <1>1, <1>2, <1>3, Roles

LEMMA CountedFinite ==
  /\ Counted \subseteq Threads /\ IsFiniteSet(Counted)
  /\ Cardinality(Counted) \in Nat /\ Cardinality(Counted) <= Cardinality(Threads)
  /\ Cardinality(Counted) = 0 <=> Counted = {}
<1>1. Counted \subseteq Threads
  BY Roles
<1>2. QED
  BY <1>1, TableAssumption, FS_Subset, FS_CardinalityType, FS_EmptySet

(* A thread that keeps its part in the protocol. *)
LEMMA RoleKept ==
  ASSUME Locking, NEW t \in Threads, NEW s, NEW o, NEW a, NEW p, NEW x,
         Moves(t, s, o, a, p, x),
         WriterAt(s, o) <=> WriterAt(pc[t], op[t]),
         InsideAt(s, o) <=> InsideAt(pc[t], op[t]),
         CountedAt(s, o) <=> CountedAt(pc[t], op[t]),
         s \in MutexSteps <=> pc[t] \in MutexSteps,
         UNCHANGED <<wrt, mutex, readcount>>
  PROVE  Locking'
<1>1. Writers' = Writers /\ Inside' = Inside /\ Counted' = Counted
  <2>1. \A u : (u \in Writers' <=> u \in Writers) /\ (u \in Inside' <=> u \in Inside)
               /\ (u \in Counted' <=> u \in Counted)
    BY RolesStep, Roles
  <2>2. QED
    BY <2>1
<1>2. \A u \in Threads : pc'[u] \in MutexSteps <=> pc[u] \in MutexSteps
  BY DEF Moves
<1>3. QED
  BY <1>1, <1>2 DEF Locking

(* WriteWait takes wrt when nobody is at the table. *)
LEMMA WriteLocked ==
  ASSUME Locking, NEW t \in Threads, NEW s, NEW o, NEW a, NEW p, NEW x,
         Moves(t, s, o, a, p, x),
         WriterAt(s, o), ~CountedAt(s, o), ~CountedAt(pc[t], op[t]),
         s \notin MutexSteps, pc[t] \notin MutexSteps,
         wrt > 0, wrt' = wrt - 1, UNCHANGED <<mutex, readcount>>
  PROVE  Locking'
<1>1. wrt = 1 /\ wrt' = 0 /\ Writers = {} /\ Inside = {}
  BY DEF Locking
<1>2. Writers' = {t} /\ Inside' = {} /\ Counted' = Counted
  BY <1>1, RolesStep, Roles DEF CountedAt
<1>3. \A u \in Threads : pc'[u] \in MutexSteps <=> pc[u] \in MutexSteps
  BY DEF Moves
<1>4. QED
  BY <1>1, <1>2, <1>3 DEF Locking

LEMMA WriteUnlocked ==
  ASSUME Locking, NEW t \in Threads, NEW s, NEW o, NEW a, NEW p, NEW x,
         Moves(t, s, o, a, p, x),
         WriterAt(pc[t], op[t]), ~WriterAt(s, o),
         ~CountedAt(s, o), ~CountedAt(pc[t], op[t]),
         s \notin MutexSteps, pc[t] \notin MutexSteps,
         wrt' = wrt + 1, UNCHANGED <<mutex, readcount>>
  PROVE  Locking'
<1>1. t \in Writers
  BY Roles
<1>2. wrt = 0 /\ wrt' = 1 /\ Inside = {} /\ Writers = {t}
  BY <1>1 DEF Locking
<1>3. Writers' = {} /\ Inside' = {} /\ Counted' = Counted
  BY <1>2, RolesStep, Roles DEF CountedAt
<1>4. \A u \in Threads : pc'[u] \in MutexSteps <=> pc[u] \in MutexSteps
  BY DEF Moves
<1>5. QED
  BY <1>2, <1>3, <1>4 DEF Locking

(* mutex passes to the thread, or back. *)
LEMMA MutexLocked ==
  ASSUME Locking, NEW t \in Threads, NEW s, NEW o, NEW a, NEW p, NEW x,
         Moves(t, s, o, a, p, x),
         ~WriterAt(s, o), ~WriterAt(pc[t], op[t]),
         InsideAt(s, o) <=> InsideAt(pc[t], op[t]),
         CountedAt(s, o) <=> CountedAt(pc[t], op[t]),
         s \in MutexSteps, mutex > 0, mutex' = mutex - 1,
         UNCHANGED <<wrt, readcount>>
  PROVE  Locking'
<1>1. Writers' = Writers /\ Inside' = Inside /\ Counted' = Counted
  <2>1. \A u : (u \in Writers' <=> u \in Writers) /\ (u \in Inside' <=> u \in Inside)
               /\ (u \in Counted' <=> u \in Counted)
    BY RolesStep, Roles
  <2>2. QED
    BY <2>1
<1>2. mutex = 1 /\ \A u \in Threads : pc[u] \notin MutexSteps
  BY DEF Locking
<1>3. \A u \in Threads : pc'[u] \in MutexSteps <=> u = t
  BY <1>2 DEF Moves
<1>4. QED
  BY <1>1, <1>2, <1>3 DEF Locking

LEMMA MutexUnlocked ==
  ASSUME Locking, NEW t \in Threads, NEW s, NEW o, NEW a, NEW p, NEW x,
         Moves(t, s, o, a, p, x),
         ~WriterAt(s, o), ~WriterAt(pc[t], op[t]),
         InsideAt(s, o) <=> InsideAt(pc[t], op[t]),
         CountedAt(s, o) <=> CountedAt(pc[t], op[t]),
         pc[t] \in MutexSteps, s \notin MutexSteps, mutex' = mutex + 1,
         UNCHANGED <<wrt, readcount>>
  PROVE  Locking'
<1>1. Writers' = Writers /\ Inside' = Inside /\ Counted' = Counted
  <2>1. \A u : (u \in Writers' <=> u \in Writers) /\ (u \in Inside' <=> u \in Inside)
               /\ (u \in Counted' <=> u \in Counted)
    BY RolesStep, Roles
  <2>2. QED
    BY <2>1
<1>2. mutex = 0 /\ \A u \in Threads : pc[u] \in MutexSteps => u = t
  BY DEF Locking
<1>3. \A u \in Threads : pc'[u] \notin MutexSteps
  BY <1>2 DEF Moves
<1>4. QED
  BY <1>1, <1>2, <1>3 DEF Locking

(* Whoever is changing readcount holds mutex, so no other lookup is waiting *)
(* for wrt: those counted are those inside.                                 *)
LEMMA CountedInside ==
  ASSUME Locking, NEW t \in Threads, pc[t] \in {"enter", "leave"}
  PROVE  Counted = Inside
<1>1. \A u \in Threads : pc[u] # "enter_wrt"
  BY DEF Locking, MutexSteps
<1>2. QED
  BY <1>1 DEF Counted

LEMMA EnterLocking ==
  ASSUME Locals, Locking, NEW t \in Threads, LookupEnter(t)
  PROVE  Locking'
<1> DEFINE s == IF readcount' = 1 THEN "enter_wrt" ELSE "enter_post"
<1>1. /\ pc[t] = "enter" /\ readcount' = readcount + 1 /\ Goto(t, s)
      /\ UNCHANGED <<locals, wrt, mutex>>
  BY DEF LookupEnter
<1>2. op[t] = "lookup"
  BY <1>1 DEF Locals, OpAt
<1>3. Goes(t, s)
  BY <1>1, GoesTo DEF Steps
<1>4. Counted = Inside /\ t \notin Counted
  BY <1>1, CountedInside, Roles DEF CountedAt, InsideAt
<1>5. Writers' = Writers
  BY <1>1, <1>2, <1>3, RolesStep, Roles DEF Goes, WriterAt, Writing
<1>6. Counted' = Counted \cup {t}
  BY <1>2, <1>3, RolesStep DEF Goes, CountedAt, InsideAt
<1>7. Cardinality(Counted') = Cardinality(Counted) + 1
  BY <1>4, <1>6, CountedFinite, FS_AddElement
<1>8. \A u \in Threads : pc'[u] \in MutexSteps <=> pc[u] \in MutexSteps
  BY <1>1, <1>3 DEF Goes, Moves, MutexSteps
<1>9. CASE readcount' = 1
  <2>1. Inside = {}
    BY <1>1, <1>4, <1>9, CountedFinite DEF Locking
  <2>2. Inside' = {}
    BY <1>3, <1>9, <2>1, RolesStep DEF Goes, InsideAt
  <2>3. QED
    BY <1>1, <1>5, <1>7, <1>8, <2>1, <2>2 DEF Locking
<1>10. CASE readcount' # 1
  <2>1. Inside # {}
    BY <1>1, <1>4, <1>10, CountedFinite DEF Locking
  <2>2. Inside' = Inside \cup {t}
    BY <1>2, <1>3, <1>10, RolesStep DEF Goes, InsideAt
  <2>3. QED
    BY <1>1, <1>5, <1>7, <1>8, <2>1, <2>2 DEF Locking
<1>11. QED
  BY <1>9, <1>10

LEMMA FirstLocking ==
  ASSUME Locals, Locking, NEW t \in Threads, LookupFirst(t)
  PROVE  Locking'
<1>1. /\ pc[t] = "enter_wrt" /\ wrt > 0 /\ wrt' = wrt - 1 /\ Goto(t, "enter_post")
      /\ UNCHANGED <<locals, readcount, mutex>>
  BY DEF LookupFirst
<1>2. op[t] = "lookup"
  BY <1>1 DEF Locals, OpAt
<1>3. Goes(t, "enter_post")
  BY <1>1, GoesTo DEF Steps
<1>4. wrt = 1 /\ wrt' = 0 /\ Writers = {} /\ Inside = {}
  BY <1>1 DEF Locking
<1>5. Writers' = {} /\ Inside' = {t}
  BY <1>2, <1>3, <1>4, RolesStep DEF Goes, WriterAt, InsideAt, Writing
<1>6. Counted' = Counted
  BY <1>1, <1>2, <1>3, RolesStep, Roles DEF Goes, CountedAt, InsideAt
<1>7. \A u \in Threads : pc'[u] \in MutexSteps <=> pc[u] \in MutexSteps
  BY <1>1, <1>3 DEF Goes, Moves, MutexSteps
<1>8. QED
  BY <1>1, <1>4, <1>5, <1>6, <1>7 DEF Locking

LEMMA LeaveLocking ==
  ASSUME Locals, Locking, NEW t \in Threads, LookupLeave(t)
  PROVE  Locking'
<1>1. /\ pc[t] = "leave" /\ readcount' = readcount - 1 /\ Goto(t, "leave_post")
      /\ wrt' = IF readcount' = 0 THEN wrt + 1 ELSE wrt
      /\ UNCHANGED <<locals, mutex>>
  BY DEF LookupLeave
<1>2. op[t] = "lookup"
  BY <1>1 DEF Locals, OpAt
<1>3. Goes(t, "leave_post")
  BY <1>1, GoesTo DEF Steps
<1>4. Counted = Inside /\ t \in Counted
  BY <1>1, <1>2, CountedInside, Roles DEF CountedAt, InsideAt
<1>5. Writers = {} /\ wrt = 0
  BY <1>4 DEF Locking
<1>6. Writers' = {}
  BY <1>3, <1>5, RolesStep DEF Goes, WriterAt, Writing
<1>7. Counted' = Counted \ {t} /\ Inside' = Counted \ {t}
  BY <1>3, <1>4, RolesStep DEF Goes, CountedAt, InsideAt
<1>8. /\ Cardinality(Counted \ {t}) = Cardinality(Counted) - 1
      /\ IsFiniteSet(Counted \ {t})
      /\ Cardinality(Counted \ {t}) = 0 <=> Counted \ {t} = {}
  BY <1>4, CountedFinite, FS_RemoveElement, FS_EmptySet
<1>9. readcount' = Cardinality(Counted \ {t})
  BY <1>1, <1>8 DEF Locking
<1>10. \A u \in Threads : pc'[u] \in MutexSteps <=> pc[u] \in MutexSteps
  BY <1>1, <1>3 DEF Goes, Moves, MutexSteps
<1>11. QED
  BY <1>1, <1>5, <1>6, <1>7, <1>8, <1>9, <1>10 DEF Locking

-----------------------------------------------------------------------------
(* The chains                                                               *)

BucketNums == 0 .. NumBuckets - 1

LEMMA Hashed ==
  ASSUME NEW k \in KeySet
  PROVE  HashKeyToBucketNum(k) \in BucketNums
BY TableAssumption DEF HashKeyToBucketNum, BucketNums

(* What is said of the chain c of bucket b. *)
ChainOf(b, c) ==
  /\ c \in Seq(Pairs)
  /\ \A i \in 1 .. Len(c) : HashKeyToBucketNum(c[i].key) = b
  /\ \A i, j \in 1 .. Len(c) : c[i].key = c[j].key => i = j

LEMMA ChainsParts ==
  Chains <=> /\ buckets \in [BucketNums -> Seq(Pairs)]
             /\ \A b \in BucketNums : ChainOf(b, buckets[b])
BY DEF Chains, ChainOf, BucketNums

LEMMA OneChain ==
  ASSUME Chains, NEW b \in BucketNums, NEW c, ChainOf(b, c),
         buckets' = [buckets EXCEPT ![b] = c]
  PROVE  Chains'
<1>1. /\ buckets \in [BucketNums -> Seq(Pairs)]
      /\ \A d \in BucketNums : ChainOf(d, buckets[d])
  BY ChainsParts
<1>2. c \in Seq(Pairs)
  BY DEF ChainOf
<1>3. buckets' \in [BucketNums -> Seq(Pairs)]
  BY <1>1, <1>2
<1>4. \A d \in BucketNums : buckets'[d] = IF d = b THEN c ELSE buckets[d]
  BY <1>1
<1>5. \A d \in BucketNums : ChainOf(d, buckets'[d])
  BY <1>1, <1>4
<1>6. QED
  BY <1>3, <1>5 DEF Chains, ChainOf, BucketNums

(* A pair pushed at the head of a chain. *)
LEMMA PushedChain ==
  ASSUME NEW b, NEW c, ChainOf(b, c), NEW x \in Pairs, HashKeyToBucketNum(x.key) = b,
         \A i \in 1 .. Len(c) : c[i].key # x.key
  PROVE  ChainOf(b, <<x>> \o c) /\ Len(<<x>> \o c) = Len(c) + 1
<1> DEFINE n == <<x>> \o c
<1>1. /\ n \in Seq(Pairs) /\ Len(n) = Len(c) + 1 /\ n[1] = x
      /\ \A i \in 2 .. Len(n) : i - 1 \in 1 .. Len(c) /\ n[i] = c[i - 1]
  BY DEF ChainOf
<1> HIDE DEF n
<1>2. \A i \in 1 .. Len(n) : i = 1 \/ i \in 2 .. Len(n)
  BY <1>1
<1>3. \A i \in 1 .. Len(n) : HashKeyToBucketNum(n[i].key) = b
  BY <1>1, <1>2 DEF ChainOf
<1>4. \A i, j \in 1 .. Len(n) : n[i].key = n[j].key => i = j
  <2> SUFFICES ASSUME NEW i \in 1 .. Len(n), NEW j \in 1 .. Len(n), n[i].key = n[j].key
               PROVE  i = j
    OBVIOUS
  <2>1. CASE i = 1 \/ j = 1
    BY <1>1, <1>2, <2>1
  <2>2. CASE i \in 2 .. Len(n) /\ j \in 2 .. Len(n)
    <3>1. i - 1 \in 1 .. Len(c) /\ j - 1 \in 1 .. Len(c) /\ c[i - 1].key = c[j - 1].key
      BY <1>1, <2>2
    <3>2. i - 1 = j - 1
      BY <3>1 DEF ChainOf
    <3>3. QED
      BY <2>2, <3>2
  <2>3. QED
    BY <1>2, <2>1, <2>2
<1>5. QED
  BY <1>1, <1>3, <1>4 DEF ChainOf, n

(* A node taken out of a chain. *)
LEMMA ShortenedChain ==
  ASSUME NEW b, NEW c, ChainOf(b, c), NEW p \in 1 .. Len(c)
  PROVE  /\ ChainOf(b, RemoveAt(c, p)) /\ Len(RemoveAt(c, p)) = Len(c) - 1
         /\ \A i \in 1 .. Len(c) - 1 :
              RemoveAt(c, p)[i] = IF i < p THEN c[i] ELSE c[i + 1]
<1> DEFINE n == RemoveAt(c, p)
<1>1. c \in Seq(Pairs)
  BY DEF ChainOf
<1>2. /\ n \in Seq(Pairs) /\ Len(n) = Len(c) - 1
      /\ \A i \in 1 .. Len(c) - 1 : n[i] = IF i < p THEN c[i] ELSE c[i + 1]
  <2> DEFINE u == SubSeq(c, 1, p - 1)
             v == SubSeq(c, p + 1, Len(c))
  <2>1. u \in Seq(Pairs) /\ Len(u) = p - 1 /\ \A i \in 1 .. p - 1 : u[i] = c[i]
    BY <1>1
  <2>2. v \in Seq(Pairs) /\ Len(v) = Len(c) - p
        /\ \A i \in 1 .. Len(c) - p : v[i] = c[p + i]
    BY <1>1
  <2>3. n = u \o v
    BY DEF RemoveAt
  <2> HIDE DEF n, u, v
  <2>4. n \in Seq(Pairs) /\ Len(n) = Len(c) - 1
    <3>1. u \in Seq(Pairs) /\ v \in Seq(Pairs)
      BY <2>1, <2>2
    <3>2. n \in Seq(Pairs) /\ Len(n) = Len(u) + Len(v)
      BY <2>3, <3>1, ConcatProperties
    <3>3. QED
      BY <1>1, <2>1, <2>2, <3>2
  <2>5. ASSUME NEW i \in 1 .. Len(c) - 1, i < p PROVE n[i] = c[i]
    BY <1>1, <2>1, <2>2, <2>3, <2>5
  <2>6. ASSUME NEW i \in 1 .. Len(c) - 1, ~(i < p) PROVE n[i] = c[i + 1]
    <3>1. n[i] = v[i - (p - 1)]
      BY <1>1, <2>1, <2>2, <2>3, <2>6
    <3>2. i - (p - 1) \in 1 .. Len(c) - p /\ p + (i - (p - 1)) = i + 1
      BY <1>1, <2>6
    <3>3. QED
      BY <2>2, <3>1, <3>2
  <2>7. QED
    BY <2>4, <2>5, <2>6
<1> HIDE DEF n
<1>3. \A i \in 1 .. Len(n) : \E k \in 1 .. Len(c) :
        n[i] = c[k] /\ (i < p => k = i) /\ (i >= p => k = i + 1)
  <2> SUFFICES ASSUME NEW i \in 1 .. Len(n)
               PROVE  \E k \in 1 .. Len(c) :
                        n[i] = c[k] /\ (i < p => k = i) /\ (i >= p => k = i + 1)
    OBVIOUS
  <2>1. Len(c) \in Nat /\ i \in 1 .. Len(c) - 1
    BY <1>1, <1>2
  <2>2. CASE i < p
    <3>1. i \in 1 .. Len(c) /\ n[i] = c[i] /\ ~(i >= p)
      BY <1>2, <2>1, <2>2
    <3>2. QED
      BY <2>2, <3>1
  <2>3. CASE ~(i < p)
    <3>1. i + 1 \in 1 .. Len(c) /\ n[i] = c[i + 1]
      BY <1>2, <2>1, <2>3
    <3>2. QED
      BY <2>3, <3>1
  <2>4. QED
    BY <2>2, <2>3
<1>4. \A i \in 1 .. Len(n) : HashKeyToBucketNum(n[i].key) = b
  BY <1>3 DEF ChainOf
<1>5. \A i, j \in 1 .. Len(n) : n[i].key = n[j].key => i = j
  <2> SUFFICES ASSUME NEW i \in 1 .. Len(n), NEW j \in 1 .. Len(n), n[i].key = n[j].key
               PROVE  i = j
    OBVIOUS
  <2>1. PICK k \in 1 .. Len(c) : n[i] = c[k] /\ (i < p => k = i) /\ (i >= p => k = i + 1)
    BY <1>3
  <2>2. PICK l \in 1 .. Len(c) : n[j] = c[l] /\ (j < p => l = j) /\ (j >= p => l = j + 1)
    BY <1>3
  <2>3. k = l
    BY <2>1, <2>2 DEF ChainOf
  <2>4. QED
    BY <2>1, <2>2, <2>3
<1>6. QED
  BY <1>2, <1>4, <1>5 DEF ChainOf, n

(* A chain whose keys stay, whatever the values. *)
LEMMA RevaluedChain ==
  ASSUME NEW b, NEW c, ChainOf(b, c), NEW n \in Seq(Pairs), Len(n) = Len(c),
         \A i \in 1 .. Len(c) : n[i].key = c[i].key
  PROVE  ChainOf(b, n)
BY DEF ChainOf

-----------------------------------------------------------------------------
(* How many pairs there are                                                 *)

LEMMA PlacesAre ==
  ASSUME buckets \in [BucketNums -> Seq(Pairs)], NEW q
  PROVE  q \in Places <=> \E b \in BucketNums : \E i \in 1 .. Len(buckets[b]) : q = <<b, i>>
BY DEF Places

LEMMA PlacesAreNext ==
  ASSUME buckets' \in [BucketNums -> Seq(Pairs)], NEW q
  PROVE  q \in Places' <=> \E b \in BucketNums : \E i \in 1 .. Len(buckets'[b]) : q = <<b, i>>
BY DEF Places

LEMMA StoredOther ==
  ASSUME buckets \in [BucketNums -> Seq(Pairs)], IsFiniteSet(Places),
         NEW b \in BucketNums, NEW c \in Seq(Pairs), buckets' = [buckets EXCEPT ![b] = c]
  PROVE  /\ Stored \in Nat
         /\ Len(c) = Len(buckets[b]) => Places' = Places
         /\ Len(c) = Len(buckets[b]) + 1 => IsFiniteSet(Places') /\ Stored' = Stored + 1
         /\ Len(c) = Len(buckets[b]) - 1 => IsFiniteSet(Places') /\ Stored' = Stored - 1
<1> DEFINE n == Len(buckets[b])
<1>1. /\ buckets' \in [BucketNums -> Seq(Pairs)] /\ n \in Nat /\ Len(c) \in Nat
      /\ \A d \in BucketNums : buckets'[d] = IF d = b THEN c ELSE buckets[d]
  OBVIOUS
<1> HIDE DEF n
<1>2. \A i : <<b, i>> \in Places <=> i \in 1 .. n
  BY PlacesAre DEF n
<1>3. \A i : <<b, i>> \in Places' <=> i \in 1 .. Len(c)
  BY <1>1, PlacesAreNext
<1>4. ASSUME NEW q, \A i : q # <<b, i>> PROVE q \in Places <=> q \in Places'
  <2>1. \A d \in BucketNums : \A i : q = <<d, i>> => buckets'[d] = buckets[d]
    BY <1>1, <1>4
  <2>2. QED
    BY <1>1, <2>1, PlacesAre, PlacesAreNext
<1>5. ASSUME Len(c) = n PROVE Places' = Places
  <2>1. \A q : q \in Places <=> q \in Places'
    BY <1>2, <1>3, <1>4, <1>5
  <2>2. QED
    BY <2>1
<1>6. ASSUME Len(c) = n + 1 PROVE IsFiniteSet(Places') /\ Stored' = Stored + 1
  <2>1. \A i : i \in 1 .. Len(c) <=> i \in 1 .. n \/ i = n + 1
    BY <1>1, <1>6
  <2>2. <<b, n + 1>> \notin Places
    BY <1>1, <1>2
  <2>3. \A q : q \in Places' <=> q \in Places \/ q = <<b, n + 1>>
    BY <1>2, <1>3, <1>4, <2>1
  <2>4. Places' = Places \cup {<<b, n + 1>>}
    BY <2>3
  <2>5. QED
    BY <2>2, <2>4, FS_AddElement DEF Stored
<1>7. ASSUME Len(c) = n - 1 PROVE IsFiniteSet(Places') /\ Stored' = Stored - 1
  <2>1. \A i : i \in 1 .. Len(c) <=> i \in 1 .. n /\ i # n
    BY <1>1, <1>7
  <2>2. n \in 1 .. n
    BY <1>1, <1>7
  <2>3. \A q : q \in Places' <=> q \in Places /\ q # <<b, n>>
    BY <1>2, <1>3, <1>4, <2>1
  <2>4. Places' = Places \ {<<b, n>>} /\ <<b, n>> \in Places
    BY <1>2, <2>2, <2>3
  <2>5. QED
    BY <2>4, FS_RemoveElement DEF Stored
<1>8. QED
  BY <1>5, <1>6, <1>7, FS_CardinalityType DEF n, Stored

-----------------------------------------------------------------------------
(* What a step leaves to the rest                                           *)

WalkSteps == {"walk", "count", "push", "replace"}
GrowthSteps == {"iterate", "transfer", "free_new"}

LEMMA Walkers ==
  ASSUME Locals, NEW u \in Threads, pc[u] \in WalkSteps
  PROVE  u \in Writers \/ u \in Inside
BY Roles DEF Locals, OpAt, WalkSteps, WriterAt, InsideAt, Writing

LEMMA WalkKept ==
  ASSUME Locals, Locking, NEW t \in Threads, NEW s, NEW o, NEW a, NEW p, NEW x,
         Moves(t, s, o, a, p, x), \A u \in Threads : WalkOK(u),
         t \in Writers \/ buckets' = buckets
  PROVE  \A u \in Threads \ {t} : WalkOK(u)'
<1> SUFFICES ASSUME NEW u \in Threads, u # t PROVE WalkOK(u)'
  OBVIOUS
<1>1. pc'[u] = pc[u] /\ arg'[u] = arg[u] /\ pos'[u] = pos[u]
  BY DEF Moves
<1>2. CASE buckets' = buckets
  BY <1>1, <1>2 DEF WalkOK, Chain, BucketOf
<1>3. CASE t \in Writers
  <2>1. u \notin Writers /\ u \notin Inside
    BY <1>3 DEF Locking
  <2>2. pc[u] \notin WalkSteps
    BY <2>1, Walkers
  <2>3. QED
    BY <1>1, <2>2 DEF WalkOK, WalkSteps
<1>4. QED
  BY <1>2, <1>3

LEMMA NotWalking ==
  ASSUME NEW t \in Threads, pc'[t] \notin WalkSteps
  PROVE  WalkOK(t)'
BY DEF WalkOK, WalkSteps

LEMMA AheadStep ==
  ASSUME Locals, NEW t \in Threads, NEW s, NEW o, NEW a, NEW p, NEW x,
         Moves(t, s, o, a, p, x)
  PROVE  /\ (s \in {"push", "uncount"} <=> pc[t] \in {"push", "uncount"}) => Ahead' = Ahead
         /\ s \in {"push", "uncount"} => Ahead' = 1
         /\ pc[t] \in {"push", "uncount"} => Ahead = 1
<1>1. pc'[t] = s /\ \A u \in Threads \ {t} : pc'[u] = pc[u]
  BY DEF Moves
<1>2. QED
  BY <1>1 DEF Ahead

LEMMA AheadWriter ==
  ASSUME Locking, NEW t \in Writers, NEW s, NEW o, NEW a, NEW p, NEW x,
         Moves(t, s, o, a, p, x)
  PROVE  /\ pc[t] \notin {"push", "uncount"} => Ahead = 0
         /\ s \notin {"push", "uncount"} => Ahead' = 0
<1>1. \A u \in Threads : pc[u] \in {"push", "uncount"} => u = t
  BY Roles DEF Locking, WriterAt, Writing
<1>2. t \in Threads
  BY Roles
<1>3. \A u \in Threads : pc'[u] \in {"push", "uncount"} => u = t /\ s \in {"push", "uncount"}
  BY <1>1, <1>2 DEF Moves
<1>4. QED
  BY <1>1, <1>2, <1>3 DEF Ahead

LEMMA Growing ==
  ASSUME Locking, NEW t \in Writers, GrowthOK, pc[t] \notin {"transfer", "free_new"}
  PROVE  growth = NoGrowth
<1>1. \A u \in Threads : pc[u] \in {"transfer", "free_new"} => u = t
  BY Roles DEF Locking, WriterAt, Writing
<1>2. QED
  BY <1>1 DEF GrowthOK

(* A step outside a resize that leaves the table alone. *)
LEMMA Quiet ==
  ASSUME TableInv, NEW t \in Threads, NEW s, NEW o, NEW a, NEW p, NEW x,
         Moves(t, s, o, a, p, x), UNCHANGED <<table, growth, fault>>,
         s \notin {"push", "uncount"}, pc[t] \notin {"push", "uncount"},
         s \notin GrowthSteps, pc[t] \notin GrowthSteps,
         OpAt(s, o), ArgAt(s, o, a, x), Locking', WalkOK(t)'
  PROVE  TableInv'
<1>1. Locals' /\ \A u \in Threads : WalkOK(u)'
  BY LocalsStep, WalkKept DEF TableInv, table
<1>2. Chains' /\ Places' = Places /\ Stored' = Stored
  BY DEF TableInv, Chains, table, Places, Stored
<1>3. CountOK'
  BY <1>2, AheadStep DEF TableInv, CountOK, table
<1>4. \A u \in Threads : \/ pc'[u] = pc[u]
                         \/ pc'[u] \notin GrowthSteps /\ pc[u] \notin GrowthSteps
  BY DEF Moves
<1>5. GrowthOK'
  <2>1. FirstNode(growth)' <=> FirstNode(growth)
    BY DEF table, FirstNode, UsedFrom, FirstFrom
  <2>2. /\ GrowthOK /\ growth' = growth /\ num_elements' = num_elements
        /\ buckets' = buckets /\ fault' = fault
    BY DEF TableInv, table
  <2>3. (\A u \in Threads : pc'[u] \notin {"transfer", "free_new"}) => growth' = NoGrowth
    BY <1>4, <2>2 DEF GrowthOK, GrowthSteps
  <2>4. ASSUME NEW u \in Threads
        PROVE  /\ pc'[u] \in {"iterate", "transfer"} => pc[u] = pc'[u]
    BY <1>4 DEF GrowthSteps
  <2>5. QED
    BY <1>2, <2>1, <2>2, <2>3, <2>4 DEF GrowthOK
<1>6. QED
  BY <1>1, <1>2, <1>3, <1>5 DEF TableInv

(* A step of a writer, outside a resize, that changes the table. *)
LEMMA Changes ==
  ASSUME TableInv, ~fault, NEW t \in Writers, NEW s, NEW o, NEW a, NEW p, NEW x,
         Moves(t, s, o, a, p, x), UNCHANGED <<growth, fault>>,
         s \notin GrowthSteps, pc[t] \notin GrowthSteps,
         OpAt(s, o), ArgAt(s, o, a, x), WriterAt(s, o), s \notin MutexSteps,
         ~InsideAt(s, o), UNCHANGED <<wrt, mutex, readcount>>,
         Chains', CountOK', s \notin WalkSteps \/ WalkOK(t)'
  PROVE  TableInv'
<1>1. t \in Threads /\ WriterAt(pc[t], op[t])
  BY Roles
<1>2. Locals'
  BY <1>1, LocalsStep DEF TableInv
<1>3. \A u \in Threads : WalkOK(u)'
  BY <1>1, WalkKept, NotWalking DEF TableInv, Moves
<1>4. Locking'
  <2>1. ~InsideAt(pc[t], op[t]) /\ pc[t] \notin MutexSteps /\ pc[t] # "enter_wrt" /\ s # "enter_wrt"
    BY <1>1 DEF InsideAt, WriterAt, Writing, MutexSteps
  <2>2. QED
    BY <1>1, <2>1, RoleKept DEF TableInv, CountedAt
<1>5. \A u \in Threads : pc'[u] \notin GrowthSteps
  <2>1. \A u \in Threads : pc[u] \in GrowthSteps => u \in Writers
    BY Roles DEF GrowthSteps, WriterAt, Writing
  <2>2. QED
    BY <1>1, <2>1 DEF TableInv, Locking, Moves
<1>6. GrowthOK'
  <2>1. growth' = NoGrowth
    BY Growing DEF TableInv, GrowthSteps
  <2>2. QED
    BY <1>5, <2>1, TableAssumption DEF GrowthOK, GrowthType, GrowthSteps, NoGrowth
<1>7. QED
  BY <1>2, <1>3, <1>4, <1>6 DEF TableInv

-----------------------------------------------------------------------------
(* find                                                                     *)

(* Where find may lead, by operation: the thread keeps what it holds. *)
FindLeads(o) ==
  CASE o = "insert" -> {"walk", "count", "replace", "write_post"}
    [] o = "lookup" -> {"walk", "leave_wait"}
    [] o = "remove" -> {"walk", "uncount", "write_post"}

LEMMA Finding ==
  ASSUME TableInv, NEW t \in Threads, pc[t] \in {"find", "walk"}
  PROVE  /\ op[t] \in {"insert", "lookup", "remove"}
         /\ OpAt(pc[t], op[t]) /\ ArgAt(pc[t], op[t], arg[t], result[t])
         /\ result[t] = NoResult /\ arg[t].key \in KeySet /\ BucketOf(t) \in BucketNums
         /\ op[t] # "lookup" => t \in Writers
<1>1. OpAt(pc[t], op[t]) /\ ArgAt(pc[t], op[t], arg[t], result[t])
  BY DEF TableInv, Locals
<1>2. op[t] \in {"insert", "lookup", "remove"}
  BY <1>1 DEF OpAt
<1>3. result[t] = NoResult /\ arg[t].key \in KeySet
  BY <1>1, <1>2 DEF ArgAt, OverAt
<1>4. QED
  BY <1>1, <1>2, <1>3, Hashed, Roles DEF BucketOf, WriterAt

LEMMA FindLocking ==
  ASSUME TableInv, NEW t \in Threads, pc[t] \in {"find", "walk"},
         NEW s, NEW a, NEW p, NEW x, Moves(t, s, op[t], a, p, x),
         s \in FindLeads(op[t]), UNCHANGED <<wrt, mutex, readcount>>
  PROVE  Locking' /\ OpAt(s, op[t])
<1>1. op[t] \in {"insert", "lookup", "remove"}
  BY Finding
<1>2. WriterAt(s, op[t]) <=> WriterAt(pc[t], op[t])
  BY <1>1 DEF FindLeads, WriterAt, Writing
<1>3. InsideAt(s, op[t]) <=> InsideAt(pc[t], op[t])
  BY <1>1 DEF FindLeads, InsideAt
<1>4. s # "enter_wrt" /\ s \notin MutexSteps /\ pc[t] \notin MutexSteps
  BY <1>1 DEF FindLeads, MutexSteps
<1>5. OpAt(s, op[t])
  BY <1>1 DEF FindLeads, OpAt, Steps
<1>6. QED
  BY <1>2, <1>3, <1>4, <1>5, RoleKept DEF TableInv, CountedAt

LEMMA Leads ==
  ASSUME NEW t, op[t] \in {"insert", "lookup", "remove"}
  PROVE  /\ AfterMiss(t) \in FindLeads(op[t]) /\ AfterHit(t) \in FindLeads(op[t])
         /\ AfterMiss(t) \in Steps /\ AfterHit(t) \in Steps
         /\ op[t] # "insert" => AfterMiss(t) \in OverAt /\ AfterHit(t) \in OverAt
         /\ op[t] = "insert" => AfterMiss(t) = "count" /\ AfterHit(t) = "replace"
         /\ op[t] = "remove" => AfterMiss(t) = "write_post" /\ AfterHit(t) = "uncount"
         /\ op[t] = "lookup" => AfterMiss(t) = "leave_wait" /\ AfterHit(t) = "leave_wait"
BY DEF AfterMiss, AfterHit, FindLeads, Steps, OverAt

LEMMA FindStartInv ==
  ASSUME TableInv, NEW t \in Threads, FindStart(t)
  PROVE  TableInv'
<1>1. pc[t] = "find" /\ UNCHANGED <<table, wrt, mutex, readcount, op, arg, growth, fault>>
  BY DEF FindStart
<1>2. /\ op[t] \in {"insert", "lookup", "remove"}
      /\ ArgAt("find", op[t], arg[t], result[t]) /\ result[t] = NoResult
      /\ BucketOf(t) \in BucketNums
  BY <1>1, Finding
<1>3. Chain(t)' = Chain(t)
  BY <1>1 DEF Chain, BucketOf, table
<1>4. Locals /\ buckets[BucketOf(t)] \in Seq(Pairs)
  BY <1>2, ChainsParts DEF TableInv
<1>5. CASE Chain(t) = <<>> /\ Goto(t, AfterMiss(t)) /\ UNCHANGED <<pos, result>>
  <2> DEFINE s == AfterMiss(t)
  <2>1. Goes(t, s)
    BY <1>1, <1>2, <1>4, <1>5, GoesTo, Leads DEF locals
  <2>2. Locking' /\ OpAt(s, op[t])
    BY <1>1, <1>2, <2>1, FindLocking, Leads DEF Goes
  <2>3. ArgAt(s, op[t], arg[t], result[t])
    BY <1>2 DEF ArgAt
  <2>4. WalkOK(t)'
    BY <1>2, <1>3, <1>5, <2>1, Leads DEF WalkOK, Goes, Moves
  <2>5. s \notin {"push", "uncount"} /\ s \notin GrowthSteps
    BY <1>2, Leads DEF GrowthSteps
  <2> HIDE DEF s
  <2>6. QED
    BY <1>1, <2>1, <2>2, <2>3, <2>4, <2>5, Quiet DEF Goes, GrowthSteps
<1>6. CASE Chain(t) # <<>> /\ pos' = [pos EXCEPT ![t] = 1] /\ Goto(t, "walk") /\ UNCHANGED result
  <2>1. Moves(t, "walk", op[t], arg[t], 1, result[t])
    BY <1>1, <1>4, <1>6, Walking DEF Steps
  <2>2. Locking' /\ OpAt("walk", op[t])
    BY <1>1, <1>2, <2>1, FindLocking DEF FindLeads
  <2>3. ArgAt("walk", op[t], arg[t], result[t])
    BY <1>2 DEF ArgAt
  <2>4. Len(Chain(t)) \in Nat \ {0}
    BY <1>4, <1>6 DEF Chain
  <2>5. WalkOK(t)'
    BY <1>3, <2>1, <2>4 DEF WalkOK, Moves
  <2>6. QED
    BY <1>1, <2>1, <2>2, <2>3, <2>5, Quiet DEF GrowthSteps
<1>7. CASE /\ Result(t, IF op[t] = "insert" THEN 0 ELSE -1, NoValue)
           /\ Goto(t, IF op[t] = "lookup" THEN "leave_wait" ELSE "write_post")
           /\ UNCHANGED pos
  <2> DEFINE s == IF op[t] = "lookup" THEN "leave_wait" ELSE "write_post"
             ret == IF op[t] = "insert" THEN 0 ELSE -1
             x == [ret |-> ret, value |-> NoValue]
  <2>1. s \in FindLeads(op[t]) /\ s \in Steps /\ s \in OverAt
    BY <1>2 DEF FindLeads, Steps, OverAt
  <2>2. Moves(t, s, op[t], arg[t], pos[t], x)
    BY <1>1, <1>4, <1>7, <2>1, Resulting
  <2>3. Locking' /\ OpAt(s, op[t])
    BY <1>1, <2>1, <2>2, FindLocking
  <2>4. ArgAt(s, op[t], arg[t], x)
    BY <1>2, <2>1 DEF ArgAt, ResultType
  <2>5. WalkOK(t)'
    BY <2>1, <2>2, NotWalking DEF Moves, WalkSteps, OverAt
  <2>6. s \notin {"push", "uncount"} /\ s \notin GrowthSteps
    BY DEF GrowthSteps
  <2> HIDE DEF s, x
  <2>7. QED
    BY <1>1, <2>2, <2>3, <2>4, <2>5, <2>6, Quiet DEF GrowthSteps
<1>8. QED
  BY <1>5, <1>6, <1>7 DEF FindStart

(* The node at which find stands. *)
LEMMA AtNode ==
  ASSUME TableInv, NEW t \in Threads, pc[t] = "walk"
  PROVE  /\ Locals /\ BucketOf(t) \in BucketNums
         /\ ChainOf(BucketOf(t), Chain(t)) /\ pos[t] \in 1 .. Len(Chain(t))
         /\ Chain(t)[pos[t]] \in Pairs
         /\ \A i \in 1 .. pos[t] - 1 : Chain(t)[i].key # arg[t].key
<1>1. BucketOf(t) \in BucketNums
  BY Finding
<1>2. ChainOf(BucketOf(t), Chain(t))
  BY <1>1, ChainsParts DEF TableInv, Chain
<1>3. /\ pos[t] \in 1 .. Len(Chain(t))
      /\ \A i \in 1 .. pos[t] - 1 : Chain(t)[i].key # arg[t].key
  BY DEF TableInv, WalkOK
<1>4. QED
  BY <1>1, <1>2, <1>3 DEF TableInv, ChainOf

LEMMA FindNextInv ==
  ASSUME TableInv, NEW t \in Threads, FindNext(t)
  PROVE  TableInv'
<1>1. /\ pc[t] = "walk" /\ Chain(t)[pos[t]].key # arg[t].key
      /\ UNCHANGED <<table, wrt, mutex, readcount, op, arg, result, growth, fault>>
  BY DEF FindNext
<1>2. /\ op[t] \in {"insert", "lookup", "remove"}
      /\ ArgAt("walk", op[t], arg[t], result[t]) /\ result[t] = NoResult
  BY <1>1, Finding
<1>3. Chain(t)' = Chain(t)
  BY <1>1 DEF Chain, BucketOf, table
<1>4. /\ Locals /\ Len(Chain(t)) \in Nat /\ pos[t] \in 1 .. Len(Chain(t))
      /\ \A i \in 1 .. pos[t] - 1 : Chain(t)[i].key # arg[t].key
  BY <1>1, AtNode DEF ChainOf
<1>5. \A i \in 1 .. pos[t] : Chain(t)[i].key # arg[t].key
  <2>1. \A i \in 1 .. pos[t] : i = pos[t] \/ i \in 1 .. pos[t] - 1
    BY <1>4
  <2>2. QED
    BY <1>1, <1>4, <2>1
<1>6. CASE pos[t] < Len(Chain(t)) /\ pos' = [pos EXCEPT ![t] = @ + 1] /\ UNCHANGED pc
  <2>1. pos' = [pos EXCEPT ![t] = pos[t] + 1] /\ pos[t] + 1 \in Nat /\ "walk" \in Steps
    BY <1>4, <1>6 DEF Steps
  <2>2. Moves(t, "walk", op[t], arg[t], pos[t] + 1, result[t])
    BY <1>1, <1>4, <1>6, <2>1, Walking
  <2>3. Locking' /\ OpAt("walk", op[t])
    BY <1>1, <1>2, <2>2, FindLocking DEF FindLeads
  <2>4. WalkOK(t)'
    <3>1. pc'[t] = "walk" /\ pos'[t] = pos[t] + 1 /\ arg'[t] = arg[t]
      BY <2>2 DEF Moves
    <3>2. pos[t] + 1 \in 1 .. Len(Chain(t)) /\ (pos[t] + 1) - 1 = pos[t]
      BY <1>4, <1>6
    <3>3. QED
      BY <1>3, <1>5, <3>1, <3>2 DEF WalkOK
  <2>5. QED
    BY <1>1, <1>2, <2>2, <2>3, <2>4, Quiet DEF GrowthSteps
<1>7. CASE ~(pos[t] < Len(Chain(t))) /\ Goto(t, AfterMiss(t)) /\ UNCHANGED pos
  <2> DEFINE s == AfterMiss(t)
  <2>1. Goes(t, s)
    BY <1>1, <1>2, <1>4, <1>7, GoesTo, Leads DEF locals
  <2>2. Locking' /\ OpAt(s, op[t])
    BY <1>1, <1>2, <2>1, FindLocking, Leads DEF Goes
  <2>3. ArgAt(s, op[t], arg[t], result[t])
    BY <1>2 DEF ArgAt
  <2>4. WalkOK(t)'
    <3>1. pos[t] = Len(Chain(t))
      BY <1>4, <1>7
    <3>2. QED
      BY <1>2, <1>3, <1>5, <2>1, <3>1, Leads DEF WalkOK, Goes, Moves
  <2>5. s \notin {"push", "uncount"} /\ s \notin GrowthSteps
    BY <1>2, Leads DEF GrowthSteps
  <2> HIDE DEF s
  <2>6. QED
    BY <1>1, <2>1, <2>2, <2>3, <2>4, <2>5, Quiet DEF Goes, GrowthSteps
<1>8. QED
  BY <1>6, <1>7 DEF FindNext

LEMMA FindHitInv ==
  ASSUME TableInv, ~fault, NEW t \in Threads, FindHit(t)
  PROVE  TableInv'
<1> DEFINE c == Chain(t)
           b == BucketOf(t)
           v == c[pos[t]].value
           x == [ret |-> 1, value |-> v]
<1>1. /\ pc[t] = "walk" /\ c[pos[t]].key = arg[t].key
      /\ buckets' = IF op[t] = "remove"
                    THEN [buckets EXCEPT ![b] = RemoveAt(@, pos[t])] ELSE buckets
      /\ IF op[t] = "insert" THEN UNCHANGED result ELSE Result(t, 1, v)
      /\ Goto(t, AfterHit(t))
      /\ UNCHANGED <<num_elements, wrt, mutex, readcount, op, arg, pos, growth, fault>>
  BY DEF FindHit
<1>2. /\ op[t] \in {"insert", "lookup", "remove"}
      /\ ArgAt("walk", op[t], arg[t], result[t]) /\ result[t] = NoResult
      /\ op[t] = "remove" => t \in Writers
  BY <1>1, Finding
<1>3. /\ Locals /\ b \in BucketNums /\ ChainOf(b, c) /\ pos[t] \in 1 .. Len(c)
      /\ v \in Values
  BY <1>1, AtNode DEF Pairs
<1>4. CASE op[t] = "insert"
  <2>1. Goes(t, "replace")
    BY <1>1, <1>2, <1>3, <1>4, GoesTo, Leads DEF locals, Steps
  <2>2. Locking' /\ OpAt("replace", op[t])
    BY <1>1, <1>4, <2>1, FindLocking DEF Goes, FindLeads
  <2>3. ArgAt("replace", op[t], arg[t], result[t])
    BY <1>2 DEF ArgAt
  <2>4. WalkOK(t)'
    BY <1>1, <1>3, <1>4, <2>1 DEF WalkOK, Goes, Moves, Chain, BucketOf
  <2>5. QED
    BY <1>1, <1>4, <2>1, <2>2, <2>3, <2>4, Quiet DEF Goes, GrowthSteps, table
<1>5. CASE op[t] = "lookup"
  <2>1. Moves(t, "leave_wait", op[t], arg[t], pos[t], x)
    BY <1>1, <1>2, <1>3, <1>5, Resulting, Leads DEF Steps
  <2>2. Locking' /\ OpAt("leave_wait", op[t])
    BY <1>1, <1>5, <2>1, FindLocking DEF FindLeads
  <2>3. ArgAt("leave_wait", op[t], arg[t], x)
    BY <1>2, <1>3, <1>5 DEF ArgAt, ResultType, OverAt
  <2>4. WalkOK(t)'
    BY <2>1, NotWalking DEF Moves, WalkSteps
  <2> HIDE DEF x
  <2>5. QED
    BY <1>1, <1>5, <2>1, <2>2, <2>3, <2>4, Quiet DEF GrowthSteps, table
<1>6. CASE op[t] = "remove"
  <2> DEFINE n == RemoveAt(c, pos[t])
  <2>1. Moves(t, "uncount", op[t], arg[t], pos[t], x)
    BY <1>1, <1>2, <1>3, <1>6, Resulting, Leads DEF Steps
  <2>2. OpAt("uncount", op[t])
    BY <1>1, <1>6, <2>1, FindLocking DEF FindLeads
  <2>3. ArgAt("uncount", op[t], arg[t], x)
    BY <1>2, <1>3, <1>6 DEF ArgAt, ResultType, OverAt
  <2>4. buckets' = [buckets EXCEPT ![b] = n] /\ buckets[b] = c
    BY <1>1, <1>6 DEF Chain
  <2>5. ChainOf(b, n) /\ Len(n) = Len(c) - 1
    BY <1>3, ShortenedChain
  <2> HIDE DEF n
  <2>6. Chains'
    BY <1>3, <2>4, <2>5, OneChain DEF TableInv
  <2>7. CountOK'
    <3>1. Stored \in Nat /\ IsFiniteSet(Places') /\ Stored' = Stored - 1
      BY <1>3, <2>4, <2>5, ChainsParts, StoredOther DEF TableInv, CountOK, ChainOf
    <3>2. Ahead = 0 /\ Ahead' = 1
      BY <1>1, <1>2, <1>3, <1>6, <2>1, AheadStep, AheadWriter DEF TableInv
    <3>3. QED
      BY <1>1, <3>1, <3>2 DEF TableInv, CountOK
  <2> HIDE DEF x
  <2>8. QED
    BY <1>1, <1>2, <1>6, <2>1, <2>2, <2>3, <2>6, <2>7, Changes
       DEF GrowthSteps, WriterAt, Writing, InsideAt, MutexSteps, WalkSteps
<1>7. QED
  BY <1>2, <1>4, <1>5, <1>6

-----------------------------------------------------------------------------
(* InsertHashTable and RemoveFromHashTable                                  *)

LEMMA Inserting ==
  ASSUME TableInv, NEW t \in Threads, pc[t] \in {"count", "push", "replace"}
  PROVE  /\ Locals /\ op[t] = "insert" /\ t \in Writers
         /\ ArgAt(pc[t], "insert", arg[t], result[t]) /\ result[t] = NoResult
         /\ arg[t] \in Pairs /\ BucketOf(t) \in BucketNums
         /\ ChainOf(BucketOf(t), Chain(t))
<1>1. Locals /\ OpAt(pc[t], op[t]) /\ ArgAt(pc[t], op[t], arg[t], result[t])
  BY DEF TableInv, Locals
<1>2. op[t] = "insert"
  BY <1>1 DEF OpAt
<1>3. arg[t] \in Pairs /\ result[t] = NoResult
  BY <1>1, <1>2 DEF ArgAt, ArgType, Pairs, OverAt
<1>4. BucketOf(t) \in BucketNums
  BY <1>3, Hashed DEF BucketOf, Pairs
<1>5. ChainOf(BucketOf(t), Chain(t))
  BY <1>4, ChainsParts DEF TableInv, Chain
<1>6. t \in Writers
  BY Roles DEF WriterAt, Writing
<1>7. QED
  BY <1>1, <1>2, <1>3, <1>4, <1>5, <1>6

LEMMA InsertCountInv ==
  ASSUME TableInv, ~fault, NEW t \in Threads, InsertCount(t)
  PROVE  TableInv'
<1>1. /\ pc[t] = "count" /\ num_elements' = num_elements + 1 /\ Goto(t, "push")
      /\ UNCHANGED <<buckets, wrt, mutex, readcount, locals, growth, fault>>
  BY DEF InsertCount
<1>2. /\ Locals /\ op[t] = "insert" /\ t \in Writers
      /\ ArgAt("count", "insert", arg[t], result[t])
  BY <1>1, Inserting
<1>3. Goes(t, "push")
  BY <1>1, <1>2, GoesTo DEF Steps
<1>4. Chains' /\ Places' = Places /\ Stored' = Stored
  BY <1>1 DEF TableInv, Chains, Places, Stored
<1>5. CountOK'
  <2>1. Ahead = 0 /\ Ahead' = 1
    BY <1>1, <1>2, <1>3, AheadStep, AheadWriter DEF TableInv, Goes
  <2>2. Stored \in Nat
    BY FS_CardinalityType DEF TableInv, CountOK, Stored
  <2>3. QED
    BY <1>1, <1>4, <2>1, <2>2 DEF TableInv, CountOK
<1>6. WalkOK(t)'
  BY <1>1, <1>3 DEF TableInv, WalkOK, Goes, Moves, Chain, BucketOf, locals
<1>7. OpAt("push", op[t]) /\ ArgAt("push", op[t], arg[t], result[t])
  BY <1>2 DEF OpAt, ArgAt, Steps, OverAt
<1>8. QED
  BY <1>1, <1>2, <1>3, <1>4, <1>5, <1>6, <1>7, Changes
     DEF Goes, GrowthSteps, WriterAt, Writing, InsideAt, MutexSteps

(* An insertion ends: the thread is a writer until WritePost. *)
LEMMA InsertEnds ==
  ASSUME TableInv, ~fault, NEW t \in Threads, pc[t] \in {"push", "replace"},
         NEW ret \in 0 .. 2, NEW v \in Values \cup {NoValue},
         Result(t, ret, v), Goto(t, "write_post"), Chains', CountOK',
         UNCHANGED <<wrt, mutex, readcount, op, arg, pos, growth, fault>>
  PROVE  TableInv'
<1> DEFINE x == [ret |-> ret, value |-> v]
<1>1. /\ Locals /\ op[t] = "insert" /\ t \in Writers
      /\ ArgAt(pc[t], "insert", arg[t], result[t])
  BY Inserting
<1>2. Moves(t, "write_post", op[t], arg[t], pos[t], x)
  BY <1>1, Resulting DEF Steps
<1>3. OpAt("write_post", op[t]) /\ ArgAt("write_post", op[t], arg[t], x)
  BY <1>1 DEF OpAt, ArgAt, Steps, OverAt, ResultType
<1> HIDE DEF x
<1>4. QED
  BY <1>1, <1>2, <1>3, Changes
     DEF GrowthSteps, WriterAt, Writing, InsideAt, MutexSteps, WalkSteps

LEMMA AheadEnds ==
  ASSUME TableInv, NEW t \in Threads, pc[t] \in {"push", "replace"},
         NEW ret \in -1 .. 2, NEW v \in Values \cup {NoValue}, Result(t, ret, v),
         Goto(t, "write_post"), UNCHANGED <<op, arg, pos>>
  PROVE  /\ pc[t] = "push" => Ahead = 1
         /\ pc[t] = "replace" => Ahead = 0
         /\ Ahead' = 0
<1>1. Locals /\ t \in Writers /\ Locking
  BY Inserting DEF TableInv
<1> DEFINE x == [ret |-> ret, value |-> v]
<1>2. Moves(t, "write_post", op[t], arg[t], pos[t], x)
  BY <1>1, Resulting DEF Steps
<1> HIDE DEF x
<1>3. QED
  BY <1>1, <1>2, AheadStep, AheadWriter

LEMMA InsertPushInv ==
  ASSUME TableInv, ~fault, NEW t \in Threads, InsertPush(t)
  PROVE  TableInv'
<1> DEFINE b == BucketOf(t)
           c == Chain(t)
           n == <<arg[t]>> \o c
<1>1. /\ pc[t] = "push" /\ Goto(t, "write_post")
      /\ UNCHANGED <<num_elements, wrt, mutex, readcount, op, arg, pos, growth, fault>>
  BY DEF InsertPush
<1>2. b \in BucketNums /\ ChainOf(b, c) /\ arg[t] \in Pairs
  BY <1>1, Inserting
<1>3. Stored \in Nat /\ IsFiniteSet(Places) /\ buckets \in [BucketNums -> Seq(Pairs)]
  BY ChainsParts, FS_CardinalityType DEF TableInv, CountOK, Stored
<1>4. CASE buckets' = [buckets EXCEPT ![b] = n] /\ Result(t, 1, NoValue)
  <2>1. \A i \in 1 .. Len(c) : c[i].key # arg[t].key
    BY <1>1 DEF TableInv, WalkOK
  <2>2. ChainOf(b, n) /\ Len(n) = Len(c) + 1
    BY <1>2, <2>1, PushedChain DEF BucketOf
  <2>3. c = buckets[b]
    BY DEF Chain
  <2> HIDE DEF n
  <2>4. Chains'
    BY <1>2, <1>4, <2>2, OneChain DEF TableInv
  <2>5. IsFiniteSet(Places') /\ Stored' = Stored + 1
    BY <1>2, <1>3, <1>4, <2>2, <2>3, StoredOther DEF ChainOf
  <2>6. Ahead = 1 /\ Ahead' = 0
    BY <1>1, <1>4, AheadEnds
  <2>7. CountOK'
    BY <1>1, <1>3, <2>5, <2>6 DEF TableInv, CountOK
  <2>8. QED
    BY <1>1, <1>4, <2>4, <2>7, InsertEnds
<1>5. CASE MayRunOut /\ UNCHANGED buckets /\ Result(t, 0, NoValue)
  <2>1. Chains' /\ Places' = Places /\ Stored' = Stored
    BY <1>5 DEF TableInv, Chains, Places, Stored
  <2>2. Ahead = 1 /\ Ahead' = 0
    BY <1>1, <1>5, AheadEnds
  <2>3. CountOK'
    BY <1>1, <1>3, <1>5, <2>1, <2>2 DEF TableInv, CountOK
  <2>4. QED
    BY <1>1, <1>5, <2>1, <2>3, InsertEnds
<1>6. QED
  BY <1>4, <1>5 DEF InsertPush, Chain

LEMMA InsertReplaceInv ==
  ASSUME TableInv, ~fault, NEW t \in Threads, InsertReplace(t)
  PROVE  TableInv'
<1> DEFINE b == BucketOf(t)
           c == Chain(t)
           n == [c EXCEPT ![pos[t]].value = arg[t].value]
<1>1. /\ pc[t] = "replace" /\ Goto(t, "write_post")
      /\ Result(t, 2, c[pos[t]].value)
      /\ buckets' = [buckets EXCEPT ![b] = n]
      /\ UNCHANGED <<num_elements, wrt, mutex, readcount, op, arg, pos, growth, fault>>
  BY DEF InsertReplace, Chain
<1>2. b \in BucketNums /\ ChainOf(b, c) /\ arg[t] \in Pairs
  BY <1>1, Inserting
<1>3. pos[t] \in 1 .. Len(c) /\ arg[t].value \in Values
  BY <1>1, <1>2 DEF TableInv, WalkOK, Pairs
<1>4. c[pos[t]].value \in Values
  <2>1. c[pos[t]] \in Pairs
    BY <1>2, <1>3 DEF ChainOf
  <2>2. QED
    BY <2>1 DEF Pairs
<1>5. Stored \in Nat /\ IsFiniteSet(Places) /\ buckets \in [BucketNums -> Seq(Pairs)]
  BY ChainsParts, FS_CardinalityType DEF TableInv, CountOK, Stored
<1>6. ChainOf(b, n) /\ Len(n) = Len(c)
  <2> DEFINE p == pos[t]
             v == arg[t].value
  <2>1. c[p] \in Pairs /\ p \in 1 .. Len(c) /\ v \in Values
    BY <1>2, <1>3 DEF ChainOf
  <2>2. [c[p] EXCEPT !.value = v] = [key |-> c[p].key, value |-> v]
    BY <2>1 DEF Pairs
  <2>3. n = [c EXCEPT ![p] = [key |-> c[p].key, value |-> v]]
    BY <2>2
  <2>4. [key |-> c[p].key, value |-> v] \in Pairs /\ c \in Seq(Pairs)
    BY <1>2, <2>1 DEF Pairs, ChainOf
  <2> HIDE DEF n, c, b, p, v
  <2>5. /\ n \in Seq(Pairs) /\ Len(n) = Len(c)
        /\ \A i \in 1 .. Len(c) : n[i].key = c[i].key
    BY <2>1, <2>3, <2>4
  <2>6. QED
    BY <1>2, <2>5, RevaluedChain
<1>7. c = buckets[b]
  BY DEF Chain
<1> HIDE DEF n
<1>8. Chains'
  BY <1>1, <1>2, <1>6, OneChain DEF TableInv
<1>9. Places' = Places /\ Stored' = Stored
  BY <1>1, <1>2, <1>5, <1>6, <1>7, StoredOther DEF ChainOf, Stored
<1>10. Ahead = 0 /\ Ahead' = 0
  BY <1>1, <1>4, AheadEnds
<1>11. CountOK'
  BY <1>1, <1>5, <1>9, <1>10 DEF TableInv, CountOK
<1>12. QED
  BY <1>1, <1>4, <1>8, <1>11, InsertEnds

LEMMA RemoveUncountInv ==
  ASSUME TableInv, ~fault, NEW t \in Threads, RemoveUncount(t)
  PROVE  TableInv'
<1>1. /\ pc[t] = "uncount" /\ num_elements' = num_elements - 1 /\ Goto(t, "write_post")
      /\ UNCHANGED <<buckets, wrt, mutex, readcount, locals, growth, fault>>
  BY DEF RemoveUncount
<1>2. /\ Locals /\ op[t] = "remove" /\ t \in Writers
      /\ ArgAt("uncount", "remove", arg[t], result[t])
  BY <1>1, Roles DEF TableInv, Locals, OpAt, WriterAt, Writing
<1>3. Goes(t, "write_post")
  BY <1>1, <1>2, GoesTo DEF Steps
<1>4. Chains' /\ Places' = Places /\ Stored' = Stored
  BY <1>1 DEF TableInv, Chains, Places, Stored
<1>5. CountOK'
  <2>1. Ahead = 1 /\ Ahead' = 0
    BY <1>1, <1>2, <1>3, AheadStep, AheadWriter DEF TableInv, Goes
  <2>2. Stored \in Nat
    BY FS_CardinalityType DEF TableInv, CountOK, Stored
  <2>3. QED
    BY <1>1, <1>4, <2>1, <2>2 DEF TableInv, CountOK
<1>6. OpAt("write_post", op[t]) /\ ArgAt("write_post", op[t], arg[t], result[t])
  BY <1>2 DEF OpAt, ArgAt, Steps, OverAt
<1>7. QED
  BY <1>1, <1>2, <1>3, <1>4, <1>5, <1>6, Changes
     DEF Goes, GrowthSteps, WriterAt, Writing, InsideAt, MutexSteps, WalkSteps

LEMMA CallInv ==
  ASSUME TableInv, NEW t \in Threads, Call(t)
  PROVE  TableInv'
<1>1. /\ pc[t] = "idle" /\ Locals
      /\ UNCHANGED <<table, wrt, mutex, readcount, pos, result, growth, fault>>
  BY DEF Call, TableInv
<1>2. ArgAt("idle", op[t], arg[t], result[t]) /\ result[t] = NoResult
  BY <1>1 DEF Locals, ArgAt, OverAt
<1>a. PICK a \in ArgType :
        /\ arg' = [arg EXCEPT ![t] = a] /\ a.key \in KeySet
        /\ \/ /\ op' = [op EXCEPT ![t] = "insert"] /\ Goto(t, "write_wait")
              /\ a.value \in Values
           \/ op' = [op EXCEPT ![t] = "lookup"] /\ Goto(t, "enter_wait")
           \/ op' = [op EXCEPT ![t] = "remove"] /\ Goto(t, "write_wait")
  <2>1. ASSUME NEW k \in KeySet, NEW v \in Values \cup {NoValue}
        PROVE  /\ [key |-> k, value |-> v] \in ArgType
               /\ [key |-> k, value |-> v].key \in KeySet
               /\ [key |-> k, value |-> v].value = v
    BY DEF ArgType
  <2>2. CASE \E k \in KeySet, v \in Values : /\ arg' = [arg EXCEPT ![t] = [key |-> k, value |-> v]]
                                             /\ op' = [op EXCEPT ![t] = "insert"]
                                             /\ Goto(t, "write_wait")
    <3>1. PICK k \in KeySet, v \in Values : arg' = [arg EXCEPT ![t] = [key |-> k, value |-> v]]
      BY <2>2
    <3> DEFINE a == [key |-> k, value |-> v]
    <3>2. a \in ArgType /\ a.key \in KeySet /\ a.value \in Values
      BY <2>1
    <3> HIDE DEF a
    <3>3. QED
      BY <2>2, <3>1, <3>2 DEF a
  <2>3. CASE \E k \in KeySet : /\ arg' = [arg EXCEPT ![t] = [key |-> k, value |-> NoValue]]
                               /\ \/ op' = [op EXCEPT ![t] = "lookup"] /\ Goto(t, "enter_wait")
                                  \/ op' = [op EXCEPT ![t] = "remove"] /\ Goto(t, "write_wait")
    <3>1. PICK k \in KeySet : arg' = [arg EXCEPT ![t] = [key |-> k, value |-> NoValue]]
      BY <2>3
    <3> DEFINE a == [key |-> k, value |-> NoValue]
    <3>2. a \in ArgType /\ a.key \in KeySet
      BY <2>1
    <3> HIDE DEF a
    <3>3. QED
      BY <2>3, <3>1, <3>2 DEF a
  <2>4. QED
    BY <2>2, <2>3 DEF Call
<1>3. PICK s, o : /\ Goto(t, s) /\ op' = [op EXCEPT ![t] = o]
                  /\ \/ s = "write_wait" /\ o \in {"insert", "remove"}
                     \/ s = "enter_wait" /\ o = "lookup"
                  /\ o = "insert" => a.value \in Values
  BY <1>a
<1>4. Moves(t, s, o, a, pos[t], result[t])
  BY <1>1, <1>a, <1>3, Calling DEF Steps, Ops
<1>5. OpAt(s, o) /\ ArgAt(s, o, a, result[t])
  BY <1>2, <1>a, <1>3 DEF OpAt, ArgAt, Steps
<1>6. Locking'
  BY <1>1, <1>3, <1>4, RoleKept
     DEF TableInv, WriterAt, Writing, InsideAt, CountedAt, MutexSteps
<1>7. WalkOK(t)'
  BY <1>3, <1>4, NotWalking DEF Moves, WalkSteps
<1>8. QED
  BY <1>1, <1>3, <1>4, <1>5, <1>6, <1>7, Quiet DEF GrowthSteps

LEMMA WriteWaitInv ==
  ASSUME TableInv, NEW t \in Threads, WriteWait(t)
  PROVE  TableInv'
<1> DEFINE s == IF op[t] = "insert" THEN "resize" ELSE "find"
<1>1. /\ pc[t] = "write_wait" /\ wrt > 0 /\ wrt' = wrt - 1 /\ Goto(t, s)
      /\ UNCHANGED <<table, mutex, readcount, locals, growth, fault>>
  BY DEF WriteWait
<1>2. /\ Locals /\ Locking /\ op[t] \in {"insert", "remove"}
      /\ ArgAt("write_wait", op[t], arg[t], result[t])
  BY <1>1 DEF TableInv, Locals, OpAt
<1>3. Goes(t, s)
  BY <1>1, <1>2, GoesTo DEF Steps
<1>4. OpAt(s, op[t]) /\ ArgAt(s, op[t], arg[t], result[t])
  BY <1>2 DEF OpAt, ArgAt, Steps, OverAt
<1>5. Locking'
  BY <1>1, <1>2, <1>3, WriteLocked
     DEF Goes, WriterAt, Writing, InsideAt, CountedAt, MutexSteps
<1>6. WalkOK(t)'
  BY <1>3, NotWalking DEF Goes, Moves, WalkSteps
<1>7. QED
  BY <1>1, <1>3, <1>4, <1>5, <1>6, Quiet DEF Goes, GrowthSteps

LEMMA WritePostInv ==
  ASSUME TableInv, NEW t \in Threads, WritePost(t)
  PROVE  TableInv'
<1>1. /\ pc[t] = "write_post" /\ wrt' = wrt + 1 /\ Return(t)
      /\ UNCHANGED <<table, mutex, readcount, growth, fault>>
  BY DEF WritePost
<1>2. Locals /\ Locking /\ op[t] \in {"insert", "remove"}
  BY <1>1 DEF TableInv, Locals, OpAt
<1>3. Moves(t, "idle", "idle", NoArg, 0, NoResult)
  BY <1>1, <1>2, Returning
<1>4. OpAt("idle", "idle") /\ ArgAt("idle", "idle", NoArg, NoResult)
  BY DEF OpAt, ArgAt, Steps, NoArg, NoResult, NoValue, ArgType, ResultType
<1>5. Locking'
  BY <1>1, <1>2, <1>3, WriteUnlocked
     DEF WriterAt, Writing, InsideAt, CountedAt, MutexSteps
<1>6. WalkOK(t)'
  BY <1>3, NotWalking DEF Moves, WalkSteps
<1>7. QED
  BY <1>1, <1>3, <1>4, <1>5, <1>6, Quiet DEF GrowthSteps

-----------------------------------------------------------------------------
(* LookupHashTable                                                          *)

(* A lookup goes on to s, outside find. *)
LEMMA LookupGoes ==
  ASSUME TableInv, NEW t \in Threads, NEW s, Goto(t, s), UNCHANGED <<table, locals, growth, fault>>,
         \/ pc[t] \in {"enter_wait", "enter", "enter_wrt"}
            /\ s \in {"enter", "enter_wrt", "enter_post"}
         \/ pc[t] = "enter_post" /\ s = "find"
         \/ pc[t] \in {"leave_wait", "leave"} /\ s \in {"leave", "leave_post"}
  PROVE  /\ Goes(t, s) /\ op[t] = "lookup"
         /\ Locking' => TableInv'
<1>1. Locals /\ op[t] = "lookup" /\ ArgAt(pc[t], op[t], arg[t], result[t])
  BY DEF TableInv, Locals, OpAt
<1>2. Goes(t, s)
  BY <1>1, GoesTo DEF Steps
<1>3. OpAt(s, op[t]) /\ ArgAt(s, op[t], arg[t], result[t])
  BY <1>1 DEF OpAt, ArgAt, Steps, OverAt
<1>4. WalkOK(t)'
  BY <1>2, NotWalking DEF Goes, Moves, WalkSteps
<1>5. ASSUME Locking' PROVE TableInv'
  BY <1>2, <1>3, <1>4, <1>5, Quiet DEF Goes, GrowthSteps
<1>6. QED
  BY <1>1, <1>2, <1>5

LEMMA MutexWaitInv ==
  ASSUME TableInv, NEW t \in Threads,
         MutexWait(t, "enter_wait", "enter") \/ MutexWait(t, "leave_wait", "leave")
  PROVE  TableInv'
<1>1. PICK s \in {"enter", "leave"} :
        /\ \/ pc[t] = "enter_wait" /\ s = "enter"
           \/ pc[t] = "leave_wait" /\ s = "leave"
        /\ mutex > 0 /\ mutex' = mutex - 1 /\ Goto(t, s)
        /\ UNCHANGED <<table, wrt, readcount, locals, growth, fault>>
  BY DEF MutexWait
<1>2. Goes(t, s) /\ op[t] = "lookup" /\ (Locking' => TableInv')
  BY <1>1, LookupGoes
<1>3. Locking'
  BY <1>1, <1>2, MutexLocked
     DEF TableInv, Goes, WriterAt, Writing, InsideAt, CountedAt, MutexSteps
<1>4. QED
  BY <1>2, <1>3

LEMMA LookupEnterPostInv ==
  ASSUME TableInv, NEW t \in Threads, LookupEnterPost(t)
  PROVE  TableInv'
<1>1. /\ pc[t] = "enter_post" /\ mutex' = mutex + 1 /\ Goto(t, "find")
      /\ UNCHANGED <<table, wrt, readcount, locals, growth, fault>>
  BY DEF LookupEnterPost
<1>2. Goes(t, "find") /\ op[t] = "lookup" /\ (Locking' => TableInv')
  BY <1>1, LookupGoes
<1>3. Locking'
  BY <1>1, <1>2, MutexUnlocked
     DEF TableInv, Goes, WriterAt, Writing, InsideAt, CountedAt, MutexSteps
<1>4. QED
  BY <1>2, <1>3

LEMMA LookupCountsInv ==
  ASSUME TableInv, NEW t \in Threads, LookupEnter(t) \/ LookupFirst(t) \/ LookupLeave(t)
  PROVE  TableInv'
<1>1. Locking'
  BY EnterLocking, FirstLocking, LeaveLocking DEF TableInv
<1>2. PICK s : /\ Goto(t, s) /\ UNCHANGED <<table, locals, growth, fault>>
               /\ \/ pc[t] \in {"enter", "enter_wrt"} /\ s \in {"enter_wrt", "enter_post"}
                  \/ pc[t] = "leave" /\ s = "leave_post"
  BY DEF LookupEnter, LookupFirst, LookupLeave
<1>3. QED
  BY <1>1, <1>2, LookupGoes

LEMMA LookupReturnInv ==
  ASSUME TableInv, NEW t \in Threads, LookupReturn(t)
  PROVE  TableInv'
<1>1. /\ pc[t] = "leave_post" /\ mutex' = mutex + 1 /\ Return(t)
      /\ UNCHANGED <<table, wrt, readcount, growth, fault>>
  BY DEF LookupReturn
<1>2. Locals /\ Locking
  BY DEF TableInv
<1>3. Moves(t, "idle", "idle", NoArg, 0, NoResult)
  BY <1>1, <1>2, Returning
<1>4. OpAt("idle", "idle") /\ ArgAt("idle", "idle", NoArg, NoResult)
  BY DEF OpAt, ArgAt, Steps, NoArg, NoResult, NoValue, ArgType, ResultType
<1>5. Locking'
  BY <1>1, <1>2, <1>3, MutexUnlocked
     DEF WriterAt, Writing, InsideAt, CountedAt, MutexSteps
<1>6. WalkOK(t)'
  BY <1>3, NotWalking DEF Moves, WalkSteps
<1>7. QED
  BY <1>1, <1>3, <1>4, <1>5, <1>6, Quiet DEF GrowthSteps

-----------------------------------------------------------------------------
(* ResizeHashtable                                                          *)

LEMMA Smallest ==
  ASSUME NEW T, T \subseteq Nat, T # {}
  PROVE  \E x \in T : \A y \in T : x <= y
<1>1. PICK x \in T : \A y \in T : ~ (<<y, x>> \in OpToRel(<, Nat))
  BY WFMin, NatLessThanWellFounded
<1>2. \A y \in T : y \in Nat /\ x \in Nat
  OBVIOUS
<1>3. \A y \in T : ~ (y < x)
  BY <1>1, <1>2 DEF OpToRel
<1>4. \A y \in T : x <= y
  BY <1>2, <1>3
<1>5. QED
  BY <1>4

LEMMA FirstUsed ==
  ASSUME Chains, NEW i, UsedFrom(i) # {}
  PROVE  /\ FirstFrom(i) \in UsedFrom(i) /\ \A c \in UsedFrom(i) : FirstFrom(i) <= c
         /\ FirstFrom(i) \in BucketNums /\ 1 \in 1 .. Len(buckets[FirstFrom(i)])
<1>1. buckets \in [BucketNums -> Seq(Pairs)]
  BY ChainsParts
<1>2. UsedFrom(i) \subseteq BucketNums /\ UsedFrom(i) \subseteq Nat
  BY <1>1 DEF UsedFrom, BucketNums
<1>3. \E b \in UsedFrom(i) : \A c \in UsedFrom(i) : b <= c
  BY <1>2, Smallest
<1>4. FirstFrom(i) \in UsedFrom(i) /\ \A c \in UsedFrom(i) : FirstFrom(i) <= c
  BY <1>3 DEF FirstFrom
<1>5. \A b \in UsedFrom(i) : b \in BucketNums /\ buckets[b] # <<>>
  BY <1>1 DEF UsedFrom
<1>6. \A b \in UsedFrom(i) : 1 \in 1 .. Len(buckets[b])
  BY <1>1, <1>5
<1>7. QED
  BY <1>4, <1>5, <1>6

(* A resize that finds nothing, or that is through after one pair. *)
LEMMA NothingStored ==
  ASSUME Chains, UsedFrom(0) = {}
  PROVE  Stored = 0
<1>1. buckets \in [BucketNums -> Seq(Pairs)]
  BY ChainsParts
<1>2. \A b \in BucketNums : buckets[b] = <<>>
  BY <1>1 DEF UsedFrom, BucketNums
<1>3. Places = {}
  BY <1>1, <1>2, PlacesAre
<1>4. QED
  BY <1>3, FS_EmptySet DEF Stored

LEMMA OneStored ==
  ASSUME Chains, UsedFrom(0) # {}, NEW b, b = FirstFrom(0),
         ~(1 < Len(buckets[b])), UsedFrom(b + 1) = {}
  PROVE  Stored = 1
<1>1. buckets \in [BucketNums -> Seq(Pairs)]
  BY ChainsParts
<1>2. b \in UsedFrom(0) /\ (\A c \in UsedFrom(0) : b <= c) /\ b \in BucketNums
  BY FirstUsed
<1>3. Len(buckets[b]) = 1
  <2>1. buckets[b] \in Seq(Pairs) /\ 1 \in 1 .. Len(buckets[b])
    BY <1>1, <1>2, FirstUsed
  <2> DEFINE n == Len(buckets[b])
  <2>2. n \in Nat /\ n >= 1 /\ ~(1 < n)
    BY <2>1
  <2> HIDE DEF n
  <2>3. n = 1
    BY <2>2
  <2>4. QED
    BY <2>3 DEF n
<1>4. \A c \in BucketNums : c # b => buckets[c] = <<>>
  <2> SUFFICES ASSUME NEW c \in BucketNums, c # b, buckets[c] # <<>> PROVE FALSE
    OBVIOUS
  <2>1. c \in UsedFrom(0)
    BY <1>1 DEF UsedFrom, BucketNums
  <2>2. c >= b + 1
    BY <1>2, <2>1 DEF BucketNums
  <2>3. c \in UsedFrom(b + 1)
    BY <1>1, <2>2 DEF UsedFrom
  <2>4. QED
    BY <2>3
<1>5. \A q : q \in Places <=> q = <<b, 1>>
  <2> SUFFICES ASSUME NEW q PROVE q \in Places <=> q = <<b, 1>>
    OBVIOUS
  <2>1. ASSUME NEW c \in BucketNums, NEW i \in 1 .. Len(buckets[c]) PROVE c = b /\ i = 1
    <3>1. c = b
      BY <1>4
    <3>2. i \in 1 .. 1
      BY <1>3, <3>1
    <3>3. QED
      BY <3>1, <3>2
  <2>2. 1 \in 1 .. Len(buckets[b])
    BY <1>3
  <2>3. QED
    BY <1>1, <1>2, <2>1, <2>2, PlacesAre
<1>6. Places = {<<b, 1>>}
  BY <1>5
<1>7. QED
  BY <1>6, FS_Singleton DEF Stored

ResizeSteps == {"resize", "iterate", "transfer", "free_new"}

LEMMA Resizer ==
  ASSUME TableInv, NEW t \in Threads, pc[t] \in ResizeSteps
  PROVE  /\ Locals /\ Locking /\ Chains /\ GrowthOK /\ op[t] = "insert" /\ t \in Writers
         /\ ArgAt(pc[t], "insert", arg[t], result[t])
         /\ Stored \in Nat /\ num_elements \in Nat
         /\ \A u \in Threads \ {t} : pc[u] \notin ResizeSteps
<1>1. Locals /\ Locking /\ Chains /\ GrowthOK
  BY DEF TableInv
<1>2. op[t] = "insert" /\ ArgAt(pc[t], "insert", arg[t], result[t])
  BY <1>1 DEF Locals, OpAt, ResizeSteps
<1>3. \A u \in Threads : pc[u] \in ResizeSteps => u \in Writers
  BY Roles DEF ResizeSteps, WriterAt, Writing
<1>4. Stored \in Nat /\ num_elements \in Nat
  BY FS_CardinalityType DEF TableInv, CountOK, Stored
<1>5. QED
  BY <1>1, <1>2, <1>3, <1>4 DEF Locking

(* A resize only walks the table: what it has found is in growth. *)
LEMMA ResizeKept ==
  ASSUME TableInv, NEW t \in Threads, pc[t] \in ResizeSteps,
         NEW s \in ResizeSteps \cup {"find"}, Goes(t, s),
         UNCHANGED <<table, wrt, mutex, readcount>>, GrowthOK'
  PROVE  TableInv'
<1>1. /\ Locals /\ op[t] = "insert" /\ t \in Writers
      /\ ArgAt(pc[t], "insert", arg[t], result[t])
  BY Resizer
<1>2. OpAt(s, op[t]) /\ ArgAt(s, op[t], arg[t], result[t])
  BY <1>1 DEF OpAt, ArgAt, Steps, OverAt, ResizeSteps
<1>3. Locals'
  BY <1>1, <1>2, LocalsStep DEF Goes
<1>4. Locking'
  BY <1>1, RoleKept DEF TableInv, Goes, ResizeSteps, WriterAt, Writing, InsideAt,
     CountedAt, MutexSteps
<1>5. \A u \in Threads : WalkOK(u)'
  <2>1. WalkOK(t)'
    BY NotWalking DEF Goes, Moves, ResizeSteps, WalkSteps
  <2>2. QED
    BY <1>1, <2>1, WalkKept DEF TableInv, Goes
<1>6. Chains' /\ Places' = Places /\ Stored' = Stored
  BY DEF TableInv, Chains, table, Places, Stored
<1>7. CountOK'
  <2>1. Ahead' = Ahead
    BY <1>1, AheadStep DEF Goes, ResizeSteps
  <2>2. QED
    BY <1>6, <2>1 DEF TableInv, CountOK, table
<1>8. QED
  BY <1>3, <1>4, <1>5, <1>6, <1>7 DEF TableInv

LEMMA GoesOn ==
  ASSUME TableInv, NEW t \in Threads, pc[t] \in ResizeSteps,
         NEW s \in ResizeSteps \cup {"find"}, Goto(t, s) \/ (s = pc[t] /\ pc' = pc),
         UNCHANGED locals
  PROVE  /\ Goes(t, s) /\ pc'[t] = s
         /\ \A u \in Threads \ {t} : pc'[u] = pc[u] /\ pc'[u] \notin ResizeSteps
<1>1. Locals /\ \A u \in Threads \ {t} : pc[u] \notin ResizeSteps
  BY Resizer
<1>2. Goes(t, s)
  BY <1>1, GoesTo, Stays DEF ResizeSteps, Steps
<1>3. QED
  BY <1>1, <1>2 DEF Goes, Moves

LEMMA ResizeStartInv ==
  ASSUME TableInv, ~fault, NEW t \in Threads, ResizeStart(t)
  PROVE  TableInv'
<1>1. /\ pc[t] = "resize" /\ pc[t] \in ResizeSteps
      /\ UNCHANGED <<table, wrt, mutex, readcount, locals, growth, fault>>
  BY DEF ResizeStart, ResizeSteps
<1>2. growth = NoGrowth /\ growth \in GrowthType
  BY <1>1, Resizer, Growing DEF GrowthOK
<1>3. PICK s \in {"iterate", "find"} : /\ Goto(t, s)
                                       /\ s = "iterate" => num_elements >= 3 * NumBuckets
  BY DEF ResizeStart
<1>4. s \in ResizeSteps \cup {"find"}
  BY DEF ResizeSteps
<1>5. Goes(t, s) /\ pc'[t] = s /\ \A u \in Threads \ {t} : pc'[u] \notin ResizeSteps
  BY <1>1, <1>3, <1>4, GoesOn
<1>6. GrowthOK'
  BY <1>1, <1>2, <1>3, <1>5 DEF GrowthOK, ResizeSteps, table, NoGrowth
<1>7. QED
  BY <1>1, <1>4, <1>5, <1>6, ResizeKept

LEMMA MakeIteratorInv ==
  ASSUME TableInv, ~fault, NEW t \in Threads, HashTableMakeIterator(t)
  PROVE  TableInv'
<1>1. /\ pc[t] = "iterate" /\ pc[t] \in ResizeSteps
      /\ UNCHANGED <<table, wrt, mutex, readcount, locals>>
  BY DEF HashTableMakeIterator, ResizeSteps
<1>2. /\ growth = NoGrowth /\ growth \in GrowthType /\ num_elements >= 3 * NumBuckets
      /\ Chains /\ num_elements \in Nat
  BY <1>1, Resizer DEF GrowthOK
<1>3. buckets' = buckets /\ num_elements' = num_elements
  BY <1>1 DEF table
<1>4. CASE /\ UsedFrom(0) # {}
           /\ growth' = [growth EXCEPT !.valid = TRUE, !.bucket = FirstFrom(0), !.node = 1]
           /\ Goto(t, "transfer") /\ UNCHANGED fault
  <2>1. "transfer" \in ResizeSteps
    BY DEF ResizeSteps
  <2>2. /\ Goes(t, "transfer") /\ pc'[t] = "transfer"
        /\ \A u \in Threads \ {t} : pc'[u] \notin ResizeSteps
    BY <1>1, <1>4, <2>1, GoesOn
  <2>3. /\ FirstFrom(0) \in BucketNums /\ 1 \in 1 .. Len(buckets[FirstFrom(0)])
    BY <1>2, <1>4, FirstUsed
  <2>4. /\ growth' \in GrowthType /\ growth'.valid /\ growth'.bucket = FirstFrom(0)
        /\ growth'.node = 1 /\ growth'.inserted = 0
    BY <1>2, <1>4, <2>3 DEF GrowthType, NoGrowth, BucketNums
  <2>5. FirstNode(growth)'
    BY <1>3, <1>4, <2>4 DEF FirstNode, UsedFrom, FirstFrom
  <2>6. GrowthOK'
    BY <1>2, <1>3, <1>4, <2>1, <2>2, <2>3, <2>4, <2>5 DEF GrowthOK, ResizeSteps
  <2>7. QED
    BY <1>1, <2>1, <2>2, <2>6, ResizeKept
<1>5. CASE UsedFrom(0) = {} /\ fault' = TRUE /\ UNCHANGED <<growth, pc>>
  <2>1. Goes(t, "iterate") /\ pc' = pc
    BY <1>1, <1>5, GoesOn
  <2>2. Stored = 0 /\ Stored' = Stored
    BY <1>2, <1>3, <1>5, NothingStored DEF Stored, Places
  <2>3. GrowthOK'
    <3>1. num_elements' > Stored'
      BY <1>2, <1>3, <2>2, TableAssumption
    <3>2. GrowthOK /\ \A u \in Threads \ {t} : pc[u] \notin ResizeSteps
      BY <1>1, Resizer
    <3>3. QED
      BY <1>1, <1>2, <1>3, <1>5, <3>1, <3>2 DEF GrowthOK, NoGrowth, ResizeSteps
  <2>4. QED
    BY <1>1, <2>1, <2>3, ResizeKept
<1>6. CASE Goto(t, "free_new") /\ UNCHANGED <<growth, fault>>
  <2>1. "free_new" \in ResizeSteps
    BY DEF ResizeSteps
  <2>2. /\ Goes(t, "free_new") /\ pc'[t] = "free_new"
        /\ \A u \in Threads \ {t} : pc'[u] \notin ResizeSteps
    BY <1>1, <1>6, <2>1, GoesOn
  <2>3. GrowthOK'
    BY <1>2, <1>3, <1>6, <2>1, <2>2 DEF GrowthOK, ResizeSteps, NoGrowth
  <2>4. QED
    BY <1>1, <2>1, <2>2, <2>3, ResizeKept
<1>7. QED
  BY <1>4, <1>5, <1>6 DEF HashTableMakeIterator

(* The iterator after a step: at a pair, or past the only pair there was. *)
LEMMA IteratorNext ==
  ASSUME Chains, GrowthOK, growth.valid
  PROVE  /\ HTIteratorNext(growth) \in GrowthType
         /\ HTIteratorNext(growth).valid =>
              HTIteratorNext(growth).node \in 1 .. Len(buckets[HTIteratorNext(growth).bucket])
         /\ FirstNode(growth) => HTIteratorNext(growth).valid \/ Stored <= 1
<1> DEFINE g == growth
           b == g.bucket
<1>1. g \in GrowthType /\ b \in BucketNums /\ g.node \in 1 .. Len(buckets[b])
  BY DEF GrowthOK, GrowthType, BucketNums
<1>2. Len(buckets[b]) \in Nat
  BY <1>1, ChainsParts
<1>3. CASE g.node < Len(buckets[b])
  <2> DEFINE n == [g EXCEPT !.node = @ + 1]
  <2>1. HTIteratorNext(growth) = n
    BY <1>3 DEF HTIteratorNext
  <2>2. n \in GrowthType /\ n.bucket = b /\ n.node = g.node + 1 /\ n.valid
    BY <1>1, <1>2 DEF GrowthType
  <2> HIDE DEF n
  <2>3. n.node \in 1 .. Len(buckets[b])
    BY <1>1, <1>2, <1>3, <2>2
  <2>4. QED
    BY <2>1, <2>2, <2>3
<1>4. CASE ~(g.node < Len(buckets[b])) /\ UsedFrom(b + 1) = {}
  <2> DEFINE n == [g EXCEPT !.valid = FALSE]
  <2>1. HTIteratorNext(growth) = n
    BY <1>4 DEF HTIteratorNext
  <2>2. n \in GrowthType /\ ~n.valid
    BY <1>1 DEF GrowthType
  <2>3. FirstNode(growth) => Stored <= 1
    BY <1>4, OneStored DEF FirstNode
  <2> HIDE DEF n
  <2>4. QED
    BY <2>1, <2>2, <2>3
<1>5. CASE ~(g.node < Len(buckets[b])) /\ UsedFrom(b + 1) # {}
  <2> DEFINE f == FirstFrom(b + 1)
             n == [g EXCEPT !.bucket = f, !.node = 1]
  <2>1. HTIteratorNext(growth) = n
    BY <1>5 DEF HTIteratorNext
  <2>2. f \in BucketNums /\ 1 \in 1 .. Len(buckets[f])
    BY <1>5, FirstUsed
  <2>3. n \in GrowthType /\ n.bucket = f /\ n.node = 1 /\ n.valid
    BY <1>1, <2>2 DEF GrowthType, BucketNums
  <2> HIDE DEF n, f
  <2>4. QED
    BY <2>1, <2>2, <2>3
<1>6. QED
  BY <1>3, <1>4, <1>5

LEMMA ResizeTransferInv ==
  ASSUME TableInv, ~fault, NEW t \in Threads, ResizeTransfer(t)
  PROVE  TableInv'
<1>1. /\ pc[t] = "transfer" /\ pc[t] \in ResizeSteps /\ growth.valid
      /\ UNCHANGED <<table, wrt, mutex, readcount, locals, fault>>
  BY DEF ResizeTransfer, ResizeSteps
<1>2. /\ GrowthOK /\ Chains /\ num_elements >= 3 * NumBuckets
      /\ \A u \in Threads \ {t} : pc[u] \notin ResizeSteps
  BY <1>1, Resizer DEF GrowthOK
<1>3. buckets' = buckets /\ num_elements' = num_elements /\ Stored' = Stored
  BY <1>1 DEF table, Stored, Places
<1>4. CASE /\ growth.inserted = 0
           /\ growth' = [HTIteratorNext(growth) EXCEPT !.inserted = 1]
           /\ UNCHANGED pc
  <2> DEFINE n == HTIteratorNext(growth)
  <2>1. FirstNode(growth)
    BY <1>1, <1>2, <1>4 DEF GrowthOK
  <2>2. /\ n \in GrowthType
        /\ n.valid => n.node \in 1 .. Len(buckets[n.bucket])
        /\ n.valid \/ Stored <= 1
    BY <1>1, <1>2, <2>1, IteratorNext
  <2> HIDE DEF n
  <2>3. growth' = [n EXCEPT !.inserted = 1]
    BY <1>4 DEF n
  <2>4. /\ growth' \in GrowthType /\ growth'.inserted = 1 /\ growth'.valid = n.valid
        /\ growth'.node = n.node /\ growth'.bucket = n.bucket
    BY <2>2, <2>3 DEF GrowthType
  <2>5. Goes(t, "transfer") /\ pc' = pc
    BY <1>1, <1>4, GoesOn
  <2>6. GrowthOK'
    <3>1. growth'.valid => growth'.node \in 1 .. Len(buckets'[growth'.bucket])
      BY <1>3, <2>2, <2>4
    <3>2. growth'.valid \/ Stored' <= 1
      BY <1>3, <2>2, <2>4
    <3>3. \A u \in Threads : pc'[u] # "iterate" /\ (pc'[u] = "transfer" => u = t)
      BY <1>1, <1>2, <2>5 DEF ResizeSteps
    <3>4. pc'[t] = "transfer" /\ num_elements' >= 3 * NumBuckets /\ ~fault'
      BY <1>1, <1>2, <1>3, <2>5
    <3>5. QED
      BY <2>4, <3>1, <3>2, <3>3, <3>4 DEF GrowthOK
  <2>7. QED
    BY <1>1, <2>5, <2>6, ResizeKept
<1>5. CASE Goto(t, "free_new") /\ UNCHANGED growth
  <2>1. "free_new" \in ResizeSteps
    BY DEF ResizeSteps
  <2>2. /\ Goes(t, "free_new") /\ pc'[t] = "free_new"
        /\ \A u \in Threads \ {t} : pc'[u] \notin ResizeSteps
    BY <1>1, <1>5, <2>1, GoesOn
  <2>3. GrowthOK'
    BY <1>1, <1>2, <1>3, <1>5, <2>2 DEF GrowthOK, ResizeSteps
  <2>4. QED
    BY <1>1, <2>1, <2>2, <2>3, ResizeKept
<1>6. QED
  BY <1>4, <1>5 DEF ResizeTransfer

LEMMA FreeHashTableInv ==
  ASSUME TableInv, ~fault, NEW t \in Threads, FreeHashTable(t)
  PROVE  TableInv'
<1>1. /\ pc[t] = "free_new" /\ pc[t] \in ResizeSteps /\ growth' = NoGrowth /\ Goto(t, "find")
      /\ UNCHANGED <<table, wrt, mutex, readcount, locals, fault>>
  BY DEF FreeHashTable, ResizeSteps
<1>2. /\ Goes(t, "find") /\ pc'[t] = "find"
      /\ \A u \in Threads \ {t} : pc'[u] \notin ResizeSteps
  BY <1>1, GoesOn
<1>3. growth' \in GrowthType /\ ~growth'.valid
  BY <1>1, TableAssumption DEF NoGrowth, GrowthType
<1>4. GrowthOK'
  BY <1>1, <1>2, <1>3 DEF GrowthOK, ResizeSteps
<1>5. QED
  BY <1>1, <1>2, <1>4, ResizeKept

LEMMA ResizeSwapInv ==
  ASSUME TableInv, ~fault, NEW t \in Threads, ResizeSwap(t)
  PROVE  TableInv'
<1>1. /\ pc[t] = "transfer" /\ pc[t] \in ResizeSteps /\ ~growth.valid /\ fault' = TRUE
      /\ UNCHANGED <<table, wrt, mutex, readcount, pc, locals, growth>>
  BY DEF ResizeSwap, ResizeSteps
<1>2. /\ GrowthOK /\ num_elements >= 3 * NumBuckets /\ num_elements \in Nat /\ Stored \in Nat
      /\ \A u \in Threads \ {t} : pc[u] \notin ResizeSteps
  BY <1>1, Resizer DEF GrowthOK
<1>3. buckets' = buckets /\ num_elements' = num_elements /\ Stored' = Stored
  BY <1>1 DEF table, Stored, Places
<1>4. growth.inserted = 1 /\ Stored <= 1
  BY <1>1, <1>2 DEF GrowthOK, FirstNode
<1>5. num_elements' > Stored'
  BY <1>2, <1>3, <1>4, TableAssumption
<1>6. Goes(t, "transfer") /\ pc' = pc
  BY <1>1, GoesOn
<1>7. GrowthOK'
  BY <1>1, <1>2, <1>3, <1>4, <1>5, <1>6 DEF GrowthOK, ResizeSteps
<1>8. QED
  BY <1>1, <1>6, <1>7, ResizeKept

-----------------------------------------------------------------------------
(* The theorems                                                             *)

LEMMA InitTableInv == Init => TableInv
<1> SUFFICES ASSUME Init PROVE TableInv
  OBVIOUS
<1>1. Locals
  BY InitLocals
<1>2. Writers = {} /\ Inside = {} /\ Counted = {}
  BY Roles DEF Init, WriterAt, InsideAt, CountedAt, Writing
<1>3. Locking
  BY <1>2, FS_EmptySet DEF Init, Locking, MutexSteps
<1>4. Chains
  BY DEF Init, Chains
<1>5. \A t \in Threads : WalkOK(t)
  BY DEF Init, WalkOK
<1>6. Places = {}
  BY DEF Init, Places
<1>7. CountOK
  BY <1>6, FS_EmptySet DEF Init, CountOK, Stored, Ahead
<1>8. GrowthOK
  BY TableAssumption DEF Init, GrowthOK, GrowthType, NoGrowth
<1>9. QED
  BY <1>1, <1>3, <1>4, <1>5, <1>7, <1>8 DEF TableInv

LEMMA StutterInv == TableInv /\ UNCHANGED vars => TableInv'
<1> SUFFICES ASSUME TableInv, UNCHANGED vars PROVE TableInv'
  OBVIOUS
<1>1. Locals' /\ Locking'
  BY DEF TableInv, vars, locals, Locals, LocalTypes, Locking, Writers, Inside, Counted
<1>2. Chains' /\ Stored' = Stored /\ Places' = Places
  BY DEF TableInv, vars, table, Chains, Stored, Places
<1>3. \A t \in Threads : WalkOK(t)'
  BY DEF TableInv, vars, locals, table, WalkOK, Chain, BucketOf
<1>4. CountOK'
  BY <1>2 DEF TableInv, vars, table, CountOK, Ahead
<1>5. GrowthOK'
  BY <1>2 DEF TableInv, vars, table, GrowthOK, FirstNode, UsedFrom, FirstFrom
<1>6. QED
  BY <1>1, <1>2, <1>3, <1>4, <1>5 DEF TableInv

LEMMA NextTableInv == TableInv /\ [Next]_vars => TableInv'
<1> SUFFICES ASSUME TableInv, [Next]_vars PROVE TableInv'
  OBVIOUS
<1>1. CASE UNCHANGED vars
  BY <1>1, StutterInv
<1>2. ASSUME ~fault, NEW t \in Threads, Call(t) \/ Acquire(t) \/ Proceed(t) PROVE TableInv'
  BY <1>2, CallInv, WriteWaitInv, LookupCountsInv, MutexWaitInv, FindStartInv, FindHitInv,
     FindNextInv, ResizeStartInv, MakeIteratorInv, ResizeTransferInv, ResizeSwapInv,
     FreeHashTableInv, InsertCountInv, InsertPushInv, InsertReplaceInv, RemoveUncountInv,
     WritePostInv, LookupEnterPostInv, LookupReturnInv
     DEF Acquire, Proceed
<1>3. QED
  BY <1>1, <1>2 DEF Next

LEMMA TableInvariant == Spec => []TableInv
BY InitTableInv, NextTableInv, PTL DEF Spec

LEMMA FaultRemembered == Spec => [](fault \in BOOLEAN)
<1>1. Init => fault \in BOOLEAN
  BY DEF Init
<1>2. fault \in BOOLEAN /\ [Next]_vars => (fault \in BOOLEAN)'
  BY DEF Next, vars, Call, Acquire, Proceed, WriteWait, LookupFirst, MutexWait, FindStart,
     FindHit, FindNext, ResizeStart, HashTableMakeIterator, ResizeTransfer, ResizeSwap,
     FreeHashTable, InsertCount, InsertPush, InsertReplace, RemoveUncount, WritePost,
     LookupEnter, LookupEnterPost, LookupLeave, LookupReturn
<1>3. QED
  BY <1>1, <1>2, PTL DEF Spec

LEMMA InvTypeOK == TableInv /\ fault \in BOOLEAN => TypeOK
<1> SUFFICES ASSUME TableInv, fault \in BOOLEAN PROVE TypeOK
  OBVIOUS
<1>1. readcount \in 0 .. Cardinality(Threads)
  BY CountedFinite, TableAssumption, FS_CardinalityType DEF TableInv, Locking
<1>2. \A t \in Threads : pc[t] \in {"walk", "replace"} => pos[t] \in 1 .. Len(Chain(t))
  BY DEF TableInv, WalkOK
<1>3. QED
  BY <1>1, <1>2 DEF TableInv, Locals, LocalTypes, Ops, ArgType, ResultType, Locking, Chains,
     CountOK, GrowthOK, TypeOK

LEMMA InvExclusion == TableInv => Exclusion
<1> SUFFICES ASSUME TableInv PROVE Exclusion
  OBVIOUS
<1>1. Cardinality(Writers) <= 1
  <2>1. CASE Writers = {}
    BY <2>1, FS_EmptySet
  <2>2. CASE Writers # {}
    <3>1. PICK t : t \in Writers
      BY <2>2
    <3>2. Writers = {t}
      BY <3>1 DEF TableInv, Locking
    <3>3. QED
      BY <3>2, FS_Singleton
  <2>3. QED
    BY <2>1, <2>2
<1>2. QED
  BY <1>1 DEF TableInv, Locking, Counted, Exclusion

LEMMA InvChainsOK == TableInv => ChainsOK
<1> SUFFICES ASSUME TableInv PROVE ChainsOK
  OBVIOUS
<1>1. DOMAIN buckets = 0 .. NumBuckets - 1
  BY DEF TableInv, Chains
<1>2. Writers = {} => Ahead = 0
  <2>1. \A t \in Threads : pc[t] \in {"push", "uncount"} => t \in Writers
    BY Roles DEF WriterAt, Writing
  <2>2. QED
    BY <2>1 DEF Ahead
<1>3. Stored \in Nat
  BY FS_CardinalityType DEF TableInv, CountOK, Stored
<1>4. Writers = {} => IF MayRunOut THEN num_elements >= Stored ELSE num_elements = Stored
  BY <1>2, <1>3, TableAssumption DEF TableInv, CountOK
<1>5. QED
  BY <1>1, <1>4 DEF TableInv, Chains, GrowthOK, ChainsOK

(* Type correctness of the hash table: no thread, whatever the others do    *)
(* and however many there are, is at a node that is not in its chain.       *)
THEOREM TableTypeCorrect == Spec => []TypeOK
BY TableInvariant, FaultRemembered, InvTypeOK, PTL

(* Readers and writers: for any number of threads, nobody is at the table   *)
(* while an insertion or a removal is between its semaphore calls, and      *)
(* readcount counts the lookups there, so the last of them posts wrt        *)
(* (HashTable.c:253-268).                                                   *)
THEOREM ReadersAndWriters == Spec => []Exclusion
BY TableInvariant, InvExclusion, PTL

(* The chains: for any number of threads, keys and buckets, a key is in the *)
(* table at most once and in its own bucket, num_elements never falls below *)
(* the number of pairs (and is it when malloc does not fail), and a resize  *)
(* goes wrong only after failed insertions were counted.                    *)
THEOREM ChainsKept == Spec => []ChainsOK
BY TableInvariant, InvChainsOK, PTL

-----------------------------------------------------------------------------
(* The hash table implements the atomic map                                 *)

(* The chain c holds the value v under the key k. *)
Holds(c, k, v) == \E i \in 1 .. Len(c) : c[i].key = k /\ c[i].value = v

Bucket(k) == buckets[HashKeyToBucketNum(k)]

LEMMA ContentsOf ==
  ASSUME Chains, NEW k \in KeySet
  PROVE  /\ \A v : Holds(Bucket(k), k, v) => Contents[k] = v /\ v \in Values
         /\ (\A v : ~Holds(Bucket(k), k, v)) => Contents[k] = NoValue
<1> DEFINE c == Bucket(k)
           at == {i \in 1 .. Len(c) : c[i].key = k}
<1>1. ChainOf(HashKeyToBucketNum(k), c)
  BY Hashed, ChainsParts DEF Bucket
<1>2. Contents[k] = IF at = {} THEN NoValue
                    ELSE c[CHOOSE i \in at : \A j \in at : i <= j].value
  BY DEF Contents, Bucket
<1> HIDE DEF c
<1>3. ASSUME NEW v, Holds(c, k, v) PROVE Contents[k] = v /\ v \in Values
  <2>1. PICK i \in 1 .. Len(c) : c[i].key = k /\ c[i].value = v
    BY <1>3 DEF Holds
  <2>2. \A j \in at : j = i
    BY <1>1, <2>1 DEF ChainOf
  <2>3. i \in at /\ i \in Nat
    BY <2>1
  <2> HIDE DEF at
  <2>4. i <= i /\ \A j \in at : i <= j
    BY <2>2, <2>3
  <2>5. (CHOOSE m \in at : \A j \in at : m <= j) = i
    BY <2>2, <2>3, <2>4
  <2>6. c[i] \in Pairs
    BY <1>1, <2>1 DEF ChainOf
  <2>7. QED
    BY <1>2, <2>1, <2>3, <2>5, <2>6 DEF Pairs
<1>4. ASSUME \A v : ~Holds(c, k, v) PROVE Contents[k] = NoValue
  <2>1. at = {}
    BY <1>4 DEF Holds
  <2>2. QED
    BY <1>2, <2>1
<1>5. QED
  BY <1>3, <1>4 DEF c

LEMMA ContentsNext ==
  ASSUME Chains', NEW k \in KeySet
  PROVE  /\ \A v : Holds(Bucket(k)', k, v) => Contents'[k] = v /\ v \in Values
         /\ (\A v : ~Holds(Bucket(k)', k, v)) => Contents'[k] = NoValue
<1> DEFINE c == Bucket(k)'
           at == {i \in 1 .. Len(c) : c[i].key = k}
<1>1. ChainOf(HashKeyToBucketNum(k), c)
  BY Hashed DEF Bucket, Chains, BucketNums, ChainOf
<1>2. Contents'[k] = IF at = {} THEN NoValue
                     ELSE c[CHOOSE i \in at : \A j \in at : i <= j].value
  BY DEF Contents, Bucket
<1> HIDE DEF c
<1>3. ASSUME NEW v, Holds(c, k, v) PROVE Contents'[k] = v /\ v \in Values
  <2>1. PICK i \in 1 .. Len(c) : c[i].key = k /\ c[i].value = v
    BY <1>3 DEF Holds
  <2>2. \A j \in at : j = i
    BY <1>1, <2>1 DEF ChainOf
  <2>3. i \in at /\ i \in Nat
    BY <2>1
  <2> HIDE DEF at
  <2>4. i <= i /\ \A j \in at : i <= j
    BY <2>2, <2>3
  <2>5. (CHOOSE m \in at : \A j \in at : m <= j) = i
    BY <2>2, <2>3, <2>4
  <2>6. c[i] \in Pairs
    BY <1>1, <2>1 DEF ChainOf
  <2>7. QED
    BY <1>2, <2>1, <2>3, <2>5, <2>6 DEF Pairs
<1>4. ASSUME \A v : ~Holds(c, k, v) PROVE Contents'[k] = NoValue
  <2>1. at = {}
    BY <1>4 DEF Holds
  <2>2. QED
    BY <1>2, <2>1
<1>5. QED
  BY <1>3, <1>4 DEF c

(* One chain changes, at one key. *)
LEMMA ContentsChange ==
  ASSUME Chains, Chains', NEW k \in KeySet, NEW n, NEW w,
         buckets' = [buckets EXCEPT ![HashKeyToBucketNum(k)] = n],
         \A l \in KeySet \ {k} : \A v : Holds(n, l, v) <=> Holds(Bucket(k), l, v),
         \/ Holds(n, k, w)
         \/ w = NoValue /\ \A v : ~Holds(n, k, v)
  PROVE  Contents' = [Contents EXCEPT ![k] = w]
<1>1. Bucket(k)' = n
  BY Hashed, ChainsParts DEF Bucket
<1>2. Contents'[k] = w
  BY <1>1, ContentsNext
<1>3. ASSUME NEW l \in KeySet \ {k} PROVE Contents'[l] = Contents[l]
  <2>1. \A v : Holds(Bucket(l)', l, v) <=> Holds(Bucket(l), l, v)
    <3>1. CASE HashKeyToBucketNum(l) = HashKeyToBucketNum(k)
      BY <1>1, <3>1 DEF Bucket
    <3>2. CASE HashKeyToBucketNum(l) # HashKeyToBucketNum(k)
      BY <3>2, Hashed, ChainsParts DEF Bucket
    <3>3. QED
      BY <3>1, <3>2
  <2>2. CASE \E v : Holds(Bucket(l), l, v)
    BY <2>1, <2>2, ContentsOf, ContentsNext
  <2>3. CASE \A v : ~Holds(Bucket(l), l, v)
    BY <2>1, <2>3, ContentsOf, ContentsNext
  <2>4. QED
    BY <2>2, <2>3
<1>4. Contents = [l \in KeySet |-> Contents[l]] /\ Contents' = [l \in KeySet |-> Contents'[l]]
  BY DEF Contents
<1> HIDE DEF Contents
<1>5. QED
  BY <1>2, <1>3, <1>4

LEMMA ContentsSame ==
  ASSUME buckets' = buckets
  PROVE  Contents' = Contents
BY DEF Contents

(* What the abstract map sees of a step of thread t. *)
MapOp == [t \in Threads |-> IF Over(t) THEN "return" ELSE op[t]]
MapOpAt(s, o) == IF s \in OverAt THEN "return" ELSE o

LEMMA MapMoves ==
  ASSUME Locals, NEW t \in Threads, NEW s, NEW o, NEW a, NEW p, NEW x, Moves(t, s, o, a, p, x)
  PROVE  /\ MapOp[t] = MapOpAt(pc[t], op[t])
         /\ MapOp' = [MapOp EXCEPT ![t] = MapOpAt(s, o)]
         /\ arg' = [arg EXCEPT ![t] = a] /\ result' = [result EXCEPT ![t] = x]
<1>1. MapOp[t] = MapOpAt(pc[t], op[t])
  BY DEF MapOp, MapOpAt, Over, OverAt
<1>2. MapOp'[t] = MapOpAt(s, o) /\ \A u \in Threads \ {t} : MapOp'[u] = MapOp[u]
  BY DEF Moves, MapOp, MapOpAt, Over, OverAt
<1>3. MapOp = [u \in Threads |-> MapOp[u]] /\ MapOp' = [u \in Threads |-> MapOp'[u]]
  BY DEF MapOp
<1> HIDE DEF MapOp
<1>4. MapOp' = [MapOp EXCEPT ![t] = MapOpAt(s, o)]
  BY <1>2, <1>3
<1>5. arg' = [arg EXCEPT ![t] = a] /\ result' = [result EXCEPT ![t] = x]
  BY DEF Locals, LocalTypes, Moves
<1>6. QED
  BY <1>1, <1>4, <1>5

LEMMA InitMap == Init => Map!MInit
<1> SUFFICES ASSUME Init PROVE Map!MInit
  OBVIOUS
<1>1. TableInv
  BY InitTableInv
<1>2. \A k \in KeySet : Bucket(k) = <<>>
  BY Hashed DEF Init, Bucket, BucketNums
<1>3. \A k \in KeySet : Contents[k] = NoValue
  BY <1>1, <1>2, ContentsOf DEF TableInv, Holds
<1>4. Contents = [k \in KeySet |-> NoValue]
  BY <1>3 DEF Contents
<1>5. MapOp = [t \in Threads |-> "idle"]
  BY DEF Init, MapOp, Over
<1>6. QED
  BY <1>4, <1>5 DEF Init, Map!MInit, Map!NoArg, Map!NoResult, NoArg, NoResult, MapOp

MapStep == Map!MNext \/ UNCHANGED Map!mvars

(* The step shows in the map only by what it returns, if at all. *)
LEMMA MapStutters ==
  ASSUME TableInv, NEW t \in Threads, NEW s, NEW p,
         Moves(t, s, op[t], arg[t], p, result[t]),
         MapOpAt(s, op[t]) = MapOpAt(pc[t], op[t]), buckets' = buckets
  PROVE  MapStep
<1>1. /\ MapOp[t] = MapOpAt(pc[t], op[t]) /\ MapOp' = [MapOp EXCEPT ![t] = MapOpAt(s, op[t])]
      /\ arg' = [arg EXCEPT ![t] = arg[t]] /\ result' = [result EXCEPT ![t] = result[t]]
  BY MapMoves DEF TableInv
<1>2. MapOp = [u \in Threads |-> MapOp[u]] /\ MapOp' = [u \in Threads |-> MapOp'[u]]
  BY DEF MapOp
<1>3. MapOp' = MapOp /\ arg' = arg /\ result' = result
  BY <1>1, <1>2 DEF TableInv, Locals, LocalTypes
<1>4. Contents' = Contents
  BY ContentsSame
<1>5. QED
  BY <1>3, <1>4 DEF MapStep, Map!mvars, MapOp

(* An operation fails for lack of memory. *)
LEMMA MapFails ==
  ASSUME TableInv, NEW t \in Threads, NEW s \in OverAt, NEW p, NEW ret,
         Moves(t, s, op[t], arg[t], p, [ret |-> ret, value |-> NoValue]),
         \/ op[t] = "insert" /\ ret = 0
         \/ op[t] \in {"lookup", "remove"} /\ ret = -1,
         pc[t] \notin OverAt, buckets' = buckets
  PROVE  MapStep
<1> DEFINE x == [ret |-> ret, value |-> NoValue]
<1>1. /\ MapOp[t] = op[t] /\ MapOp' = [MapOp EXCEPT ![t] = "return"]
      /\ result' = [result EXCEPT ![t] = x]
  BY MapMoves DEF TableInv, MapOpAt
<1>2. arg' = arg
  BY DEF TableInv, Locals, LocalTypes, Moves
<1>3. Contents' = Contents
  BY ContentsSame
<1>4. Map!Done(t, ret, NoValue)
  BY <1>1, <1>2 DEF Map!Done, MapOp
<1>5. Map!MFail(t)
  BY <1>1, <1>3, <1>4 DEF Map!MFail, MapOp
<1>6. QED
  BY <1>5 DEF MapStep, Map!MNext

(* An operation takes effect: it finds what the map holds under its key,    *)
(* and an insertion or a removal changes that entry alone.                  *)
LEMMA MapEffects ==
  ASSUME TableInv, NEW t \in Threads, NEW s \in OverAt, NEW p, NEW ret, NEW v,
         Moves(t, s, op[t], arg[t], p, [ret |-> ret, value |-> v]),
         pc[t] \notin OverAt, v = Contents[arg[t].key],
         \/ op[t] = "insert" /\ Contents' = [Contents EXCEPT ![arg[t].key] = arg[t].value]
            /\ ret = IF v # NoValue THEN 2 ELSE 1
         \/ op[t] = "lookup" /\ Contents' = Contents /\ ret = IF v # NoValue THEN 1 ELSE 0
         \/ op[t] = "remove" /\ Contents' = [Contents EXCEPT ![arg[t].key] = NoValue]
            /\ ret = IF v # NoValue THEN 1 ELSE 0
  PROVE  MapStep
<1> DEFINE x == [ret |-> ret, value |-> v]
<1>1. /\ MapOp[t] = op[t] /\ MapOp' = [MapOp EXCEPT ![t] = "return"]
      /\ result' = [result EXCEPT ![t] = x]
  BY MapMoves DEF TableInv, MapOpAt
<1>2. arg' = arg
  BY DEF TableInv, Locals, LocalTypes, Moves
<1>3. [u \in Threads |-> IF Over(u) THEN "return" ELSE op[u]][t] = op[t]
  BY <1>1 DEF MapOp
<1>4. Map!MEffect(t)
  <2>1. CASE /\ op[t] = "insert" /\ Contents' = [Contents EXCEPT ![arg[t].key] = arg[t].value]
             /\ ret = IF v # NoValue THEN 2 ELSE 1
    <3>1. result' = [result EXCEPT ![t] =
                      [ret |-> IF Contents[arg[t].key] # NoValue THEN 2 ELSE 1,
                       value |-> Contents[arg[t].key]]]
      BY <1>1, <2>1, Zenon
    <3>2. QED
      BY <1>1, <1>2, <1>3, <2>1, <3>1, Zenon DEF Map!MEffect, Map!Done, MapOp
  <2>2. CASE op[t] = "lookup" /\ Contents' = Contents /\ ret = IF v # NoValue THEN 1 ELSE 0
    <3>1. result' = [result EXCEPT ![t] =
                      [ret |-> IF Contents[arg[t].key] # NoValue THEN 1 ELSE 0,
                       value |-> Contents[arg[t].key]]]
      BY <1>1, <2>2, Zenon
    <3>2. QED
      BY <1>1, <1>2, <1>3, <2>2, <3>1, Zenon DEF Map!MEffect, Map!Done, MapOp
  <2>3. CASE /\ op[t] = "remove" /\ Contents' = [Contents EXCEPT ![arg[t].key] = NoValue]
             /\ ret = IF v # NoValue THEN 1 ELSE 0
    <3>1. result' = [result EXCEPT ![t] =
                      [ret |-> IF Contents[arg[t].key] # NoValue THEN 1 ELSE 0,
                       value |-> Contents[arg[t].key]]]
      BY <1>1, <2>3, Zenon
    <3>2. QED
      BY <1>1, <1>2, <1>3, <2>3, <3>1, Zenon DEF Map!MEffect, Map!Done, MapOp
  <2>4. QED
    BY <2>1, <2>2, <2>3
<1>5. QED
  BY <1>4 DEF MapStep, Map!MNext

LEMMA MapReturns ==
  ASSUME TableInv, NEW t \in Threads, pc[t] \in OverAt,
         Moves(t, "idle", "idle", NoArg, 0, NoResult), buckets' = buckets
  PROVE  MapStep
<1>1. /\ MapOp[t] = "return" /\ MapOp' = [MapOp EXCEPT ![t] = "idle"]
      /\ arg' = [arg EXCEPT ![t] = NoArg] /\ result' = [result EXCEPT ![t] = NoResult]
  BY MapMoves DEF TableInv, MapOpAt, OverAt
<1>2. Contents' = Contents
  BY ContentsSame
<1>3. Map!MReturn(t)
  BY <1>1, <1>2 DEF Map!MReturn, MapOp, Map!NoArg, Map!NoResult, NoArg, NoResult
<1>4. QED
  BY <1>3 DEF MapStep, Map!MNext

(* A step of thread t within its operation that takes no effect. *)
LEMMA MapQuiet ==
  ASSUME TableInv, NEW t \in Threads, NEW s \in Steps,
         Goto(t, s) \/ (s = pc[t] /\ pc' = pc), UNCHANGED locals,
         s \in OverAt <=> pc[t] \in OverAt, buckets' = buckets
  PROVE  MapStep
<1>1. Goes(t, s)
  BY GoesTo, Stays DEF TableInv
<1>2. MapOpAt(s, op[t]) = MapOpAt(pc[t], op[t])
  BY DEF MapOpAt
<1>3. QED
  BY <1>1, <1>2, MapStutters DEF Goes

LEMMA MapWaits ==
  ASSUME TableInv, NEW t \in Threads, Acquire(t)
  PROVE  MapStep
<1>1. CASE WriteWait(t)
  BY <1>1, MapQuiet DEF WriteWait, Steps, OverAt, table
<1>2. CASE LookupFirst(t)
  BY <1>2, MapQuiet DEF LookupFirst, Steps, OverAt, table
<1>3. CASE MutexWait(t, "enter_wait", "enter")
  BY <1>3, MapQuiet DEF MutexWait, Steps, OverAt, table
<1>4. CASE MutexWait(t, "leave_wait", "leave")
  BY <1>4, MapQuiet DEF MutexWait, Steps, OverAt, table
<1>5. QED
  BY <1>1, <1>2, <1>3, <1>4 DEF Acquire

LEMMA MapResizes ==
  ASSUME TableInv, NEW t \in Threads,
         \/ ResizeStart(t) \/ HashTableMakeIterator(t) \/ ResizeTransfer(t)
         \/ ResizeSwap(t) \/ FreeHashTable(t)
  PROVE  MapStep
<1>1. CASE ResizeStart(t)
  BY <1>1, MapQuiet DEF ResizeStart, Steps, OverAt, table
<1>2. CASE HashTableMakeIterator(t)
  BY <1>2, MapQuiet DEF HashTableMakeIterator, Steps, OverAt, table
<1>3. CASE ResizeTransfer(t)
  BY <1>3, MapQuiet DEF ResizeTransfer, Steps, OverAt, table
<1>4. CASE ResizeSwap(t)
  BY <1>4, MapQuiet DEF ResizeSwap, Steps, OverAt, table
<1>5. CASE FreeHashTable(t)
  BY <1>5, MapQuiet DEF FreeHashTable, Steps, OverAt, table
<1>6. QED
  BY <1>1, <1>2, <1>3, <1>4, <1>5

LEMMA MapCounts ==
  ASSUME TableInv, NEW t \in Threads,
         \/ InsertCount(t) \/ RemoveUncount(t) \/ LookupEnter(t)
         \/ LookupEnterPost(t) \/ LookupLeave(t)
  PROVE  MapStep
<1>1. CASE InsertCount(t)
  BY <1>1, MapQuiet DEF InsertCount, Steps, OverAt, table
<1>2. CASE RemoveUncount(t)
  BY <1>2, MapQuiet DEF RemoveUncount, Steps, OverAt, table
<1>3. CASE LookupEnter(t)
  BY <1>3, MapQuiet DEF LookupEnter, Steps, OverAt, table
<1>4. CASE LookupEnterPost(t)
  BY <1>4, MapQuiet DEF LookupEnterPost, Steps, OverAt, table
<1>5. CASE LookupLeave(t)
  BY <1>5, MapQuiet DEF LookupLeave, Steps, OverAt, table
<1>6. QED
  BY <1>1, <1>2, <1>3, <1>4, <1>5

LEMMA MapEnds ==
  ASSUME TableInv, NEW t \in Threads, WritePost(t) \/ LookupReturn(t)
  PROVE  MapStep
<1>1. pc[t] \in OverAt /\ Return(t) /\ buckets' = buckets
  BY DEF WritePost, LookupReturn, OverAt, table
<1>2. QED
  BY <1>1, Returning, MapReturns DEF TableInv

(* find has seen the whole chain, and none of its keys is that of t. *)
LEMMA MapMisses ==
  ASSUME TableInv, NEW t \in Threads, pc[t] \in {"find", "walk"},
         \A i \in 1 .. Len(Chain(t)) : Chain(t)[i].key # arg[t].key,
         Goto(t, AfterMiss(t)), UNCHANGED <<locals, buckets>>
  PROVE  MapStep
<1> DEFINE s == AfterMiss(t)
<1>1. /\ op[t] \in {"insert", "lookup", "remove"} /\ result[t] = NoResult
      /\ arg[t].key \in KeySet /\ pc[t] \notin OverAt /\ s \in Steps
  BY Finding, Leads DEF OverAt
<1>2. CASE op[t] = "insert"
  BY <1>1, <1>2, Leads, MapQuiet DEF OverAt
<1>3. CASE op[t] # "insert"
  <2>1. Goes(t, s) /\ s \in OverAt
    BY <1>1, <1>3, Leads, GoesTo DEF TableInv
  <2>2. Moves(t, s, op[t], arg[t], pos[t], [ret |-> 0, value |-> NoValue])
    BY <1>1, <2>1 DEF Goes, NoResult
  <2>3. Contents[arg[t].key] = NoValue /\ Contents' = Contents
    BY <1>1, ContentsOf, ContentsSame DEF TableInv, Holds, Bucket, Chain, BucketOf
  <2>4. Contents = [Contents EXCEPT ![arg[t].key] = NoValue]
    <3>1. Contents = [k \in KeySet |-> Contents[k]]
      BY DEF Contents
    <3> HIDE DEF Contents
    <3>2. QED
      BY <1>1, <2>3, <3>1
  <2> HIDE DEF s
  <2>5. QED
    BY <1>1, <1>3, <2>1, <2>2, <2>3, <2>4, MapEffects
<1>4. QED
  BY <1>2, <1>3

LEMMA MapFinds ==
  ASSUME TableInv, NEW t \in Threads, FindStart(t) \/ FindNext(t)
  PROVE  MapStep
<1>1. CASE FindStart(t)
  <2>1. /\ pc[t] = "find" /\ UNCHANGED <<buckets, op, arg>>
        /\ op[t] \in {"insert", "lookup", "remove"} /\ TableInv
    BY <1>1, Finding DEF FindStart, table
  <2>2. CASE Chain(t) = <<>> /\ Goto(t, AfterMiss(t)) /\ UNCHANGED <<pos, result>>
    <3>1. \A i \in 1 .. Len(Chain(t)) : Chain(t)[i].key # arg[t].key
      BY <2>2
    <3>2. QED
      BY <2>1, <2>2, <3>1, MapMisses DEF locals
  <2>3. CASE pos' = [pos EXCEPT ![t] = 1] /\ Goto(t, "walk") /\ UNCHANGED result
    <3>1. Moves(t, "walk", op[t], arg[t], 1, result[t])
      BY <2>1, <2>3, Walking DEF TableInv, Steps
    <3>2. MapOpAt("walk", op[t]) = MapOpAt(pc[t], op[t])
      BY <2>1 DEF MapOpAt, OverAt
    <3>3. QED
      BY <2>1, <3>1, <3>2, MapStutters
  <2>4. CASE /\ Result(t, IF op[t] = "insert" THEN 0 ELSE -1, NoValue)
             /\ Goto(t, IF op[t] = "lookup" THEN "leave_wait" ELSE "write_post")
             /\ UNCHANGED pos
    <3> DEFINE s == IF op[t] = "lookup" THEN "leave_wait" ELSE "write_post"
               ret == IF op[t] = "insert" THEN 0 ELSE -1
    <3>1. s \in Steps /\ s \in OverAt /\ ret \in -1 .. 2
      BY DEF Steps, OverAt
    <3>2. Moves(t, s, op[t], arg[t], pos[t], [ret |-> ret, value |-> NoValue])
      BY <2>1, <2>4, <3>1, Resulting DEF TableInv
    <3>3. pc[t] \notin OverAt
      BY <2>1 DEF OverAt
    <3>4. \/ op[t] = "insert" /\ ret = 0
          \/ op[t] \in {"lookup", "remove"} /\ ret = -1
      BY <2>1
    <3> HIDE DEF s, ret
    <3>5. QED
      BY <2>1, <3>1, <3>2, <3>3, <3>4, MapFails
  <2>5. QED
    BY <1>1, <2>2, <2>3, <2>4 DEF FindStart
<1>2. CASE FindNext(t)
  <2>1. /\ pc[t] = "walk" /\ Chain(t)[pos[t]].key # arg[t].key
        /\ UNCHANGED <<buckets, op, arg, result>>
    BY <1>2 DEF FindNext, table
  <2>2. /\ Locals /\ Len(Chain(t)) \in Nat /\ pos[t] \in 1 .. Len(Chain(t))
        /\ \A i \in 1 .. pos[t] - 1 : Chain(t)[i].key # arg[t].key
    BY <2>1, AtNode DEF ChainOf
  <2>3. CASE pos[t] < Len(Chain(t)) /\ pos' = [pos EXCEPT ![t] = @ + 1] /\ UNCHANGED pc
    <3>0. pos' = [pos EXCEPT ![t] = pos[t] + 1] /\ pos[t] + 1 \in Nat /\ "walk" \in Steps
      BY <2>2, <2>3 DEF Steps
    <3>1. Moves(t, "walk", op[t], arg[t], pos[t] + 1, result[t])
      BY <2>1, <2>2, <2>3, <3>0, Walking
    <3>2. MapOpAt("walk", op[t]) = MapOpAt(pc[t], op[t])
      BY <2>1
    <3>3. QED
      BY <2>1, <3>1, <3>2, MapStutters
  <2>4. CASE ~(pos[t] < Len(Chain(t))) /\ Goto(t, AfterMiss(t)) /\ UNCHANGED pos
    <3>1. \A i \in 1 .. Len(Chain(t)) : i = pos[t] \/ i \in 1 .. pos[t] - 1
      BY <2>2, <2>4
    <3>2. \A i \in 1 .. Len(Chain(t)) : Chain(t)[i].key # arg[t].key
      BY <2>1, <2>2, <3>1
    <3>3. QED
      BY <2>1, <2>4, <3>2, MapMisses DEF locals
  <2>5. QED
    BY <1>2, <2>3, <2>4 DEF FindNext
<1>3. QED
  BY <1>1, <1>2

(* What is left of a chain without the node of a key. *)
LEMMA HeldWithout ==
  ASSUME NEW b, NEW c, ChainOf(b, c), NEW p \in 1 .. Len(c)
  PROVE  /\ \A v : ~Holds(RemoveAt(c, p), c[p].key, v)
         /\ \A l : l # c[p].key => \A v : Holds(RemoveAt(c, p), l, v) <=> Holds(c, l, v)
<1> DEFINE n == RemoveAt(c, p)
<1>1. /\ Len(c) \in Nat /\ Len(n) = Len(c) - 1
      /\ \A i \in 1 .. Len(c) - 1 : n[i] = IF i < p THEN c[i] ELSE c[i + 1]
      /\ \A i, j \in 1 .. Len(c) : c[i].key = c[j].key => i = j
  <2>1. /\ Len(n) = Len(c) - 1
        /\ \A i \in 1 .. Len(c) - 1 : n[i] = IF i < p THEN c[i] ELSE c[i + 1]
    BY ShortenedChain
  <2> HIDE DEF n
  <2>2. QED
    BY <2>1 DEF ChainOf
<1> HIDE DEF n
<1>2. \A i \in 1 .. Len(n) : \E j \in 1 .. Len(c) : j # p /\ n[i] = c[j]
  <2>1. TAKE i \in 1 .. Len(n)
  <2>2. CASE i < p
    BY <1>1, <2>2
  <2>3. CASE ~(i < p)
    <3>1. i + 1 \in 1 .. Len(c) /\ i + 1 # p /\ n[i] = c[i + 1]
      BY <1>1, <2>3
    <3>2. QED
      BY <3>1
  <2>4. QED
    BY <2>2, <2>3
<1>3. \A j \in 1 .. Len(c) : j # p => \E i \in 1 .. Len(n) : n[i] = c[j]
  <2>1. TAKE j \in 1 .. Len(c)
  <2>2. CASE j < p
    BY <1>1, <2>2
  <2>3. CASE j > p
    <3>1. j - 1 \in 1 .. Len(n) /\ n[j - 1] = c[j]
      BY <1>1, <2>3
    <3>2. QED
      BY <3>1
  <2>4. QED
    BY <1>1, <2>2, <2>3
<1>4. \A v : ~Holds(n, c[p].key, v)
  BY <1>1, <1>2 DEF Holds
<1>5. ASSUME NEW l, l # c[p].key, NEW v PROVE Holds(n, l, v) <=> Holds(c, l, v)
  <2>1. Holds(n, l, v) => Holds(c, l, v)
    BY <1>2 DEF Holds
  <2>2. Holds(c, l, v) => Holds(n, l, v)
    BY <1>3, <1>5 DEF Holds
  <2>3. QED
    BY <2>1, <2>2
<1>6. QED
  BY <1>4, <1>5 DEF n

LEMMA MapHits ==
  ASSUME TableInv, TableInv', NEW t \in Threads, FindHit(t)
  PROVE  MapStep
<1> DEFINE c == Chain(t)
           b == BucketOf(t)
           k == arg[t].key
           v == c[pos[t]].value
           s == AfterHit(t)
<1>1. /\ pc[t] = "walk" /\ c[pos[t]].key = k
      /\ buckets' = IF op[t] = "remove"
                    THEN [buckets EXCEPT ![b] = RemoveAt(@, pos[t])] ELSE buckets
      /\ IF op[t] = "insert" THEN UNCHANGED result ELSE Result(t, 1, v)
      /\ Goto(t, s) /\ UNCHANGED <<op, arg, pos>>
  BY DEF FindHit
<1>2. /\ op[t] \in {"insert", "lookup", "remove"} /\ k \in KeySet
      /\ pc[t] \notin OverAt /\ s \in Steps
  BY <1>1, Finding, Leads DEF OverAt
<1>3. /\ Locals /\ b \in BucketNums /\ ChainOf(b, c) /\ pos[t] \in 1 .. Len(c)
      /\ v \in Values
  BY <1>1, AtNode DEF Pairs
<1>4. v # NoValue
  BY <1>3, ValuesAssumption
<1>5. c = Bucket(k) /\ b = HashKeyToBucketNum(k)
  BY DEF Chain, BucketOf, Bucket
<1>6. v = Contents[k]
  <2>1. Holds(c, k, v)
    BY <1>1, <1>3 DEF Holds
  <2>2. QED
    BY <1>2, <1>5, <2>1, ContentsOf DEF TableInv
<1>7. CASE op[t] = "insert"
  <2>1. UNCHANGED locals /\ buckets' = buckets /\ s \notin OverAt
    BY <1>1, <1>2, <1>7, Leads DEF locals, OverAt
  <2>2. QED
    BY <1>1, <1>2, <2>1, MapQuiet
<1>8. CASE op[t] # "insert"
  <2>1. Moves(t, s, op[t], arg[t], pos[t], [ret |-> 1, value |-> v])
    BY <1>1, <1>2, <1>3, <1>8, Resulting
  <2>2. s \in OverAt
    BY <1>2, <1>8, Leads
  <2>3. op[t] = "lookup" => Contents' = Contents
    BY <1>1, ContentsSame
  <2>4. op[t] = "remove" => Contents' = [Contents EXCEPT ![k] = NoValue]
    <3> DEFINE n == RemoveAt(c, pos[t])
    <3> SUFFICES ASSUME op[t] = "remove" PROVE Contents' = [Contents EXCEPT ![k] = NoValue]
      OBVIOUS
    <3>1. buckets' = [buckets EXCEPT ![b] = n]
      BY <1>1 DEF Chain
    <3>2. /\ \A w : ~Holds(n, k, w)
          /\ \A l : l # k => \A w : Holds(n, l, w) <=> Holds(c, l, w)
      BY <1>1, <1>3, HeldWithout
    <3> HIDE DEF n
    <3>3. buckets' = [buckets EXCEPT ![HashKeyToBucketNum(k)] = n]
      BY <1>5, <3>1
    <3>4. \A l \in KeySet \ {k} : \A w : Holds(n, l, w) <=> Holds(Bucket(k), l, w)
      BY <1>5, <3>2
    <3> HIDE DEF k
    <3>5. QED
      BY <1>2, <3>2, <3>3, <3>4, ContentsChange DEF TableInv
  <2> HIDE DEF s, v
  <2>5. QED
    BY <1>2, <1>4, <1>6, <1>8, <2>1, <2>2, <2>3, <2>4, MapEffects
<1>9. QED
  BY <1>7, <1>8

(* A pair at the head of a chain that did not have its key. *)
LEMMA HeldWith ==
  ASSUME NEW b, NEW c, ChainOf(b, c), NEW x \in Pairs
  PROVE  /\ Holds(<<x>> \o c, x.key, x.value)
         /\ \A l : l # x.key => \A v : Holds(<<x>> \o c, l, v) <=> Holds(c, l, v)
<1> DEFINE n == <<x>> \o c
<1>1. /\ Len(c) \in Nat /\ Len(n) = Len(c) + 1 /\ n[1] = x
      /\ \A i \in 2 .. Len(n) : i - 1 \in 1 .. Len(c) /\ n[i] = c[i - 1]
  BY DEF ChainOf
<1> HIDE DEF n
<1>2. Holds(n, x.key, x.value)
  BY <1>1 DEF Holds
<1>3. \A i \in 1 .. Len(n) : n[i] = x \/ \E j \in 1 .. Len(c) : n[i] = c[j]
  <2>1. \A i \in 1 .. Len(n) : i = 1 \/ i \in 2 .. Len(n)
    BY <1>1
  <2>2. QED
    BY <1>1, <2>1
<1>4. \A j \in 1 .. Len(c) : \E i \in 1 .. Len(n) : n[i] = c[j]
  <2>1. TAKE j \in 1 .. Len(c)
  <2>2. j + 1 \in 2 .. Len(n) /\ (j + 1) - 1 = j /\ j + 1 \in 1 .. Len(n)
    BY <1>1
  <2>3. QED
    BY <1>1, <2>2
<1>5. ASSUME NEW l, l # x.key, NEW v PROVE Holds(n, l, v) <=> Holds(c, l, v)
  <2>1. Holds(n, l, v) => Holds(c, l, v)
    BY <1>3, <1>5 DEF Holds
  <2>2. Holds(c, l, v) => Holds(n, l, v)
    BY <1>4 DEF Holds
  <2>3. QED
    BY <2>1, <2>2
<1>6. QED
  BY <1>2, <1>5 DEF n

LEMMA MapPushes ==
  ASSUME TableInv, TableInv', NEW t \in Threads, InsertPush(t)
  PROVE  MapStep
<1> DEFINE b == BucketOf(t)
           c == Chain(t)
           k == arg[t].key
           n == <<arg[t]>> \o c
<1>1. pc[t] = "push" /\ Goto(t, "write_post") /\ UNCHANGED <<op, arg, pos>>
  BY DEF InsertPush
<1>2. /\ Locals /\ b \in BucketNums /\ ChainOf(b, c) /\ arg[t] \in Pairs
      /\ op[t] = "insert"
  BY <1>1, Inserting
<1>3. k \in KeySet /\ pc[t] \notin OverAt /\ "write_post" \in OverAt /\ "write_post" \in Steps
  BY <1>1, <1>2 DEF Pairs, OverAt, Steps
<1>4. c = Bucket(k) /\ b = HashKeyToBucketNum(k) /\ c = buckets[b]
  BY DEF Chain, BucketOf, Bucket
<1>5. CASE buckets' = [buckets EXCEPT ![b] = n] /\ Result(t, 1, NoValue)
  <2>1. Moves(t, "write_post", op[t], arg[t], pos[t], [ret |-> 1, value |-> NoValue])
    BY <1>1, <1>2, <1>3, <1>5, Resulting
  <2>2. \A v : ~Holds(c, k, v)
    BY <1>1 DEF TableInv, WalkOK, Holds
  <2>3. Contents[k] = NoValue
    BY <1>3, <1>4, <2>2, ContentsOf DEF TableInv
  <2>4. /\ Holds(n, k, arg[t].value)
        /\ \A l : l # k => \A v : Holds(n, l, v) <=> Holds(c, l, v)
    BY <1>2, HeldWith
  <2> HIDE DEF n
  <2>5. buckets' = [buckets EXCEPT ![HashKeyToBucketNum(k)] = n]
    BY <1>4, <1>5
  <2>6. \A l \in KeySet \ {k} : \A v : Holds(n, l, v) <=> Holds(Bucket(k), l, v)
    BY <1>4, <2>4
  <2> DEFINE w == arg[t].value
  <2>7. Contents' = [Contents EXCEPT ![k] = w]
    <3> HIDE DEF k, w
    <3>1. Holds(n, k, w)
      BY <2>4 DEF w
    <3>2. QED
      BY <1>3, <2>5, <2>6, <3>1, ContentsChange DEF TableInv
  <2>8. QED
    BY <1>2, <1>3, <2>1, <2>3, <2>7, MapEffects
<1>6. CASE MayRunOut /\ UNCHANGED buckets /\ Result(t, 0, NoValue)
  <2>1. Moves(t, "write_post", op[t], arg[t], pos[t], [ret |-> 0, value |-> NoValue])
    BY <1>1, <1>2, <1>3, <1>6, Resulting
  <2>2. QED
    BY <1>2, <1>3, <1>6, <2>1, MapFails
<1>7. QED
  BY <1>5, <1>6 DEF InsertPush, Chain

(* A chain in which the value at one key is replaced. *)
LEMMA HeldInstead ==
  ASSUME NEW b, NEW c, ChainOf(b, c), NEW p \in 1 .. Len(c), NEW n, NEW w,
         Len(n) = Len(c), \A i \in 1 .. Len(c) : i # p => n[i] = c[i],
         n[p].key = c[p].key, n[p].value = w
  PROVE  /\ Holds(n, c[p].key, w)
         /\ \A l : l # c[p].key => \A v : Holds(n, l, v) <=> Holds(c, l, v)
BY DEF Holds

LEMMA MapReplaces ==
  ASSUME TableInv, TableInv', NEW t \in Threads, InsertReplace(t)
  PROVE  MapStep
<1> DEFINE b == BucketOf(t)
           c == Chain(t)
           p == pos[t]
           k == arg[t].key
           w == arg[t].value
           v == c[p].value
           n == [c EXCEPT ![p].value = w]
<1>1. /\ pc[t] = "replace" /\ Goto(t, "write_post") /\ UNCHANGED <<op, arg, pos>>
      /\ Result(t, 2, v) /\ buckets' = [buckets EXCEPT ![b] = n]
  BY DEF InsertReplace, Chain
<1>2. /\ Locals /\ b \in BucketNums /\ ChainOf(b, c) /\ arg[t] \in Pairs
      /\ op[t] = "insert"
  BY <1>1, Inserting
<1>3. k \in KeySet /\ pc[t] \notin OverAt /\ "write_post" \in OverAt /\ "write_post" \in Steps
  BY <1>1, <1>2 DEF Pairs, OverAt, Steps
<1>4. p \in 1 .. Len(c) /\ c[p].key = k
  BY <1>1 DEF TableInv, WalkOK
<1>5. c[p] \in Pairs /\ c \in Seq(Pairs) /\ v \in Values /\ v # NoValue
  <2>1. c[p] \in Pairs /\ c \in Seq(Pairs)
    BY <1>2, <1>4 DEF ChainOf
  <2>2. v \in Values
    BY <2>1 DEF Pairs
  <2>3. QED
    BY <2>1, <2>2, ValuesAssumption
<1>6. c = Bucket(k) /\ b = HashKeyToBucketNum(k)
  BY DEF Chain, BucketOf, Bucket
<1>7. v = Contents[k]
  <2>1. Holds(c, k, v)
    BY <1>4 DEF Holds
  <2>2. QED
    BY <1>3, <1>6, <2>1, ContentsOf DEF TableInv
<1>8. /\ Len(n) = Len(c) /\ \A i \in 1 .. Len(c) : i # p => n[i] = c[i]
      /\ n[p].key = c[p].key /\ n[p].value = w
  <2>1. [c[p] EXCEPT !.value = w] = [key |-> c[p].key, value |-> w]
    BY <1>5 DEF Pairs
  <2>2. n = [c EXCEPT ![p] = [key |-> c[p].key, value |-> w]]
    BY <2>1
  <2> HIDE DEF n, c, p, w
  <2>3. QED
    BY <1>4, <1>5, <2>2
<1> HIDE DEF n
<1>9. Moves(t, "write_post", op[t], arg[t], pos[t], [ret |-> 2, value |-> v])
  BY <1>1, <1>2, <1>3, <1>5, Resulting
<1>10. Contents' = [Contents EXCEPT ![k] = w]
  <2>1. /\ Holds(n, c[p].key, w)
        /\ \A l : l # c[p].key => \A x : Holds(n, l, x) <=> Holds(c, l, x)
    <3> HIDE DEF b, c, p, w
    <3>1. QED
      BY <1>2, <1>4, <1>8, HeldInstead
  <2>2. buckets' = [buckets EXCEPT ![HashKeyToBucketNum(k)] = n]
    BY <1>1, <1>6
  <2>3. \A l \in KeySet \ {k} : \A x : Holds(n, l, x) <=> Holds(Bucket(k), l, x)
    BY <1>4, <1>6, <2>1
  <2>4. Holds(n, k, w)
    BY <1>4, <2>1
  <2> HIDE DEF b, c, p, k, w
  <2>5. QED
    BY <1>3, <2>2, <2>3, <2>4, ContentsChange DEF TableInv
<1> HIDE DEF v
<1>11. QED
  BY <1>2, <1>3, <1>5, <1>7, <1>9, <1>10, MapEffects

LEMMA MapCalls ==
  ASSUME TableInv, NEW t \in Threads, Call(t)
  PROVE  MapStep
<1>1. /\ pc[t] = "idle" /\ Locals /\ op[t] = "idle"
      /\ UNCHANGED <<buckets, pos, result>>
  BY DEF Call, table, TableInv, Locals, OpAt
<1>2. PICK s \in {"write_wait", "enter_wait"}, o \in {"insert", "lookup", "remove"},
           k \in KeySet, v \in Values \cup {NoValue} :
        /\ arg' = [arg EXCEPT ![t] = [key |-> k, value |-> v]]
        /\ op' = [op EXCEPT ![t] = o] /\ Goto(t, s)
  <2>1. PICK k \in KeySet, v \in Values \cup {NoValue} :
          arg' = [arg EXCEPT ![t] = [key |-> k, value |-> v]]
    BY DEF Call
  <2>2. PICK s \in {"write_wait", "enter_wait"}, o \in {"insert", "lookup", "remove"} :
          op' = [op EXCEPT ![t] = o] /\ Goto(t, s)
    BY DEF Call
  <2>3. QED
    BY <2>1, <2>2
<1> DEFINE a == [key |-> k, value |-> v]
<1>3. a \in ArgType
  BY DEF ArgType
<1> HIDE DEF a
<1>4. Moves(t, s, o, a, pos[t], result[t])
  BY <1>1, <1>2, <1>3, Calling DEF Steps, Ops, a
<1>5. MapOp[t] = "idle" /\ MapOp' = [MapOp EXCEPT ![t] = o]
  <2>1. MapOp[t] = MapOpAt(pc[t], op[t]) /\ MapOp' = [MapOp EXCEPT ![t] = MapOpAt(s, o)]
    BY <1>1, <1>4, MapMoves
  <2>2. MapOpAt(pc[t], op[t]) = "idle" /\ MapOpAt(s, o) = o
    BY <1>1 DEF MapOpAt, OverAt
  <2>3. QED
    BY <2>1, <2>2
<1>6. Contents' = Contents
  BY <1>1, ContentsSame
<1>7. Map!MCall(t)
  <2>1. [u \in Threads |-> IF Over(u) THEN "return" ELSE op[u]][t] = "idle"
    BY <1>5 DEF MapOp
  <2>2. \E m \in {"insert", "lookup", "remove"}, l \in KeySet, w \in Values \cup {NoValue} :
          /\ MapOp' = [MapOp EXCEPT ![t] = m]
          /\ arg' = [arg EXCEPT ![t] = [key |-> l, value |-> w]]
    BY <1>2, <1>5
  <2>3. QED
    BY <1>1, <1>6, <2>1, <2>2, Zenon DEF Map!MCall, MapOp
<1>8. QED
  BY <1>7 DEF MapStep, Map!MNext

LEMMA NextMapStep == TableInv /\ TableInv' /\ [Next]_vars => MapStep
<1> SUFFICES ASSUME TableInv, TableInv', [Next]_vars PROVE MapStep
  OBVIOUS
<1>1. CASE UNCHANGED vars
  <2>1. Contents' = Contents
    BY <1>1, ContentsSame DEF vars, table
  <2>2. MapOp' = MapOp
    BY <1>1 DEF vars, locals, MapOp, Over
  <2>3. QED
    BY <1>1, <2>1, <2>2 DEF MapStep, Map!mvars, MapOp, vars, locals
<1>2. ASSUME NEW t \in Threads, Call(t) \/ Acquire(t) \/ Proceed(t) PROVE MapStep
  BY <1>2, MapCalls, MapWaits, MapFinds, MapHits, MapResizes, MapCounts, MapPushes,
     MapReplaces, MapEnds DEF Proceed
<1>3. QED
  BY <1>1, <1>2 DEF Next

(* The hash table implements the atomic map, for any number of threads,     *)
(* keys, values and buckets, out of memory or not: between its call and its *)
(* return every operation takes effect in one step, or fails without any    *)
(* (HashTable.c:92-322, proj3/README:80-81).                                *)
THEOREM ImplementsMap == Spec => ActsAsMap
<1>1. Spec => []TableInv
  BY TableInvariant
<1>2. TableInv /\ TableInv' /\ [Next]_vars => [Map!MNext]_(Map!mvars)
  BY NextMapStep DEF MapStep
<1>3. QED
  BY <1>1, <1>2, InitMap, PTL DEF Spec, ActsAsMap, Map!MSpec

=============================================================================
