------------------------------ MODULE HashTable ------------------------------
(***************************************************************************)
(* proj3/HashTable.c as its threads use it: chained buckets behind two     *)
(* semaphores.  Insertions and removals hold wrt; the first of several     *)
(* lookups takes wrt for all of them and the last one gives it back, mutex *)
(* guards their count.  A chain is the sequence of payloads that           *)
(* LinkedList keeps, its head first; find walks it node by node.           *)
(***************************************************************************)
EXTENDS Integers, Sequences, SequencesExt, FiniteSets

CONSTANTS
  Threads,
  KeySet,
  Values,
  NumBuckets,
  MayRunOut,      \* may malloc fail?
  MaxElements     \* bound: no new insertion once so many elements are counted

ASSUME TableAssumption ==
  /\ KeySet \subseteq Nat /\ NumBuckets \in Nat \ {0}
  /\ MayRunOut \in BOOLEAN /\ MaxElements \in Nat
  /\ IsFiniteSet(Threads)

NoValue == "null"

(* What is inserted is a pointer that is not NULL. *)
ASSUME ValuesAssumption == NoValue \notin Values

NoArg == [key |-> -1, value |-> NoValue]
NoResult == [ret |-> 0, value |-> NoValue]
NoGrowth == [valid |-> FALSE, bucket |-> 0, node |-> 0, inserted |-> 0]

VARIABLES
  buckets,        \* buckets[b]: the chain of key/value pairs
  num_elements,
  wrt, mutex,     \* the values of the semaphores
  readcount,
  op,             \* op[t]: the operation t is in
  pc,             \* pc[t]: its next step
  arg,            \* arg[t]: its arguments
  pos,            \* pos[t]: the node of the chain find is at
  result,         \* result[t]: what it will return, and the value it hands out
  growth,         \* the iterator of a resize; how many pairs the new table has
  fault           \* has a resize met what it cannot handle?

table  == <<buckets, num_elements>>
locals == <<op, arg, pos, result>>
vars   == <<table, wrt, mutex, readcount, pc, locals, growth, fault>>

HashKeyToBucketNum(k) == k % NumBuckets
BucketOf(t) == HashKeyToBucketNum(arg[t].key)
Chain(t) == buckets[BucketOf(t)]
Places == UNION {{b} \X (1 .. Len(buckets[b])) : b \in DOMAIN buckets}
Stored == Cardinality(Places)

Goto(t, step) == pc' = [pc EXCEPT ![t] = step]
Result(t, ret, value) == result' = [result EXCEPT ![t] = [ret |-> ret, value |-> value]]

Call(t) ==
  /\ pc[t] = "idle"
  /\ \/ /\ num_elements < MaxElements
        /\ \E k \in KeySet, v \in Values : arg' = [arg EXCEPT ![t] = [key |-> k, value |-> v]]
        /\ op' = [op EXCEPT ![t] = "insert"] /\ Goto(t, "write_wait")
     \/ /\ \E k \in KeySet : arg' = [arg EXCEPT ![t] = [key |-> k, value |-> NoValue]]
        /\ \/ op' = [op EXCEPT ![t] = "lookup"] /\ Goto(t, "enter_wait")
           \/ op' = [op EXCEPT ![t] = "remove"] /\ Goto(t, "write_wait")
  /\ UNCHANGED <<table, wrt, mutex, readcount, pos, result, growth, fault>>

(* The operation returns, its locals are gone. *)
Return(t) ==
  /\ Goto(t, "idle")
  /\ op' = [op EXCEPT ![t] = "idle"]
  /\ arg' = [arg EXCEPT ![t] = NoArg]
  /\ pos' = [pos EXCEPT ![t] = 0]
  /\ result' = [result EXCEPT ![t] = NoResult]

-----------------------------------------------------------------------------
(* find *)

(* Where an operation goes on when find is done with it. *)
AfterMiss(t) ==
  CASE op[t] = "insert" -> "count"
    [] op[t] = "lookup" -> "leave_wait"
    [] op[t] = "remove" -> "write_post"

AfterHit(t) ==
  CASE op[t] = "insert" -> "replace"
    [] op[t] = "lookup" -> "leave_wait"
    [] op[t] = "remove" -> "uncount"

FindStart(t) ==
  /\ pc[t] = "find"
  /\ \/ /\ Chain(t) = <<>>
        /\ Goto(t, AfterMiss(t)) /\ UNCHANGED <<pos, result>>
     \/ /\ Chain(t) # <<>>
        /\ pos' = [pos EXCEPT ![t] = 1]
        /\ Goto(t, "walk") /\ UNCHANGED result
     \/ /\ Chain(t) # <<>> /\ MayRunOut       \* no memory for the iterator
        /\ Result(t, IF op[t] = "insert" THEN 0 ELSE -1, NoValue)
        /\ Goto(t, IF op[t] = "lookup" THEN "leave_wait" ELSE "write_post")
        /\ UNCHANGED pos
  /\ UNCHANGED <<table, wrt, mutex, readcount, op, arg, growth, fault>>

(* A removal takes the node out here; an insertion uses it afterwards. *)
FindHit(t) ==
  /\ pc[t] = "walk" /\ Chain(t)[pos[t]].key = arg[t].key
  /\ buckets' = IF op[t] = "remove"
                THEN [buckets EXCEPT ![BucketOf(t)] = RemoveAt(@, pos[t])] ELSE buckets
  /\ IF op[t] = "insert" THEN UNCHANGED result
     ELSE Result(t, 1, Chain(t)[pos[t]].value)
  /\ Goto(t, AfterHit(t))
  /\ UNCHANGED <<num_elements, wrt, mutex, readcount, op, arg, pos, growth, fault>>

(* Mutant: the walk stops before the last node. *)
FindNextEarly(t) ==
  /\ pc[t] = "walk" /\ Chain(t)[pos[t]].key # arg[t].key
  /\ IF pos[t] + 1 < Len(Chain(t))
     THEN pos' = [pos EXCEPT ![t] = @ + 1] /\ UNCHANGED pc
     ELSE Goto(t, AfterMiss(t)) /\ UNCHANGED pos
  /\ UNCHANGED <<table, wrt, mutex, readcount, op, arg, result, growth, fault>>

FindNext(t) ==
  /\ pc[t] = "walk" /\ Chain(t)[pos[t]].key # arg[t].key
  /\ IF pos[t] < Len(Chain(t))
     THEN pos' = [pos EXCEPT ![t] = @ + 1] /\ UNCHANGED pc
     ELSE Goto(t, AfterMiss(t)) /\ UNCHANGED pos
  /\ UNCHANGED <<table, wrt, mutex, readcount, op, arg, result, growth, fault>>

-----------------------------------------------------------------------------
(* InsertHashTable and RemoveFromHashTable *)

WriteWait(t) ==
  /\ pc[t] = "write_wait"
  /\ wrt > 0 /\ wrt' = wrt - 1
  /\ Goto(t, IF op[t] = "insert" THEN "resize" ELSE "find")
  /\ UNCHANGED <<table, mutex, readcount, locals, growth, fault>>

-----------------------------------------------------------------------------
(* ResizeHashtable, with the iterator of the old table that it walks.  Only *)
(* the thread that holds wrt gets here.                                     *)

ResizeStart(t) ==
  /\ pc[t] = "resize"
  /\ \/ num_elements < 3 * NumBuckets /\ Goto(t, "find")
     \/ num_elements >= 3 * NumBuckets /\ Goto(t, "iterate")
     \/ num_elements >= 3 * NumBuckets /\ MayRunOut /\ Goto(t, "find")
  /\ UNCHANGED <<table, wrt, mutex, readcount, locals, growth, fault>>

UsedFrom(i) == {b \in DOMAIN buckets : b >= i /\ buckets[b] # <<>>}
FirstFrom(i) == CHOOSE b \in UsedFrom(i) : \A c \in UsedFrom(i) : b <= c

(* The iterator starts in the first bucket in use.  If there is none,       *)
(* although elements are counted, bucket_num is not set.                    *)
HashTableMakeIterator(t) ==
  /\ pc[t] = "iterate"
  /\ \/ /\ UsedFrom(0) # {}
        /\ growth' = [growth EXCEPT !.valid = TRUE, !.bucket = FirstFrom(0), !.node = 1]
        /\ Goto(t, "transfer") /\ UNCHANGED fault
     \/ /\ UsedFrom(0) = {}
        /\ fault' = TRUE /\ UNCHANGED <<growth, pc>>
     \/ /\ MayRunOut
        /\ Goto(t, "free_new") /\ UNCHANGED <<growth, fault>>
  /\ UNCHANGED <<table, wrt, mutex, readcount, locals>>

HTIteratorNext(it) ==
  IF it.node < Len(buckets[it.bucket]) THEN [it EXCEPT !.node = @ + 1]
  ELSE IF UsedFrom(it.bucket + 1) = {} THEN [it EXCEPT !.valid = FALSE]
  ELSE [it EXCEPT !.bucket = FirstFrom(it.bucket + 1), !.node = 1]

(* One turn of the loop.  What is inserted into the new table is item,      *)
(* which is never read from the iterator: whatever the bytes of its slot    *)
(* are, they are the same each time around, so a second insertion finds the *)
(* key of the first one and returns 2.                                      *)
ResizeTransfer(t) ==
  /\ pc[t] = "transfer" /\ growth.valid
  /\ \/ /\ growth.inserted = 0
        /\ growth' = [HTIteratorNext(growth) EXCEPT !.inserted = 1]
        /\ UNCHANGED pc
     \/ /\ growth.inserted > 0 \/ MayRunOut
        /\ Goto(t, "free_new") /\ UNCHANGED growth
  /\ UNCHANGED <<table, wrt, mutex, readcount, locals, fault>>

(* FreeHashTable of the new table: it pops one pair of a chain, and would   *)
(* loop for ever if there were another.                                     *)
FreeHashTable(t) ==
  /\ pc[t] = "free_new" /\ growth.inserted <= 1
  /\ growth' = NoGrowth
  /\ Goto(t, "find")
  /\ UNCHANGED <<table, wrt, mutex, readcount, locals, fault>>

(* The end of the iteration: the new table, which holds one pair that was   *)
(* never set, takes the place of the old.                                   *)
ResizeSwap(t) ==
  /\ pc[t] = "transfer" /\ ~growth.valid
  /\ fault' = TRUE
  /\ UNCHANGED <<table, wrt, mutex, readcount, pc, locals, growth>>

-----------------------------------------------------------------------------
(* num_elements is incremented before the entry is allocated. *)
InsertCount(t) ==
  /\ pc[t] = "count"
  /\ num_elements' = num_elements + 1
  /\ Goto(t, "push")
  /\ UNCHANGED <<buckets, wrt, mutex, readcount, locals, growth, fault>>

InsertPush(t) ==
  /\ pc[t] = "push"
  /\ \/ buckets' = [buckets EXCEPT ![BucketOf(t)] = <<arg[t]>> \o @] /\ Result(t, 1, NoValue)
     \/ MayRunOut /\ UNCHANGED buckets /\ Result(t, 0, NoValue)
  /\ Goto(t, "write_post")
  /\ UNCHANGED <<num_elements, wrt, mutex, readcount, op, arg, pos, growth, fault>>

(* Mutant: the value is replaced before the old pair is copied. *)
ReplaceBeforeCopy(t) ==
  /\ pc[t] = "replace"
  /\ Result(t, 2, arg[t].value)
  /\ buckets' = [buckets EXCEPT ![BucketOf(t)][pos[t]].value = arg[t].value]
  /\ Goto(t, "write_post")
  /\ UNCHANGED <<num_elements, wrt, mutex, readcount, op, arg, pos, growth, fault>>

InsertReplace(t) ==
  /\ pc[t] = "replace"
  /\ Result(t, 2, Chain(t)[pos[t]].value)
  /\ buckets' = [buckets EXCEPT ![BucketOf(t)][pos[t]].value = arg[t].value]
  /\ Goto(t, "write_post")
  /\ UNCHANGED <<num_elements, wrt, mutex, readcount, op, arg, pos, growth, fault>>

RemoveUncount(t) ==
  /\ pc[t] = "uncount"
  /\ num_elements' = num_elements - 1
  /\ Goto(t, "write_post")
  /\ UNCHANGED <<buckets, wrt, mutex, readcount, locals, growth, fault>>

WritePost(t) ==
  /\ pc[t] = "write_post"
  /\ wrt' = wrt + 1
  /\ Return(t)
  /\ UNCHANGED <<table, mutex, readcount, growth, fault>>

-----------------------------------------------------------------------------
(* LookupHashTable *)

MutexWait(t, from, to) ==
  /\ pc[t] = from
  /\ mutex > 0 /\ mutex' = mutex - 1
  /\ Goto(t, to)
  /\ UNCHANGED <<table, wrt, readcount, locals, growth, fault>>

(* Mutant: no lookup takes wrt. *)
EnterUnlocked(t) ==
  /\ pc[t] = "enter"
  /\ readcount' = readcount + 1
  /\ Goto(t, "enter_post")
  /\ UNCHANGED <<table, wrt, mutex, locals, growth, fault>>

(* readcount is read and written under mutex only. *)
LookupEnter(t) ==
  /\ pc[t] = "enter"
  /\ readcount' = readcount + 1
  /\ Goto(t, IF readcount' = 1 THEN "enter_wrt" ELSE "enter_post")
  /\ UNCHANGED <<table, wrt, mutex, locals, growth, fault>>

LookupFirst(t) ==
  /\ pc[t] = "enter_wrt"
  /\ wrt > 0 /\ wrt' = wrt - 1
  /\ Goto(t, "enter_post")
  /\ UNCHANGED <<table, mutex, readcount, locals, growth, fault>>

LookupEnterPost(t) ==
  /\ pc[t] = "enter_post"
  /\ mutex' = mutex + 1
  /\ Goto(t, "find")
  /\ UNCHANGED <<table, wrt, readcount, locals, growth, fault>>

(* Mutants: every lookup posts wrt as it leaves; the last one forgets to. *)
LeavePostsAlways(t) ==
  /\ pc[t] = "leave"
  /\ readcount' = readcount - 1
  /\ wrt' = wrt + 1
  /\ Goto(t, "leave_post")
  /\ UNCHANGED <<table, mutex, locals, growth, fault>>

LeaveForgets(t) ==
  /\ pc[t] = "leave"
  /\ readcount' = readcount - 1
  /\ Goto(t, "leave_post")
  /\ UNCHANGED <<table, wrt, mutex, locals, growth, fault>>

LookupLeave(t) ==
  /\ pc[t] = "leave"
  /\ readcount' = readcount - 1
  /\ wrt' = IF readcount' = 0 THEN wrt + 1 ELSE wrt
  /\ Goto(t, "leave_post")
  /\ UNCHANGED <<table, mutex, locals, growth, fault>>

LookupReturn(t) ==
  /\ pc[t] = "leave_post"
  /\ mutex' = mutex + 1
  /\ Return(t)
  /\ UNCHANGED <<table, wrt, readcount, growth, fault>>

-----------------------------------------------------------------------------
(* AllocateHashTable *)
Init ==
  /\ buckets = [b \in 0 .. NumBuckets - 1 |-> <<>>]
  /\ num_elements = 0
  /\ wrt = 1 /\ mutex = 1 /\ readcount = 0
  /\ op = [t \in Threads |-> "idle"]
  /\ pc = [t \in Threads |-> "idle"]
  /\ arg = [t \in Threads |-> NoArg]
  /\ pos = [t \in Threads |-> 0]
  /\ result = [t \in Threads |-> NoResult]
  /\ growth = NoGrowth
  /\ fault = FALSE

Acquire(t) ==
  WriteWait(t) \/ LookupFirst(t)
  \/ MutexWait(t, "enter_wait", "enter") \/ MutexWait(t, "leave_wait", "leave")

Proceed(t) ==
  \/ FindStart(t) \/ FindHit(t) \/ FindNext(t)
  \/ ResizeStart(t) \/ HashTableMakeIterator(t) \/ ResizeTransfer(t) \/ ResizeSwap(t)
  \/ FreeHashTable(t) \/ InsertCount(t) \/ InsertPush(t)
  \/ InsertReplace(t) \/ RemoveUncount(t) \/ WritePost(t)
  \/ LookupEnter(t) \/ LookupEnterPost(t) \/ LookupLeave(t) \/ LookupReturn(t)

Next ==
  \/ ~fault /\ \E t \in Threads : Call(t) \/ Acquire(t) \/ Proceed(t)
  \/ fault /\ UNCHANGED vars

(* A thread inside an operation keeps running, and a semaphore does not    *)
(* pass a waiting thread over for ever.                                    *)
Fairness ==
  \A t \in Threads : WF_vars(~fault /\ Proceed(t)) /\ SF_vars(~fault /\ Acquire(t))

Spec == Init /\ [][Next]_vars
FairSpec == Spec /\ Fairness

-----------------------------------------------------------------------------
(* Properties *)

Steps ==
  {"idle", "write_wait", "resize", "iterate", "transfer", "free_new",
   "find", "walk", "count", "push", "replace",
   "uncount", "write_post", "enter_wait", "enter", "enter_wrt", "enter_post",
   "leave_wait", "leave", "leave_post"}

Pairs == [key : KeySet, value : Values]

(* No chain is read or changed under an iterator that stands beside it, in  *)
(* particular.                                                              *)
TypeOK ==
  /\ buckets \in [0 .. NumBuckets - 1 -> Seq(Pairs)]
  /\ num_elements \in Nat
  /\ wrt \in {0, 1} /\ mutex \in {0, 1} /\ readcount \in 0 .. Cardinality(Threads)
  /\ op \in [Threads -> {"idle", "insert", "lookup", "remove"}]
  /\ pc \in [Threads -> Steps]
  /\ arg \in [Threads -> [key : KeySet \cup {-1}, value : Values \cup {NoValue}]]
  /\ result \in [Threads -> [ret : -1 .. 2, value : Values \cup {NoValue}]]
  /\ fault \in BOOLEAN
  /\ growth.valid => growth.node \in 1 .. Len(buckets[growth.bucket])
  /\ \A t \in Threads : pc[t] \in {"walk", "replace"} => pos[t] \in 1 .. Len(Chain(t))

Writing == {"resize", "iterate", "transfer", "free_new", "count", "push", "replace",
            "uncount", "write_post"}
Writers == {t \in Threads : pc[t] \in Writing \/ (pc[t] \in {"find", "walk"} /\ op[t] # "lookup")}
Inside  == {t \in Threads : op[t] = "lookup" /\ pc[t] \in {"enter_post", "find", "walk", "leave_wait", "leave"}}

(* While an insertion or a removal is between its semaphore calls no other  *)
(* thread is at the table, and the lookups there are exactly those counted: *)
(* the one that posts wrt really is the last (HashTable.c:253-268).         *)
Exclusion ==
  /\ Cardinality(Writers) <= 1
  /\ Writers # {} => Inside = {}
  /\ readcount = Cardinality(Inside \cup {t \in Threads : pc[t] = "enter_wrt"})
  /\ wrt = 1 <=> Writers = {} /\ Inside = {}

(* A key is in the table at most once, in the bucket it hashes to; when no  *)
(* insertion has failed, num_elements counts the pairs whenever nobody is   *)
(* changing them; and a resize that inserts what it never read              *)
(* (HashTable.c:424) gives up and leaves the table alone, unless failed     *)
(* insertions were counted.                                                 *)
ChainsOK ==
  /\ \A b \in DOMAIN buckets :
       /\ \A i \in 1 .. Len(buckets[b]) : HashKeyToBucketNum(buckets[b][i].key) = b
       /\ \A i, j \in 1 .. Len(buckets[b]) : buckets[b][i].key = buckets[b][j].key => i = j
  /\ Writers = {} => IF MayRunOut THEN num_elements >= Stored ELSE num_elements = Stored
  /\ fault => num_elements > Stored

(* A lookup always returns.  Lookups that keep overlapping can keep an      *)
(* insertion or a removal out for ever (they share wrt), but nothing else   *)
(* can: it returns if there are no lookups every now and then.              *)
OperationsReturn ==
  /\ \A t \in Threads : op[t] = "lookup" ~> (op[t] = "idle" \/ fault)
  /\ []<>(readcount = 0) => \A t \in Threads : op[t] # "idle" ~> (op[t] = "idle" \/ fault)

Contents ==
  [k \in KeySet |->
     LET chain == buckets[HashKeyToBucketNum(k)]
         at    == {i \in 1 .. Len(chain) : chain[i].key = k}
     IN IF at = {} THEN NoValue ELSE chain[CHOOSE i \in at : \A j \in at : i <= j].value]

(* The operation has taken effect. *)
Over(t) ==
  pc[t] \in {"uncount", "write_post", "leave_wait", "leave", "leave_post"}

Map == INSTANCE AtomicMap
         WITH contents <- Contents,
              op <- [t \in Threads |-> IF Over(t) THEN "return" ELSE op[t]]

(* proj3/README:80-81, "build our own thread-safe data structures": the hash*)
(* table implements the atomic map the reader threads take it for.  An      *)
(* insertion takes effect when the pair is linked or its value replaced, a  *)
(* removal or a lookup when find decides.                                   *)
ActsAsMap == Map!MSpec
=============================================================================
