------------------------------ MODULE BlockQueue ------------------------------
(***************************************************************************)
(* proj3/queue.c: a doubly linked list behind the semaphore wrt.  New      *)
(* nodes go in at the head, the oldest node is the tail.  The nodes are    *)
(* memory cells that malloc hands out in any order and that are reused     *)
(* after free; a step is one assignment to the shared structure.           *)
(***************************************************************************)
EXTENDS Naturals, Sequences, SequencesExt, FiniteSets

CONSTANTS
  Threads,
  Bufs,        \* what is enqueued
  NumNodes     \* bound: memory for so many nodes; malloc fails beyond it

ASSUME QueueAssumption == NumNodes \in Nat

Nodes == 1 .. NumNodes
NULL == 0
NoBuf == "nothing"
Blank == [buf |-> NoBuf, next |-> NULL, prev |-> NULL]

VARIABLES
  node,        \* the memory cells of struct queue_node
  allocated,   \* those malloc has given out
  head, tail,
  wrt,         \* the semaphore's value
  pc,
  arg,         \* arg[t]: the argument of enqueue
  mine,        \* mine[t]: new_head or old_tail
  was_empty,   \* was_empty[t]
  result,      \* result[t]: *buf_ptr or the answer of is_empty
  exited       \* enqueue found no memory and left with exit(errno)

list   == <<node, allocated, head, tail>>
locals == <<arg, mine, was_empty, result>>
vars   == <<list, wrt, pc, locals, exited>>

Goto(t, step) == pc' = [pc EXCEPT ![t] = step]

Call(t) ==
  /\ pc[t] = "idle"
  /\ \/ \E b \in Bufs : arg' = [arg EXCEPT ![t] = b] /\ Goto(t, "enqueue")
     \/ Goto(t, "dequeue") /\ UNCHANGED arg
     \/ Goto(t, "is_empty") /\ UNCHANGED arg
  /\ UNCHANGED <<list, wrt, mine, was_empty, result, exited>>

(* sem_wait *)
Wait(t, operation, step) ==
  /\ pc[t] = operation
  /\ wrt = 1 /\ wrt' = 0
  /\ Goto(t, step)
  /\ UNCHANGED <<list, locals, exited>>

(* The locals of t are dead when it returns. *)
Forget(t) ==
  /\ arg' = [arg EXCEPT ![t] = NoBuf]
  /\ mine' = [mine EXCEPT ![t] = NULL]
  /\ was_empty' = [was_empty EXCEPT ![t] = FALSE]
  /\ result' = [result EXCEPT ![t] = NoBuf]

(* Mutant: dequeue forgets sem_post when it finds the queue empty. *)
PostUnlessEmpty(t) ==
  /\ pc[t] = "post"
  /\ wrt' = IF mine[t] = NULL /\ result[t] = NoBuf THEN 0 ELSE 1
  /\ Goto(t, "idle") /\ Forget(t)
  /\ UNCHANGED <<list, exited>>

(* sem_post and return *)
Post(t) ==
  /\ pc[t] = "post"
  /\ wrt' = 1
  /\ Goto(t, "idle") /\ Forget(t)
  /\ UNCHANGED <<list, exited>>

-----------------------------------------------------------------------------
(* enqueue *)

EnqueueAlloc(t) ==
  /\ pc[t] = "enq_alloc"
  /\ \E n \in Nodes \ allocated :
       /\ allocated' = allocated \cup {n}
       /\ node' = [node EXCEPT ![n] = [buf |-> arg[t], next |-> head, prev |-> NULL]]
       /\ mine' = [mine EXCEPT ![t] = n]
  /\ was_empty' = [was_empty EXCEPT ![t] = (head = NULL)]
  /\ Goto(t, "enq_head")
  /\ UNCHANGED <<head, tail, wrt, arg, result, exited>>

EnqueueNoMemory(t) ==
  /\ pc[t] = "enq_alloc" /\ allocated = Nodes
  /\ exited' = TRUE
  /\ UNCHANGED <<list, wrt, pc, locals>>

EnqueueHead(t) ==
  /\ pc[t] = "enq_head"
  /\ head' = mine[t]
  /\ Goto(t, "enq_link")
  /\ UNCHANGED <<node, allocated, tail, wrt, locals, exited>>

(* Mutant: the old head is not linked back to the new one. *)
EnqueueUnlinked(t) ==
  /\ pc[t] = "enq_link"
  /\ IF was_empty[t] THEN tail' = head ELSE UNCHANGED tail
  /\ Goto(t, "post")
  /\ UNCHANGED <<node, allocated, head, wrt, locals, exited>>

EnqueueLink(t) ==
  /\ pc[t] = "enq_link"
  /\ IF was_empty[t] THEN tail' = head /\ UNCHANGED node
     ELSE node' = [node EXCEPT ![node[head].next].prev = head] /\ UNCHANGED tail
  /\ Goto(t, "post")
  /\ UNCHANGED <<allocated, head, wrt, locals, exited>>

-----------------------------------------------------------------------------
(* dequeue *)

DequeueNothing(t) ==
  /\ pc[t] = "deq_test" /\ head = NULL
  /\ result' = [result EXCEPT ![t] = NoBuf]
  /\ Goto(t, "post")
  /\ UNCHANGED <<list, wrt, arg, mine, was_empty, exited>>

(* Mutant: returns the newest buffer. *)
DequeueNewest(t) ==
  /\ pc[t] = "deq_test" /\ head # NULL
  /\ result' = [result EXCEPT ![t] = node[head].buf]
  /\ mine' = [mine EXCEPT ![t] = tail]
  /\ tail' = node[tail].prev
  /\ Goto(t, "deq_head")
  /\ UNCHANGED <<node, allocated, head, wrt, arg, was_empty, exited>>

DequeueTail(t) ==
  /\ pc[t] = "deq_test" /\ head # NULL
  /\ result' = [result EXCEPT ![t] = node[tail].buf]
  /\ mine' = [mine EXCEPT ![t] = tail]
  /\ tail' = node[tail].prev
  /\ Goto(t, "deq_head")
  /\ UNCHANGED <<node, allocated, head, wrt, arg, was_empty, exited>>

(* Mutant: the last node's removal leaves head behind. *)
DequeueKeepsHead(t) ==
  /\ pc[t] = "deq_head"
  /\ IF tail = NULL THEN UNCHANGED node
     ELSE node' = [node EXCEPT ![tail].next = NULL]
  /\ Goto(t, "deq_free")
  /\ UNCHANGED <<head, allocated, tail, wrt, locals, exited>>

DequeueHead(t) ==
  /\ pc[t] = "deq_head"
  /\ IF tail = NULL THEN head' = NULL /\ UNCHANGED node
     ELSE node' = [node EXCEPT ![tail].next = NULL] /\ UNCHANGED head
  /\ Goto(t, "deq_free")
  /\ UNCHANGED <<allocated, tail, wrt, locals, exited>>

(* What a freed cell holds is lost. *)
DequeueFree(t) ==
  /\ pc[t] = "deq_free"
  /\ allocated' = allocated \ {mine[t]}
  /\ node' = [node EXCEPT ![mine[t]] = Blank]
  /\ Goto(t, "post")
  /\ UNCHANGED <<head, tail, wrt, locals, exited>>

-----------------------------------------------------------------------------
IsEmpty(t) ==
  /\ pc[t] = "empty_test"
  /\ result' = [result EXCEPT ![t] = IF head = NULL THEN "yes" ELSE "no"]
  /\ Goto(t, "post")
  /\ UNCHANGED <<list, wrt, arg, mine, was_empty, exited>>

(* allocate_queue *)
Init ==
  /\ node = [n \in Nodes |-> Blank]
  /\ allocated = {}
  /\ head = NULL /\ tail = NULL /\ wrt = 1
  /\ pc = [t \in Threads |-> "idle"]
  /\ arg = [t \in Threads |-> NoBuf]
  /\ mine = [t \in Threads |-> NULL]
  /\ was_empty = [t \in Threads |-> FALSE]
  /\ result = [t \in Threads |-> NoBuf]
  /\ exited = FALSE

Locked(t) ==
  \/ EnqueueAlloc(t) \/ EnqueueNoMemory(t) \/ EnqueueHead(t) \/ EnqueueLink(t)
  \/ DequeueNothing(t) \/ DequeueTail(t) \/ DequeueHead(t) \/ DequeueFree(t)
  \/ IsEmpty(t) \/ Post(t)

Enter(t) ==
  \/ Wait(t, "enqueue", "enq_alloc")
  \/ Wait(t, "dequeue", "deq_test")
  \/ Wait(t, "is_empty", "empty_test")

Next ==
  \/ ~exited /\ \E t \in Threads : Call(t) \/ Enter(t) \/ Locked(t)
  \/ exited /\ UNCHANGED vars

(* Every thread inside an operation keeps running, and the semaphore does  *)
(* not pass a waiting thread over for ever.                                *)
Fairness == \A t \in Threads : WF_vars(~exited /\ Locked(t)) /\ SF_vars(~exited /\ Enter(t))

Spec == Init /\ [][Next]_vars
FairSpec == Spec /\ Fairness

-----------------------------------------------------------------------------
(* Properties *)

Steps ==
  {"idle", "enqueue", "dequeue", "is_empty", "enq_alloc", "enq_head", "enq_link",
   "deq_test", "deq_head", "deq_free", "empty_test", "post"}

(* The ends of the list are never dangling, in particular. *)
TypeOK ==
  /\ node \in [Nodes -> [buf : Bufs \cup {NoBuf}, next : Nodes \cup {NULL},
                         prev : Nodes \cup {NULL}]]
  /\ allocated \subseteq Nodes
  /\ head \in allocated \cup {NULL} /\ tail \in allocated \cup {NULL}
  /\ wrt \in {0, 1}
  /\ pc \in [Threads -> Steps]
  /\ arg \in [Threads -> Bufs \cup {NoBuf}]
  /\ mine \in [Threads -> Nodes \cup {NULL}]
  /\ was_empty \in [Threads -> BOOLEAN]
  /\ result \in [Threads -> Bufs \cup {NoBuf, "yes", "no"}]
  /\ exited \in BOOLEAN

(* The nodes met from first along link, up to the first NULL. *)
Walk(first, link) ==
  LET walk[k \in 0 .. NumNodes] ==
        IF k = 0 THEN first ELSE IF walk[k - 1] = NULL THEN NULL ELSE link[walk[k - 1]]
  IN [k \in 1 .. Cardinality({i \in 0 .. NumNodes : walk[i] # NULL}) |-> walk[k - 1]]

FromTail == Walk(tail, [n \in Nodes |-> node[n].prev])
FromHead == Walk(head, [n \in Nodes |-> node[n].next])

(* Whenever no thread holds the semaphore, the list reads the same in both  *)
(* directions, its nodes are exactly the memory in use (nothing leaked,     *)
(* nothing freed is linked), and none is in it twice.                       *)
ListOK ==
  wrt = 1 => /\ FromHead = Reverse(FromTail)
             /\ Range(FromTail) = allocated
             /\ IsInjective(FromTail)

(* No thread is stuck at the semaphore: dequeue gives it back on the early  *)
(* return as well (queue.c:43-46).                                          *)
OperationsReturn == \A t \in Threads : pc[t] # "idle" ~> (pc[t] = "idle" \/ exited)

(* Threads see a queue whose operations are atomic: enqueue happens when    *)
(* the new node becomes reachable from the tail, dequeue when the tail moves.*)
Operation(t) ==
  CASE pc[t] \in {"idle", "enqueue", "dequeue", "is_empty"} -> pc[t]
    [] pc[t] \in {"enq_alloc", "enq_head", "enq_link"}      -> "enqueue"
    [] pc[t] = "deq_test"                                   -> "dequeue"
    [] pc[t] = "empty_test"                                 -> "is_empty"
    [] OTHER                                                -> "return"

Contents == [k \in 1 .. Len(FromTail) |-> node[FromTail[k]].buf]

FIFO == INSTANCE FIFOQueue
          WITH contents <- Contents, op <- [t \in Threads |-> Operation(t)]

(* proj3/README:80-81, "build our own thread-safe data structures": queue.c *)
(* implements the atomic queue.                                             *)
ActsAsQueue == FIFO!QSpec
=============================================================================
