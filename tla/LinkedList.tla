------------------------------ MODULE LinkedList ------------------------------
(***************************************************************************)
(* proj3/LinkedList.c: the doubly linked list in which the hash table      *)
(* keeps its chains, with its iterators.  One thread uses a list at a time *)
(* (the table's semaphore), so a step is one call.  Nodes are memory cells *)
(* that malloc hands out in any order and that are reused after free.      *)
(*                                                                         *)
(* The client follows LinkedList.h:149-154: between making and freeing an  *)
(* iterator it changes the list through the iterator only, and it does not *)
(* use an iterator whose last element is gone.                             *)
(***************************************************************************)
EXTENDS Integers, Sequences, SequencesExt, FiniteSets

CONSTANTS
  Payloads,    \* integers, so that a list can be sorted; 0 is no payload
  NumNodes     \* bound: memory for so many nodes; malloc fails beyond it

ASSUME ListAssumption == Payloads \subseteq Int \ {0} /\ NumNodes \in Nat

Nodes == 1 .. NumNodes
NULL == 0
Nothing == 0
NoIterator == -1
Blank == [payload |-> Nothing, next |-> NULL, prev |-> NULL]

VARIABLES
  node,        \* the memory cells of struct ll_node
  allocated,   \* those malloc has given out
  head, tail, num_elements,
  iter,        \* the node the iterator is at, NoIterator when there is none
  ret          \* what the last call returned

list == <<node, allocated, head, tail, num_elements>>
vars == <<list, iter, ret>>

Returns(ok, p) == ret' = [ok |-> ok, payload |-> p]

(* The nodes met from first along link, up to the first NULL. *)
Walk(first, link) ==
  LET walk[k \in 0 .. NumNodes] ==
        IF k = 0 THEN first ELSE IF walk[k - 1] = NULL THEN NULL ELSE link[walk[k - 1]]
  IN [k \in 1 .. Cardinality({i \in 0 .. NumNodes : walk[i] # NULL}) |-> walk[k - 1]]

FromHead == Walk(head, [n \in Nodes |-> node[n].next])
FromTail == Walk(tail, [n \in Nodes |-> node[n].prev])

Items(nodes) == [k \in 1 .. Len(nodes) |-> node[nodes[k]].payload]

(* malloc returned NULL *)
NoMemory ==
  /\ allocated = Nodes
  /\ Returns(FALSE, Nothing)
  /\ UNCHANGED <<list, iter>>

(* The first node of an empty list: Push and Append do the same. *)
AddFirst(n, p) ==
  /\ node' = [node EXCEPT ![n] = [payload |-> p, next |-> NULL, prev |-> NULL]]
  /\ head' = n /\ tail' = n /\ num_elements' = 1

PushLinkedList(n, p) ==
  /\ allocated' = allocated \cup {n}
  /\ \/ num_elements = 0 /\ AddFirst(n, p)
     \/ /\ num_elements # 0
        /\ node' = [node EXCEPT ![n] = [payload |-> p, next |-> head, prev |-> NULL],
                                ![head].prev = n]
        /\ head' = n /\ num_elements' = num_elements + 1
        /\ UNCHANGED tail
  /\ Returns(TRUE, Nothing)

AppendLinkedList(n, p) ==
  /\ allocated' = allocated \cup {n}
  /\ \/ num_elements = 0 /\ AddFirst(n, p)
     \/ /\ num_elements # 0
        /\ node' = [node EXCEPT ![n] = [payload |-> p, next |-> NULL, prev |-> tail],
                                ![tail].next = n]
        /\ tail' = n /\ num_elements' = num_elements + 1
        /\ UNCHANGED head
  /\ Returns(TRUE, Nothing)

(* free: what the cell held is lost *)
Freed(nodes, n) == [nodes EXCEPT ![n] = Blank]

PopLinkedList ==
  /\ num_elements # 0
  /\ tail' = IF num_elements = 1 THEN NULL ELSE tail
  /\ head' = node[head].next
  /\ node' = Freed(IF num_elements = 1 THEN node ELSE [node EXCEPT ![head'].prev = NULL], head)
  /\ allocated' = allocated \ {head}
  /\ num_elements' = num_elements - 1

(* Mutant: the head of a list emptied from its tail is left behind. *)
SliceKeepsHead ==
  /\ num_elements # 0
  /\ tail' = node[tail].prev
  /\ node' = Freed(IF num_elements = 1 THEN node ELSE [node EXCEPT ![tail'].next = NULL], tail)
  /\ allocated' = allocated \ {tail}
  /\ num_elements' = num_elements - 1
  /\ UNCHANGED head

SliceLinkedList ==
  /\ num_elements # 0
  /\ head' = IF num_elements = 1 THEN NULL ELSE head
  /\ tail' = node[tail].prev
  /\ node' = Freed(IF num_elements = 1 THEN node ELSE [node EXCEPT ![tail'].next = NULL], tail)
  /\ allocated' = allocated \ {tail}
  /\ num_elements' = num_elements - 1

-----------------------------------------------------------------------------
(* The calls made without an iterator. *)

Add ==
  /\ iter = NoIterator
  /\ \/ \E n \in Nodes \ allocated, p \in Payloads :
          PushLinkedList(n, p) \/ AppendLinkedList(n, p)
     \/ NoMemory
  /\ UNCHANGED iter

Take ==
  /\ iter = NoIterator
  /\ \/ PopLinkedList /\ Returns(TRUE, node[head].payload)
     \/ SliceLinkedList /\ Returns(TRUE, node[tail].payload)
     \/ num_elements = 0 /\ Returns(FALSE, Nothing) /\ UNCHANGED list
  /\ UNCHANGED iter

(* One sweep of the bubble sort over the payloads, and as many sweeps as   *)
(* it can take until one swaps nothing.  No swap of equal payloads.        *)
Swaps(a, b, ascending) == IF ascending THEN a > b ELSE a < b

Sweep(s, ascending) ==
  LET sweep[k \in 1 .. Len(s)] ==
        IF k = 1 THEN s
        ELSE LET q == sweep[k - 1]
             IN IF Swaps(q[k - 1], q[k], ascending)
                THEN [q EXCEPT ![k - 1] = q[k], ![k] = q[k - 1]] ELSE q
  IN IF Len(s) < 2 THEN s ELSE sweep[Len(s)]

BubbleSort(s, ascending) ==
  LET sort[k \in 0 .. Len(s)] == IF k = 0 THEN s ELSE Sweep(sort[k - 1], ascending)
  IN sort[Len(s)]

PositionOf(n, nodes) == CHOOSE k \in 1 .. Len(nodes) : nodes[k] = n

SortLinkedList ==
  /\ iter = NoIterator
  /\ \E ascending \in BOOLEAN :
       LET sorted == BubbleSort(Items(FromHead), ascending) IN
       node' = [n \in Nodes |->
                  IF n \in Range(FromHead)
                  THEN [node[n] EXCEPT !.payload = sorted[PositionOf(n, FromHead)]]
                  ELSE node[n]]
  /\ Returns(TRUE, Nothing)
  /\ UNCHANGED <<allocated, head, tail, num_elements, iter>>

(* FreeLinkedList frees what it meets along next; the next list starts     *)
(* empty (AllocateLinkedList).                                             *)
FreeLinkedList ==
  /\ iter = NoIterator
  /\ allocated' = allocated \ Range(FromHead)
  /\ node' = [n \in Nodes |-> IF n \in Range(FromHead) THEN Blank ELSE node[n]]
  /\ head' = NULL /\ tail' = NULL /\ num_elements' = 0
  /\ Returns(TRUE, Nothing)
  /\ UNCHANGED iter

-----------------------------------------------------------------------------
(* The calls made through an iterator; the memory it takes itself is not   *)
(* one of the cells.                                                       *)

LLMakeIterator ==
  /\ iter = NoIterator
  /\ \/ num_elements # 0 /\ iter' \in {head, tail} /\ Returns(TRUE, Nothing)
     \/ num_elements = 0 /\ Returns(FALSE, Nothing) /\ UNCHANGED iter
  /\ UNCHANGED list

LLIteratorFree ==
  /\ iter # NoIterator /\ iter' = NoIterator
  /\ Returns(TRUE, Nothing) /\ UNCHANGED list

Usable == iter \in Nodes

LLIteratorMove(to) ==
  /\ \/ to # NULL /\ iter' = to /\ Returns(TRUE, Nothing)
     \/ to = NULL /\ Returns(FALSE, Nothing) /\ UNCHANGED iter
  /\ UNCHANGED list

LLIteratorNext == Usable /\ LLIteratorMove(node[iter].next)
LLIteratorPrev == Usable /\ LLIteratorMove(node[iter].prev)

LLIteratorGetPayload ==
  /\ Usable /\ Returns(TRUE, node[iter].payload)
  /\ UNCHANGED <<list, iter>>

DeleteSole ==
  /\ num_elements = 1
  /\ head' = NULL /\ tail' = NULL
  /\ num_elements' = 0
  /\ iter' = node[iter].next
  /\ node' = Freed(node, iter)
  /\ allocated' = allocated \ {iter}

(* Mutant: the successor keeps its link to the deleted node. *)
DeleteHalfLinked ==
  /\ num_elements # 1 /\ iter \notin {head, tail}
  /\ node' = Freed([node EXCEPT ![node[iter].prev].next = node[iter].next], iter)
  /\ iter' = node[iter].next
  /\ allocated' = allocated \ {iter}
  /\ num_elements' = num_elements - 1
  /\ UNCHANGED <<head, tail>>

DeleteInside ==
  /\ num_elements # 1 /\ iter \notin {head, tail}
  /\ node' = Freed([node EXCEPT ![node[iter].prev].next = node[iter].next,
                                ![node[iter].next].prev = node[iter].prev], iter)
  /\ iter' = node[iter].next
  /\ allocated' = allocated \ {iter}
  /\ num_elements' = num_elements - 1
  /\ UNCHANGED <<head, tail>>

(* Mutant: at the tail, too, the iterator moves to the next node. *)
DeleteEndForward ==
  /\ num_elements # 1
  /\ \/ iter = head /\ iter' = node[iter].next /\ PopLinkedList
     \/ iter # head /\ iter = tail /\ iter' = node[iter].next /\ SliceLinkedList

DeleteEnd ==
  /\ num_elements # 1
  /\ \/ iter = head /\ iter' = node[iter].next /\ PopLinkedList
     \/ iter # head /\ iter = tail /\ iter' = node[iter].prev /\ SliceLinkedList

LLIteratorDelete ==
  /\ Usable
  /\ DeleteSole \/ DeleteInside \/ DeleteEnd
  /\ Returns(num_elements # 1, node[iter].payload)

(* The new node in front of the iterator's, which is not the head. *)
Splice(n, p) ==
  LET before == node[iter].prev IN
  /\ node' = [node EXCEPT ![n] = [payload |-> p, next |-> iter, prev |-> before],
                          ![before].next = n, ![iter].prev = n]
  /\ allocated' = allocated \cup {n}
  /\ num_elements' = num_elements + 1
  /\ Returns(TRUE, Nothing)
  /\ UNCHANGED <<head, tail>>

LLIteratorInsertBefore ==
  /\ Usable
  /\ \/ \E n \in Nodes \ allocated, p \in Payloads :
          IF iter = head THEN PushLinkedList(n, p) ELSE Splice(n, p)
     \/ NoMemory
  /\ UNCHANGED iter

-----------------------------------------------------------------------------
(* AllocateLinkedList *)
Init ==
  /\ node = [n \in Nodes |-> Blank]
  /\ allocated = {}
  /\ head = NULL /\ tail = NULL /\ num_elements = 0
  /\ iter = NoIterator
  /\ ret = [ok |-> TRUE, payload |-> Nothing]

Next ==
  \/ Add \/ Take \/ SortLinkedList \/ FreeLinkedList
  \/ LLMakeIterator \/ LLIteratorFree \/ LLIteratorNext \/ LLIteratorPrev
  \/ LLIteratorGetPayload \/ LLIteratorDelete \/ LLIteratorInsertBefore

Spec == Init /\ [][Next]_vars

-----------------------------------------------------------------------------
(* Properties *)

(* The iterator and the ends of the list are never dangling, in particular. *)
TypeOK ==
  /\ node \in [Nodes -> [payload : Payloads \cup {Nothing}, next : Nodes \cup {NULL},
                         prev : Nodes \cup {NULL}]]
  /\ allocated \subseteq Nodes
  /\ head \in allocated \cup {NULL} /\ tail \in allocated \cup {NULL}
  /\ num_elements \in 0 .. NumNodes
  /\ iter \in allocated \cup {NULL, NoIterator}
  /\ ret \in [ok : BOOLEAN, payload : Payloads \cup {Nothing}]

(* After any sequence of calls at either end and through the iterator, the *)
(* list reads the same in both directions, it consists of exactly the      *)
(* memory in use (nothing is leaked, nothing freed is linked), and         *)
(* num_elements, on which the calls decide which links to set, is right.   *)
LinksOK ==
  /\ FromHead = Reverse(FromTail)
  /\ Range(FromHead) = allocated
  /\ IsInjective(FromHead)
  /\ num_elements = Len(FromHead)

Position ==
  IF iter \in {NoIterator, NULL} THEN iter ELSE PositionOf(iter, FromHead)

Abstract == INSTANCE ListSequence WITH items <- Items(FromHead), cursor <- Position

(* LinkedList.h: the calls on the pointers act as the calls on a sequence   *)
(* of payloads; in particular the iterator stands, after a deletion, on the *)
(* successor, on the predecessor at the tail (LinkedList.h:245-252).        *)
ActsAsSequence == Abstract!SSpec
=============================================================================
