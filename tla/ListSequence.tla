---------------------------- MODULE ListSequence ----------------------------
(***************************************************************************)
(* What proj3/LinkedList.h promises: a sequence of payloads with an        *)
(* iterator that stands on one of them.  A call may also fail, returning   *)
(* false and changing nothing, when there is no memory.                    *)
(***************************************************************************)
EXTENDS Integers, Sequences, SequencesExt, FiniteSets

CONSTANTS Payloads, Nothing

VARIABLES
  items,     \* the payloads, head first
  cursor,    \* where the iterator stands: -1 no iterator, 0 invalid
  ret        \* what the last call returned: [ok, payload]

svars == <<items, cursor, ret>>

Returns(ok, p) == ret' = [ok |-> ok, payload |-> p]

SInit == items = <<>> /\ cursor = -1 /\ ret = [ok |-> TRUE, payload |-> Nothing]

SFail == Returns(FALSE, Nothing) /\ UNCHANGED <<items, cursor>>

SAdd ==
  /\ cursor = -1
  /\ \E p \in Payloads : items' = <<p>> \o items \/ items' = Append(items, p)
  /\ Returns(TRUE, Nothing) /\ UNCHANGED cursor

STake ==
  /\ cursor = -1 /\ items # <<>>
  /\ \/ items' = Tail(items) /\ Returns(TRUE, Head(items))
     \/ items' = Front(items) /\ Returns(TRUE, Last(items))
  /\ UNCHANGED cursor

Occurrences(s, p) == Cardinality({i \in 1 .. Len(s) : s[i] = p})

SSort ==
  /\ cursor = -1
  /\ Len(items') = Len(items)
  /\ \A p \in Payloads : Occurrences(items', p) = Occurrences(items, p)
  /\ \/ \A i \in 1 .. Len(items') - 1 : items'[i] <= items'[i + 1]
     \/ \A i \in 1 .. Len(items') - 1 : items'[i] >= items'[i + 1]
  /\ Returns(TRUE, Nothing) /\ UNCHANGED cursor

(* FreeLinkedList and a new list *)
SClear == cursor = -1 /\ items' = <<>> /\ Returns(TRUE, Nothing) /\ UNCHANGED cursor

SMake ==
  /\ cursor = -1 /\ items # <<>>
  /\ cursor' \in {1, Len(items)} /\ Returns(TRUE, Nothing) /\ UNCHANGED items

SDrop ==
  /\ cursor # -1 /\ cursor' = -1
  /\ Returns(TRUE, Nothing) /\ UNCHANGED items

SMove ==
  /\ cursor > 0
  /\ \/ cursor < Len(items) /\ cursor' = cursor + 1
     \/ cursor > 1 /\ cursor' = cursor - 1
  /\ Returns(TRUE, Nothing) /\ UNCHANGED items

SGet == cursor > 0 /\ Returns(TRUE, items[cursor]) /\ UNCHANGED <<items, cursor>>

(* The successor of the deleted element, its predecessor at the tail; the  *)
(* iterator is invalid when there was only one element.                    *)
SDelete ==
  /\ cursor > 0
  /\ items' = RemoveAt(items, cursor)
  /\ cursor' = IF cursor = Len(items) THEN cursor - 1 ELSE cursor
  /\ Returns(items' # <<>>, items[cursor])

(* The iterator still points to the same element. *)
SInsert ==
  /\ cursor > 0
  /\ \E p \in Payloads : items' = InsertAt(items, cursor, p)
  /\ cursor' = cursor + 1 /\ Returns(TRUE, Nothing)

SNext ==
  SFail \/ SAdd \/ STake \/ SSort \/ SClear \/ SMake \/ SDrop \/ SMove \/ SGet
  \/ SDelete \/ SInsert

SSpec == SInit /\ [][SNext]_svars
=============================================================================
