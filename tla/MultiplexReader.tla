--------------------------- MODULE MultiplexReader ---------------------------
(***************************************************************************)
(* The multiplexing reader, proj3/multiplex_reader.c: one thread per TCP   *)
(* connection, all sharing one hash table of buffer_info objects.  A step  *)
(* is one access to shared memory or one call of the thread-safe hash      *)
(* table or queue; between two steps of a thread any other thread may run. *)
(*                                                                         *)
(* The heap is explicit: info[o] is the o-th buffer_info ever allocated,   *)
(* queue[q] the q-th struct queue, Null the NULL pointer.  free() marks an *)
(* object; an access through a dangling or wild pointer has no defined     *)
(* outcome, so BadAccess records it in fault and the process stops there.  *)
(*                                                                         *)
(* InsertHashTable, LookupHashTable, RemoveFromHashTable, enqueue, dequeue *)
(* and is_empty are atomic: each runs under the semaphore of its table or  *)
(* queue.  The pthread mutex of a buffer_info guards two regions, InitFill *)
(* and Count, each a single step here.                                     *)
(***************************************************************************)
EXTENDS MultiplexStandards, FiniteSets

CONSTANTS
  Readers,      \* reader threads, one per connection
  Streams,      \* the assignments of block sequences to connections that the
                \* peer's writer may produce
  Overlap,      \* may two threads be inside handle_block at the same time?
  MayFail       \* may a connection break before all its blocks arrived?

ASSUME ReaderAssumption ==
  /\ Streams \subseteq [Readers -> Seq(Blocks)]
  /\ \A s \in Streams, r \in Readers : \A i \in 1 .. Len(s[r]) :
       s[r][i].kind = "init" => s[r][i].prev_tag = s[r][i].tag - 1
  /\ Overlap \in BOOLEAN
  /\ MayFail \in BOOLEAN

VARIABLES
  conn,       \* conn[r]: blocks of connection r not yet read
  table,      \* the hash table: tag -> buffer_info, Null when absent
  info,       \* every buffer_info allocated so far
  queue,      \* every waiting queue allocated so far
  pc,         \* pc[r]: the next step of thread r
  th,         \* th[r]: the local variables of thread r
  delivered,  \* buffers the handler has returned from, in that order
  ub,         \* has a thread read an uninitialised local (buffer_kv, old_block)?
  fault       \* why the process stopped, "none" while it runs

vars == <<conn, table, info, queue, pc, th, delivered, ub, fault>>
heap == <<table, info, queue>>
env  == <<conn, delivered, ub, fault>>

Null == 0
NoBlock == [kind |-> "none"]

(* Mutant: malloc instead of calloc, the queue pointer is a wild one. *)
CallocUncleared ==
  [tag |-> 0, prev_tag |-> 0, next_tag |-> 0, last_block |-> FALSE,
   valid |-> FALSE, completed |-> FALSE, sent |-> FALSE,
   buffer_size |-> 0, n_written |-> 0, written |-> {}, buffer |-> "null",
   waiting_queue |-> -1, freed |-> FALSE]

(* calloc(1, sizeof(struct buffer_info)): every field zero, so prev_tag is *)
(* the valid tag 0 until an init block fills the object.                   *)
Calloc ==
  [tag |-> 0, prev_tag |-> 0, next_tag |-> 0, last_block |-> FALSE,
   valid |-> FALSE, completed |-> FALSE, sent |-> FALSE,
   buffer_size |-> 0, n_written |-> 0, written |-> {}, buffer |-> "null",
   waiting_queue |-> Null, freed |-> FALSE]

Dummy(tag, next, q) ==
  [Calloc EXCEPT !.tag = tag, !.next_tag = next, !.waiting_queue = q]

(* The array is a new one, n_written stays what it was. *)
Filled(o, init) ==
  [o EXCEPT !.buffer = "live", !.written = {}, !.tag = init.tag, !.prev_tag = init.prev_tag,
            !.last_block = init.last_block, !.buffer_size = init.buffer_size,
            !.valid = TRUE]

(* The locals of one handle_block frame that are dead once it returns.     *)
(* new_buf, repeat, old_block belong to the init frame; kv are the two     *)
(* stack slots of buffer_kv (outer frame, frame nested in the drain loop). *)
(* Nothing clears kv and old_block; set tells whether this loop's dequeue  *)
(* has given old_block a value.                                            *)
Fresh(l) ==
  [l EXCEPT !.block = NoBlock, !.buffer = Null, !.waiting_queue = Null,
            !.dummy = Null, !.found = FALSE, !.prev = Null, !.done = Null,
            !.next = Null]

Idle(r) == pc[r] \in {"read", "closed"}
InInit(r) == th[r].new_buf # Null
Frame(r) == IF InInit(r) THEN "nested" ELSE "outer"
Owner(r) == IF th[r].repeat # Null THEN th[r].repeat ELSE th[r].new_buf

-----------------------------------------------------------------------------
(* Which objects the next step of a thread dereferences, and whether they  *)
(* are all still allocated.                                                *)

InfoUsed(r) ==
  LET l == th[r] IN
  CASE pc[r] \in {"init_valid", "init_fill"} -> {l.new_buf}
    [] pc[r] = "init_adopt" -> {l.new_buf, l.repeat}
    [] pc[r] \in {"drain", "drain_test", "drain_take", "drain_free", "drain_clear"} ->
         {Owner(r)}
    [] pc[r] = "free_repeat" -> {l.repeat}
    [] pc[r] \in {"put_back", "prev_put_back"} -> {l.dummy}
    [] pc[r] \in {"check_valid", "park", "attach", "enqueue", "copy", "count",
                  "complete"} -> {l.buffer}
    [] pc[r] \in {"prev_lookup", "prev_insert", "deliver", "in_handler",
                  "next_lookup", "remove", "zombie"} -> {l.done}
    [] pc[r] = "prev_sent" -> {l.prev}
    [] pc[r] \in {"set_next", "free_prev"} -> {l.prev, l.done}
    [] pc[r] = "next_completed" -> {l.next}
    [] OTHER -> {}

QueueUsed(r) ==
  LET local == {th[r].waiting_queue} \ {Null} IN
  CASE pc[r] \in {"drain_test", "drain_take", "drain_free"} ->
         {info[Owner(r)].waiting_queue}
    [] pc[r] = "check_valid" /\ info[th[r].buffer].valid -> local
    [] pc[r] = "enqueue" -> {info[th[r].buffer].waiting_queue} \cup local
    [] OTHER -> {}

BytesFreed(r) ==
  \/ pc[r] = "copy" /\ info[th[r].buffer].buffer # "live"
  \/ pc[r] = "in_handler" /\ info[th[r].done].buffer = "freed"

Safe(r) ==
  /\ \A o \in InfoUsed(r) : o # Null /\ ~info[o].freed
  /\ \A q \in QueueUsed(r) : q # Null /\ ~queue[q].freed
  /\ ~BytesFreed(r)

(* The thread is about to take the named step and may dereference what it uses. *)
At(r, step) == fault = "none" /\ pc[r] = step /\ Safe(r)

Goto(r, step) == pc' = [pc EXCEPT ![r] = step]
Locals(r, l) == th' = [th EXCEPT ![r] = l]

(* handle_block returns: to the drain loop that called it or to the socket *)
Return(r) ==
  /\ Goto(r, IF InInit(r) THEN "drain_test" ELSE "read")
  /\ Locals(r, Fresh(th[r]))

BadAccess(r) ==
  /\ fault = "none" /\ ~Safe(r)
  /\ fault' = "bad_access"
  /\ UNCHANGED <<heap, pc, th, conn, delivered, ub>>

-----------------------------------------------------------------------------
(* listen_for_block *)

Read(r) ==
  /\ At(r, "read") /\ conn[r] # <<>>
  /\ Overlap \/ \A q \in Readers \ {r} : Idle(q)
  /\ conn' = [conn EXCEPT ![r] = Tail(@)]
  /\ Locals(r, [th[r] EXCEPT !.block = Head(conn[r])])
  /\ Goto(r, IF Head(conn[r]).kind = "init" THEN "init_lookup" ELSE "data_lookup")
  /\ UNCHANGED <<heap, delivered, ub, fault>>

(* recieve_tcp_block returned 0 or -1: end of stream or a broken connection *)
Close(r) ==
  /\ At(r, "read") /\ (MayFail \/ conn[r] = <<>>)
  /\ conn' = [conn EXCEPT ![r] = <<>>]
  /\ Goto(r, "closed")
  /\ UNCHANGED <<heap, th, delivered, ub, fault>>

-----------------------------------------------------------------------------
(* handle_block, init block *)

InitLookup(r) ==
  /\ At(r, "init_lookup")
  /\ LET o == table[th[r].block.tag] IN
       /\ Locals(r, [th[r] EXCEPT !.new_buf = o])
       /\ Goto(r, IF o = Null THEN "init_insert" ELSE "init_valid")
  /\ UNCHANGED <<heap, env>>

(* exit(1) on a second init block for a tag; the test takes no lock *)
DuplicateExit(r) ==
  /\ At(r, "init_valid") /\ info[th[r].new_buf].valid
  /\ fault' = "duplicate_exit"
  /\ UNCHANGED <<heap, pc, th, conn, delivered, ub>>

InitNotValid(r) ==
  /\ At(r, "init_valid") /\ ~info[th[r].new_buf].valid
  /\ Goto(r, "init_fill")
  /\ UNCHANGED <<heap, th, env>>

(* The region under the object's mutex.  valid is written last, and the     *)
(* other threads read the fields set here only once they have seen it.  A   *)
(* second thread that has passed the test fills the object again.           *)
InitFill(r) ==
  /\ At(r, "init_fill")
  /\ info' = [info EXCEPT ![th[r].new_buf] = Filled(@, th[r].block)]
  /\ Goto(r, "drain")
  /\ UNCHANGED <<table, queue, th, env>>

(* The object is filled before it becomes reachable.  When another thread  *)
(* put a dummy there since the lookup, it is replaced and remembered.      *)
InitInsert(r) ==
  /\ At(r, "init_insert")
  /\ LET t   == th[r].block.tag
         new == Len(info) + 1
     IN /\ info' = Append(info, Filled([Calloc EXCEPT !.next_tag = NO_TAG], th[r].block))
        /\ table' = [table EXCEPT ![t] = new]
        /\ \/ table[t] = Null /\ Return(r)
           \/ /\ table[t] # Null
              /\ Locals(r, [th[r] EXCEPT !.new_buf = new, !.repeat = table[t]])
              /\ Goto(r, "init_adopt")
  /\ UNCHANGED <<queue, env>>

InitAdopt(r) ==
  /\ At(r, "init_adopt")
  /\ info' = [info EXCEPT ![th[r].new_buf].next_tag = info[th[r].repeat].next_tag]
  /\ Goto(r, "drain")
  /\ UNCHANGED <<table, queue, th, env>>

(* The end of the init block: a replaced dummy is freed, a filled one kept. *)
DrainDone(r) ==
  IF th[r].repeat # Null
    THEN Goto(r, "free_repeat") /\ UNCHANGED th
    ELSE Goto(r, "read") /\ Locals(r, [Fresh(th[r]) EXCEPT !.new_buf = Null])

DrainNothing(r) ==
  /\ At(r, "drain") /\ info[Owner(r)].waiting_queue = Null
  /\ DrainDone(r)
  /\ UNCHANGED <<heap, env>>

DrainLoop(r) ==
  /\ At(r, "drain") /\ info[Owner(r)].waiting_queue # Null
  /\ Goto(r, "drain_test")
  /\ Locals(r, [th[r] EXCEPT !.set = FALSE])
  /\ UNCHANGED <<heap, env>>

(* is_empty and dequeue are two calls, each under the queue's semaphore and *)
(* each on the waiting_queue the object has at that moment.                 *)
DrainMore(r) ==
  /\ At(r, "drain_test") /\ queue[info[Owner(r)].waiting_queue].blocks # <<>>
  /\ Goto(r, "drain_take")
  /\ UNCHANGED <<heap, th, env>>

(* Mutant: the loop tests the queue pointer, not whether the queue is empty. *)
DrainForever(r) ==
  /\ At(r, "drain_test") /\ queue[info[Owner(r)].waiting_queue].blocks = <<>>
  /\ Goto(r, "drain_test")
  /\ UNCHANGED <<heap, th, env>>

DrainEmpty(r) ==
  /\ At(r, "drain_test") /\ queue[info[Owner(r)].waiting_queue].blocks = <<>>
  /\ Goto(r, "drain_free")
  /\ UNCHANGED <<heap, th, env>>

(* dequeue a parked block into old_block and call handle_block on it; only  *)
(* data blocks are ever parked (TypeOK)                                     *)
DrainBlock(r) ==
  LET q == info[Owner(r)].waiting_queue IN
  /\ At(r, "drain_take") /\ queue[q].blocks # <<>>
  /\ queue' = [queue EXCEPT ![q].blocks = Tail(@)]
  /\ Locals(r, [th[r] EXCEPT !.block = Head(queue[q].blocks),
                             !.old_block = Head(queue[q].blocks), !.set = TRUE])
  /\ Goto(r, "data_lookup")
  /\ UNCHANGED <<table, info, env>>

(* dequeue found nothing, which is not looked at: the block of the turn     *)
(* before is handled again, or what the stack slot holds if there was none: *)
(* a block of an earlier loop or garbage.                                   *)
DrainStale(r) ==
  /\ At(r, "drain_take") /\ queue[info[Owner(r)].waiting_queue].blocks = <<>>
  /\ ub' = (ub \/ ~th[r].set)
  /\ \/ /\ th[r].old_block # NoBlock
        /\ Locals(r, [th[r] EXCEPT !.block = th[r].old_block])
        /\ Goto(r, "data_lookup")
        /\ UNCHANGED fault
     \/ /\ ~th[r].set
        /\ fault' = "bad_access"
        /\ UNCHANGED <<pc, th>>
  /\ UNCHANGED <<heap, conn, delivered>>

DrainFree(r) ==
  /\ At(r, "drain_free")
  /\ queue' = [queue EXCEPT ![info[Owner(r)].waiting_queue].freed = TRUE]
  /\ Goto(r, "drain_clear")
  /\ UNCHANGED <<table, info, th, env>>

DrainClear(r) ==
  /\ At(r, "drain_clear")
  /\ info' = [info EXCEPT ![Owner(r)].waiting_queue = Null]
  /\ DrainDone(r)
  /\ UNCHANGED <<table, queue, env>>

FreeRepeat(r) ==
  /\ At(r, "free_repeat")
  /\ info' = [info EXCEPT ![th[r].repeat].freed = TRUE]
  /\ Goto(r, "read")
  /\ Locals(r, [Fresh(th[r]) EXCEPT !.new_buf = Null, !.repeat = Null])
  /\ UNCHANGED <<table, queue, env>>

-----------------------------------------------------------------------------
(* handle_block, data block *)

DataLookup(r) ==
  /\ At(r, "data_lookup")
  /\ LET o == table[th[r].block.tag] IN
     \/ /\ o # Null
        /\ Locals(r, [th[r] EXCEPT !.kv[Frame(r)] = o, !.buffer = o, !.found = TRUE])
        /\ Goto(r, "check_valid")
     \/ /\ o = Null
        /\ Goto(r, "data_insert") /\ UNCHANGED th
  /\ UNCHANGED <<heap, env>>

(* allocate_queue, enqueue, insert_dummy_buffer.  The insertion replaces   *)
(* whatever is in the table; if that was something, it must be put back.   *)
DataInsert(r) ==
  /\ At(r, "data_insert")
  /\ LET t == th[r].block.tag
         q == Len(queue) + 1
         d == Len(info) + 1
     IN /\ queue' = Append(queue, [blocks |-> <<th[r].block>>, freed |-> FALSE])
        /\ info' = Append(info, Dummy(t, NO_TAG, q))
        /\ table' = [table EXCEPT ![t] = d]
        /\ \/ table[t] = Null /\ Return(r)
           \/ /\ table[t] # Null
              /\ Locals(r, [th[r] EXCEPT !.waiting_queue = q, !.dummy = d,
                                         !.buffer = table[t]])
              /\ Goto(r, "put_back")
  /\ UNCHANGED env

PutBack(r) ==
  /\ At(r, "put_back")
  /\ table' = [table EXCEPT ![th[r].block.tag] = th[r].buffer]
  /\ info' = [info EXCEPT ![th[r].dummy].freed = TRUE]
  /\ Locals(r, [th[r] EXCEPT !.dummy = Null])
  /\ Goto(r, "check_valid")
  /\ UNCHANGED <<queue, env>>

FreeLocalQueue(r, q) ==
  IF th[r].waiting_queue = Null THEN q
  ELSE [q EXCEPT ![th[r].waiting_queue].freed = TRUE]

CheckValid(r) ==
  /\ At(r, "check_valid")
  /\ \/ /\ info[th[r].buffer].valid
        /\ queue' = FreeLocalQueue(r, queue)
        /\ Locals(r, [th[r] EXCEPT !.waiting_queue = Null])
        /\ Goto(r, "copy")
     \/ /\ ~info[th[r].buffer].valid
        /\ Goto(r, "park") /\ UNCHANGED <<queue, th>>
  /\ UNCHANGED <<table, info, env>>

(* Mutant: every parked block gets a queue of its own. *)
ParkAnew(r) ==
  /\ At(r, "park")
  /\ Goto(r, "attach")
  /\ UNCHANGED <<heap, th, env>>

(* buffer->waiting_queue is read here and again when it is used *)
Park(r) ==
  /\ At(r, "park")
  /\ Goto(r, IF info[th[r].buffer].waiting_queue = Null THEN "attach" ELSE "enqueue")
  /\ UNCHANGED <<heap, th, env>>

(* With a queue of its own the thread hands that over and is done; else it *)
(* allocates one and enqueues in the next step.                            *)
Attach(r) ==
  /\ At(r, "attach")
  /\ \/ /\ th[r].waiting_queue # Null
        /\ info' = [info EXCEPT ![th[r].buffer].waiting_queue = th[r].waiting_queue]
        /\ Return(r) /\ UNCHANGED queue
     \/ /\ th[r].waiting_queue = Null
        /\ queue' = Append(queue, [blocks |-> <<>>, freed |-> FALSE])
        /\ info' = [info EXCEPT ![th[r].buffer].waiting_queue = Len(queue) + 1]
        /\ Goto(r, "enqueue") /\ UNCHANGED th
  /\ UNCHANGED <<table, env>>

Enqueue(r) ==
  LET q == info[th[r].buffer].waiting_queue IN
  /\ At(r, "enqueue")
  /\ queue' = FreeLocalQueue(r, [queue EXCEPT ![q].blocks = Append(@, th[r].block)])
  /\ Return(r)
  /\ UNCHANGED <<table, info, env>>

Copy(r) ==
  /\ At(r, "copy")
  /\ info' = [info EXCEPT ![th[r].buffer].written = @ \cup {th[r].block.seq_number}]
  /\ Goto(r, "count")
  /\ UNCHANGED <<table, queue, th, env>>

(* Mutant: a buffer counts as complete one block too early. *)
LastButOne(o) == o.n_written + 2 = o.buffer_size

(* the block being counted is the last one missing in o *)
LastBlock(o) == o.n_written + 1 = o.buffer_size

Count(r) ==
  LET b == th[r].buffer IN
  /\ At(r, "count")
  /\ info' = [info EXCEPT ![b].n_written = @ + 1]
  /\ \/ LastBlock(info[b]) /\ Goto(r, "complete") /\ UNCHANGED th
     \/ ~LastBlock(info[b]) /\ Return(r)
  /\ UNCHANGED <<table, queue, env>>

(* handle_finished_buffer_prev is given buffer_kv, which only a successful *)
(* lookup sets.  After a lost insertion race it holds what the stack slot  *)
(* holds: the pointer an earlier call left there, or garbage (Null here).  *)
Complete(r) ==
  /\ At(r, "complete")
  /\ info' = [info EXCEPT ![th[r].buffer].completed = TRUE]
  /\ \E o \in {th[r].kv[Frame(r)]} \cup (IF th[r].found THEN {} ELSE {Null}) :
       Locals(r, [th[r] EXCEPT !.done = o])
  /\ ub' = (ub \/ ~th[r].found)
  /\ Goto(r, "prev_lookup")
  /\ UNCHANGED <<table, queue, conn, delivered, fault>>

-----------------------------------------------------------------------------
(* handle_finished_buffer_prev *)

PrevLookup(r) ==
  /\ At(r, "prev_lookup")
  /\ LET p == info[th[r].done].prev_tag IN
     \/ /\ p = NO_TAG
        /\ Goto(r, "deliver") /\ UNCHANGED th
     \/ /\ p # NO_TAG /\ table[p] = Null
        /\ Goto(r, "prev_insert") /\ UNCHANGED th
     \/ /\ p # NO_TAG /\ table[p] # Null
        /\ Locals(r, [th[r] EXCEPT !.prev = table[p]])
        /\ Goto(r, "prev_sent")
  /\ UNCHANGED <<heap, env>>

PrevInsert(r) ==
  /\ At(r, "prev_insert")
  /\ LET t == info[th[r].done].prev_tag
         d == Len(info) + 1
     IN /\ info' = Append(info, Dummy(t, info[th[r].done].tag, Null))
        /\ table' = [table EXCEPT ![t] = d]
        /\ \/ /\ table[t] = Null
              /\ Locals(r, [th[r] EXCEPT !.prev = d])
              /\ Goto(r, "prev_sent")
           \/ /\ table[t] # Null
              /\ Locals(r, [th[r] EXCEPT !.prev = table[t], !.dummy = d])
              /\ Goto(r, "prev_put_back")
  /\ UNCHANGED <<queue, env>>

PrevPutBack(r) ==
  /\ At(r, "prev_put_back")
  /\ table' = [table EXCEPT ![info[th[r].dummy].tag] = th[r].prev]
  /\ info' = [info EXCEPT ![th[r].dummy].freed = TRUE]
  /\ Locals(r, [th[r] EXCEPT !.dummy = Null])
  /\ Goto(r, "prev_sent")
  /\ UNCHANGED <<queue, env>>

(* Mutant: asks whether the predecessor is complete, not whether it is sent. *)
PrevCompleted(r) ==
  /\ At(r, "prev_sent")
  /\ Goto(r, IF info[th[r].prev].completed THEN "free_prev" ELSE "set_next")
  /\ UNCHANGED <<heap, th, env>>

PrevSent(r) ==
  /\ At(r, "prev_sent")
  /\ Goto(r, IF info[th[r].prev].sent THEN "free_prev" ELSE "set_next")
  /\ UNCHANGED <<heap, th, env>>

(* Mutants: set_next without the return that follows it, without the        *)
(* assignment, and with the wrong tag.                                      *)
SetNextFallsThrough(r) ==
  /\ At(r, "set_next")
  /\ info' = [info EXCEPT ![th[r].prev].next_tag = info[th[r].done].tag]
  /\ Goto(r, "deliver")
  /\ UNCHANGED <<table, queue, th, env>>

SetNextForgotten(r) ==
  /\ At(r, "set_next")
  /\ Return(r)
  /\ UNCHANGED <<heap, env>>

SetNextPrev(r) ==
  /\ At(r, "set_next")
  /\ info' = [info EXCEPT ![th[r].prev].next_tag = info[th[r].done].prev_tag]
  /\ Return(r)
  /\ UNCHANGED <<table, queue, env>>

SetNext(r) ==
  /\ At(r, "set_next")
  /\ info' = [info EXCEPT ![th[r].prev].next_tag = info[th[r].done].tag]
  /\ Return(r)
  /\ UNCHANGED <<table, queue, env>>

FreePrev(r) ==
  /\ At(r, "free_prev")
  /\ table' = [table EXCEPT ![info[th[r].done].prev_tag] = Null]
  /\ info' = [info EXCEPT ![th[r].prev].freed = TRUE]
  /\ Goto(r, "deliver")
  /\ UNCHANGED <<queue, th, env>>

-----------------------------------------------------------------------------
(* handle_finished_buffer_next; th[r].calls holds the callers of a         *)
(* recursive call, innermost last                                          *)

CallHandler(r) ==
  /\ At(r, "deliver")
  /\ Goto(r, "in_handler")
  /\ UNCHANGED <<heap, th, env>>

(* Every handler of the program (save_buffer, send_buffer, bounce_buffer)  *)
(* frees the bytes it is given.                                            *)
HandlerReturns(r) ==
  /\ At(r, "in_handler")
  /\ delivered' = Append(delivered, [tag |-> info[th[r].done].tag,
                                     blocks |-> info[th[r].done].written])
  /\ info' = [info EXCEPT ![th[r].done].buffer = IF @ = "null" THEN @ ELSE "freed"]
  /\ Goto(r, "next_lookup")
  /\ UNCHANGED <<table, queue, th, conn, ub, fault>>

NextLookup(r) ==
  /\ At(r, "next_lookup")
  /\ LET o == info[th[r].done]
         n == IF o.last_block THEN Null ELSE table[o.next_tag]
     IN \/ n = Null /\ Goto(r, "zombie") /\ UNCHANGED th
        \/ /\ n # Null
           /\ Locals(r, [th[r] EXCEPT !.next = n])
           /\ Goto(r, "next_completed")
  /\ UNCHANGED <<heap, env>>

NextCompleted(r) ==
  /\ At(r, "next_completed")
  /\ \/ /\ info[th[r].next].completed
        /\ Locals(r, [th[r] EXCEPT !.calls = Append(@, th[r].done),
                                   !.done = th[r].next, !.next = Null])
        /\ Goto(r, "deliver")
     \/ /\ ~info[th[r].next].completed
        /\ Goto(r, "zombie") /\ UNCHANGED th
  /\ UNCHANGED <<heap, env>>

DoneRemove(r) ==
  /\ At(r, "remove")
  /\ table' = [table EXCEPT ![info[th[r].done].tag] = Null]
  /\ Goto(r, "zombie")
  /\ UNCHANGED <<info, queue, th, env>>

(* sent is set; the call returns to the "done" label of its caller, or     *)
(* handle_block returns                                                    *)
Zombie(r) ==
  LET calls == th[r].calls
      n     == Len(calls)
  IN
  /\ At(r, "zombie")
  /\ info' = [info EXCEPT ![th[r].done].sent = TRUE]
  /\ \/ calls = <<>> /\ Return(r)
     \/ /\ calls # <<>>
        /\ Locals(r, [th[r] EXCEPT !.done = calls[n], !.next = Null,
                                   !.calls = SubSeq(calls, 1, n - 1)])
        /\ Goto(r, "remove")
  /\ UNCHANGED <<table, queue, env>>

-----------------------------------------------------------------------------
Init ==
  /\ conn \in Streams
  /\ table = [t \in Keys |-> Null]
  /\ info = <<>>
  /\ queue = <<>>
  /\ pc = [r \in Readers |-> "read"]
  /\ th = [r \in Readers |->
             [block |-> NoBlock, buffer |-> Null, waiting_queue |-> Null,
              dummy |-> Null, found |-> FALSE, prev |-> Null, done |-> Null,
              next |-> Null, calls |-> <<>>, new_buf |-> Null, repeat |-> Null,
              old_block |-> NoBlock, set |-> FALSE,
              kv |-> [f \in {"outer", "nested"} |-> Null]]]
  /\ delivered = <<>>
  /\ ub = FALSE
  /\ fault = "none"

InitBlockStep(r) ==
  \/ InitLookup(r) \/ DuplicateExit(r) \/ InitNotValid(r) \/ InitFill(r)
  \/ InitInsert(r) \/ InitAdopt(r) \/ DrainNothing(r) \/ DrainLoop(r)
  \/ DrainMore(r) \/ DrainEmpty(r) \/ DrainBlock(r) \/ DrainStale(r)
  \/ DrainFree(r) \/ DrainClear(r) \/ FreeRepeat(r)

DataBlockStep(r) ==
  \/ DataLookup(r) \/ DataInsert(r) \/ PutBack(r) \/ CheckValid(r) \/ Park(r)
  \/ Attach(r) \/ Enqueue(r) \/ Copy(r) \/ Count(r) \/ Complete(r)

FinishedStep(r) ==
  \/ PrevLookup(r) \/ PrevInsert(r) \/ PrevPutBack(r) \/ PrevSent(r)
  \/ SetNext(r) \/ FreePrev(r) \/ CallHandler(r) \/ HandlerReturns(r)
  \/ NextLookup(r) \/ NextCompleted(r) \/ DoneRemove(r) \/ Zombie(r)

ReaderStep(r) ==
  \/ Read(r) \/ Close(r) \/ BadAccess(r)
  \/ InitBlockStep(r) \/ DataBlockStep(r) \/ FinishedStep(r)

(* All threads have returned, or the process is gone. *)
Stopped ==
  /\ fault # "none" \/ \A r \in Readers : pc[r] = "closed"
  /\ UNCHANGED vars

Next == (\E r \in Readers : ReaderStep(r)) \/ Stopped

(* No reader ever blocks on another for good and the scheduler runs every  *)
(* thread, so each thread keeps taking steps.                              *)
Fairness == \A r \in Readers : WF_vars(ReaderStep(r))

Spec == Init /\ [][Next]_vars
FairSpec == Spec /\ Fairness

-----------------------------------------------------------------------------
(* Properties *)

Draining == {"drain", "drain_test", "drain_take", "drain_free", "drain_clear"}
InitSteps == {"init_lookup", "init_valid", "init_fill", "init_insert"}
DataSteps == {"data_lookup", "data_insert", "put_back", "check_valid", "park",
              "attach", "enqueue", "copy", "count", "complete"}

Steps ==
  InitSteps \cup DataSteps \cup Draining \cup
  {"read", "closed", "init_adopt", "free_repeat",
   "prev_lookup", "prev_insert", "prev_put_back", "prev_sent", "set_next", "free_prev", "deliver", "in_handler", "next_lookup",
   "next_completed", "remove", "zombie"}

(* With p objects and q queues allocated so far. *)
InfoType(q) ==
  [tag : Keys, prev_tag : Keys, next_tag : Keys, last_block : BOOLEAN,
   valid : BOOLEAN, completed : BOOLEAN, sent : BOOLEAN,
   buffer_size : 0 .. MaxSize, n_written : Nat,
   written : SUBSET (0 .. MaxSize - 1), buffer : {"null", "live", "freed"},
   waiting_queue : 0 .. q, freed : BOOLEAN]

QueueType == [blocks : Seq(DataBlocks), freed : BOOLEAN]

LocalsType(p, q) ==
  [block : Blocks \cup {NoBlock}, buffer : 0 .. p, waiting_queue : 0 .. q,
   dummy : 0 .. p, found : BOOLEAN, prev : 0 .. p, done : 0 .. p,
   next : 0 .. p, calls : Seq(0 .. p), new_buf : 0 .. p, repeat : 0 .. p,
   old_block : DataBlocks \cup {NoBlock}, set : BOOLEAN,
   kv : [{"outer", "nested"} -> 0 .. p]]

DeliveredType == [tag : Keys, blocks : SUBSET (0 .. MaxSize - 1)]

(* Every pointer held anywhere was returned by an allocation (or is NULL),  *)
(* each branch of handle_block works on a block of its kind, and only data  *)
(* blocks are ever parked in a waiting queue.                               *)
TypeOK ==
  /\ conn \in [Readers -> Seq(Blocks)]
  /\ table \in [Keys -> 0 .. Len(info)]
  /\ info \in Seq(InfoType(Len(queue)))
  /\ queue \in Seq(QueueType)
  /\ pc \in [Readers -> Steps]
  /\ th \in [Readers -> LocalsType(Len(info), Len(queue))]
  /\ delivered \in Seq(DeliveredType)
  /\ ub \in BOOLEAN
  /\ fault \in {"none", "bad_access", "duplicate_exit"}
  /\ \A r \in Readers : /\ pc[r] \in InitSteps => th[r].block \in InitBlocks
                        /\ pc[r] \in DataSteps => th[r].block \in DataBlocks

DeliveredTags == {delivered[i].tag : i \in 1 .. Len(delivered)}

(* multiplex_reader.h:15, "Buffers will only be passed in order": a thread  *)
(* enters the handler with a buffer only after the handler has returned     *)
(* from its predecessor, whichever threads completed the two and whatever   *)
(* else ran meanwhile (unless an uninitialised local has been used).        *)
InOrder ==
  ub \/ \A r \in Readers : pc[r] = "in_handler" =>
          \/ info[th[r].done].tag = 0
          \/ info[th[r].done].tag - 1 \in DeliveredTags

(* The handler gets a buffer only when every byte is in place: the copy     *)
(* precedes the count (multiplex_reader.c:247-255), so whoever sees the     *)
(* last count, on whichever thread, sees all the data.                      *)
WholeBuffers ==
  ub \/ \A r \in Readers : pc[r] = "in_handler" =>
          info[th[r].done].written = 0 .. info[th[r].done].buffer_size - 1

(* The drain loop (multiplex_reader.c:192-193) gets a block whenever it was *)
(* told there is one: between the two calls no other thread takes a block   *)
(* out or puts another queue in the place of the one that was looked at     *)
(* (line 240).  What dequeue returns is not checked, so the block of the    *)
(* turn before would be counted twice.  Needs the writer's streams, with    *)
(* the init blocks of all buffers on one connection.                        *)
DrainFinds ==
  ub \/ \A r \in Readers : pc[r] = "drain_take" =>
          LET q == info[Owner(r)].waiting_queue IN q # Null /\ queue[q].blocks # <<>>

(* Every thread gets back to reading its connection: no drain loop, no      *)
(* chain of recursive handle_finished_buffer_next calls goes on for ever.   *)
ThreadsReturn ==
  \A r \in Readers : ~Idle(r) ~> (Idle(r) \/ fault # "none")

(* No buffer is passed twice, nor to two threads' handlers at a time: the   *)
(* thread that completed it and the chain of handle_finished_buffer_next    *)
(* calls of its predecessor never both take it.  The handler frees the      *)
(* bytes, so a second call would be given freed memory.                     *)
PassedOnce ==
  ub \/ \A r \in Readers : pc[r] = "in_handler" =>
          /\ info[th[r].done].tag \notin DeliveredTags
          /\ \A q \in Readers \ {r} : pc[q] = "in_handler" =>
               info[th[q].done].tag # info[th[r].done].tag

(* Every connection has been read to its end and nothing went wrong.        *)
Finished == fault = "none" /\ ~ub /\ \A r \in Readers : pc[r] = "closed"

(* README:58-60: a data block's "payload is added to the appropriate byte   *)
(* index in the buffer": once all blocks have been read, all are in place.  *)
PayloadsAdded ==
  Finished => \A t \in Tags : \E o \in 1 .. Len(info) :
    /\ info[o].tag = t /\ info[o].valid
    /\ info[o].n_written = info[o].buffer_size

(* multiplex_reader.c:277, "we're being blocked by the prev, we have to     *)
(* wait for it to send us": a complete buffer whose predecessors are all    *)
(* complete has been sent by the time the threads are done.                 *)
WaitersAreSent ==
  Finished /\ (\A t \in Tags : \E o \in 1 .. Len(info) :
                 info[o].tag = t /\ info[o].completed)
    => DeliveredTags = Tags

(* What the documentation says becomes of the blocks and buffers that have  *)
(* been received, whichever thread reads which and when.                    *)
ReceivedIsPassed == PayloadsAdded /\ WaitersAreSent

-----------------------------------------------------------------------------
(* What the peer's writer transmits (multiplex_writer.c:71-115).  A block   *)
(* is known by its tag and its place in the buffer.  Each is written once,  *)
(* to one connection, and the data blocks lie within the announced size.    *)
BlockName(b) == <<b.tag, IF b.kind = "init" THEN -1 ELSE b.seq_number>>

SentOnce(s) ==
  \A r, q \in Readers : \A i \in 1 .. Len(s[r]), j \in 1 .. Len(s[q]) :
    /\ BlockName(s[r][i]) = BlockName(s[q][j]) => r = q /\ i = j
    /\ s[r][i].kind = "init" /\ s[q][j].kind = "data" /\ s[r][i].tag = s[q][j].tag
         => s[q][j].seq_number < s[r][i].buffer_size

(* All init blocks go to the last queue, hence to one connection, and tags  *)
(* are given out in ascending order (lines 74, 84).                         *)
InitsInOrder(s) ==
  \A r, q \in Readers : \A i \in 1 .. Len(s[r]), j \in 1 .. Len(s[q]) :
    s[r][i].kind = "init" /\ s[q][j].kind = "init" =>
      r = q /\ (i < j => s[r][i].tag < s[q][j].tag)

-----------------------------------------------------------------------------
(* The inductive invariant behind InOrder.                                  *)

Objects == 1 .. Len(info)

(* A table entry is an object of that tag; next_tag, when set, is the tag   *)
(* after its own; a filled object has its predecessor's tag; a completed    *)
(* one, and one that data is in, has been filled; and sent means the        *)
(* handler has returned from it.                                            *)
TagsOK ==
  /\ table[NO_TAG] = Null
  /\ \A t \in Tags : table[t] # Null => info[table[t]].tag = t
  /\ \A o \in Objects :
       /\ info[o].next_tag \in {NO_TAG, info[o].tag + 1}
       /\ info[o].valid => info[o].prev_tag = info[o].tag - 1
       /\ info[o].completed => info[o].valid
       /\ info[o].written # {} => info[o].valid
       /\ info[o].sent => info[o].tag \in DeliveredTags

(* Init blocks name the tag before their own as the predecessor. *)
ChainOK ==
  \A r \in Readers :
    /\ \A i \in 1 .. Len(conn[r]) :
         conn[r][i].kind = "init" => conn[r][i].prev_tag = conn[r][i].tag - 1
    /\ pc[r] \in InitSteps =>
         th[r].block.prev_tag = th[r].block.tag - 1

HasTag(o, t) == o # Null /\ info[o].tag = t

(* Steps of a thread whose frame has not looked a data block's buffer up.   *)
Unfound == InitSteps \cup Draining \cup
           {"read", "closed", "init_adopt", "free_repeat", "data_lookup",
            "data_insert", "put_back"}

(* What a thread knows between its steps while it handles an init block, *)
(* a data block, a finished buffer.                                       *)
InitOK(r) ==
  /\ pc[r] \in {"read", "init_lookup"} => th[r].new_buf = Null
  /\ pc[r] \in {"init_valid", "init_fill"} => HasTag(th[r].new_buf, th[r].block.tag)
  /\ th[r].repeat # Null => HasTag(th[r].new_buf, info[th[r].repeat].tag)

DataOK(r) ==
  /\ pc[r] = "put_back" => HasTag(th[r].buffer, th[r].block.tag)
  /\ pc[r] \in {"copy", "count", "complete"} =>
       th[r].buffer # Null /\ info[th[r].buffer].valid
  /\ pc[r] \in Unfound => ~th[r].found
  /\ th[r].found => th[r].kv[Frame(r)] = th[r].buffer

Finishing == {"prev_lookup", "prev_insert", "prev_put_back", "prev_sent",
              "set_next", "free_prev", "deliver", "in_handler"}

FinishOK(r) ==
  LET l == th[r] IN
  /\ pc[r] \in Finishing => l.done # Null /\ info[l.done].valid
  /\ pc[r] \in {"prev_insert", "prev_put_back", "prev_sent", "set_next", "free_prev"} =>
       info[l.done].prev_tag # NO_TAG
  /\ pc[r] = "prev_put_back" => HasTag(l.prev, info[l.dummy].tag) /\ l.dummy # Null
  /\ pc[r] \in {"prev_put_back", "prev_sent", "set_next", "free_prev"} =>
       HasTag(l.prev, info[l.done].prev_tag)
  /\ pc[r] = "free_prev" => info[l.done].prev_tag \in DeliveredTags
  /\ pc[r] \in {"deliver", "in_handler"} =>
       info[l.done].tag = 0 \/ info[l.done].tag - 1 \in DeliveredTags
  /\ pc[r] \in {"next_lookup", "next_completed", "remove", "zombie"} =>
       l.done # Null /\ info[l.done].tag \in DeliveredTags
  /\ pc[r] = "next_completed" => HasTag(l.next, info[l.done].tag + 1)
  /\ \A i \in 1 .. Len(l.calls) :
       l.calls[i] # Null /\ info[l.calls[i]].tag \in DeliveredTags

(* TypeOK /\ this is inductive: no step, of any number of threads, breaks   *)
(* the chain of tags, so a thread reaches the handler only with a buffer    *)
(* whose predecessor is known to be delivered.                              *)
OrderInv ==
  /\ ChainOK
  /\ ~ub => /\ TagsOK
            /\ \A r \in Readers : InitOK(r) /\ DataOK(r) /\ FinishOK(r)

=============================================================================
