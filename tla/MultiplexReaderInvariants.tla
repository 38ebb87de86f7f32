--------------------- MODULE MultiplexReaderInvariants ---------------------
(***************************************************************************)
(* What the proofs about MultiplexReader say of its states and steps: the  *)
(* inductive invariants and the facts they are made of.                    *)
(***************************************************************************)
EXTENDS MultiplexReader

(* TypeOK in three parts: the heap, the environment, the threads. *)
HeapType ==
  /\ table \in [Keys -> 0 .. Len(info)]
  /\ info \in Seq(InfoType(Len(queue)))
  /\ queue \in Seq(QueueType)

EnvType ==
  /\ conn \in [Readers -> Seq(Blocks)]
  /\ delivered \in Seq(DeliveredType)
  /\ ub \in BOOLEAN
  /\ fault \in {"none", "bad_access", "duplicate_exit"}

(* Objects are never taken back, only marked. *)
Grows == Len(info) <= Len(info') /\ Len(queue) <= Len(queue')

(* Assigning one local of a thread a value of its type.  The fields' sets   *)
(* are kept abstract: the lemma is about the shape of the record only.      *)
Shape(B, P, Q, F, C, K, O) ==
  [block : B, buffer : P, waiting_queue : Q, dummy : P, found : F, prev : P,
   done : P, next : P, calls : C, new_buf : P, repeat : P, old_block : O, set : F,
   kv : K]

ThreadOK(r) == InitOK(r) /\ DataOK(r) /\ FinishOK(r)

(* What TagsOK says of one object x when the tags D have been delivered. *)
ObjectOK(x, D) ==
  /\ x.next_tag \in {NO_TAG, x.tag + 1}
  /\ x.valid => x.prev_tag = x.tag - 1
  /\ x.completed => x.valid
  /\ x.written # {} => x.valid
  /\ x.sent => x.tag \in D

ObjectsOK == \A o \in Objects : ObjectOK(info[o], DeliveredTags)

(* The entries of a hash table are objects of their tags. *)
TableOK(tab) ==
  /\ tab[NO_TAG] = Null
  /\ \A t \in Tags : tab[t] # Null => tab[t] \in Objects /\ info[tab[t]].tag = t

(* What every step leaves to the other threads: no object changes its tag,  *)
(* a filled one stays as it was filled, and what is delivered stays so.     *)
Refilled(x, y) ==
  /\ y.tag = x.tag
  /\ x.valid => y.valid /\ y.prev_tag = x.prev_tag

(* The fields that OrderInv speaks of are the same, but for a block copied. *)
Alike(x, y) ==
  /\ y.tag = x.tag /\ y.prev_tag = x.prev_tag /\ y.next_tag = x.next_tag
  /\ y.valid = x.valid /\ y.completed = x.completed /\ y.sent = x.sent
  /\ y.written = x.written \/ x.valid

(* The locals m of a thread that finishes a buffer leave the rest as in l.  *)
Framed(m, l) ==
  /\ m.new_buf = l.new_buf /\ m.repeat = l.repeat /\ m.buffer = l.buffer
  /\ m.kv = l.kv /\ m.found = l.found

Keeps ==
  /\ Len(info) <= Len(info')
  /\ \A o \in Objects : Refilled(info[o], info'[o])
  /\ DeliveredTags \subseteq DeliveredTags'

(* The callers of a recursive call have delivered their buffers. *)
CallsOK(r) ==
  \A i \in 1 .. Len(th[r].calls) :
    th[r].calls[i] # Null /\ info[th[r].calls[i]].tag \in DeliveredTags

(* A finished buffer's steps leave what the data block's steps knew alone.  *)
FinishSteps == {"prev_insert", "prev_put_back", "prev_sent", "set_next", "free_prev",
                "deliver", "in_handler", "next_lookup", "next_completed", "remove",
                "zombie"}

(* What no step may do to an announced object x that it leaves as y. *)
Announced(x, y) ==
  x.valid => /\ y.buffer_size = x.buffer_size
             /\ x.buffer = "freed" => y.buffer = "freed"

AnnouncedAll == \A o \in 1 .. Len(info) : Announced(info[o], info'[o])
Unplaced == {"init_lookup", "init_insert", "data_lookup", "data_insert"}
Placed == {"put_back", "check_valid", "park", "attach", "enqueue", "copy"}
Holding == {"put_back", "check_valid", "park", "attach", "enqueue"}

(* Unread blocks, counted from the end of the stream. *)
Waits(r, j, k) ==
  j < Len(conn[r]) /\ BlockName(conn[r][Len(conn[r]) - j]) = k

OnWire(k) == {p \in Readers \X Nat : Waits(p[1], p[2], k)}
Coming(r, k) == pc[r] \in Unplaced /\ BlockName(th[r].block) = k
Awaited == {t \in Tags : OnWire(<<t, -1>>) # {} \/ \E r \in Readers : Coming(r, <<t, -1>>)}
Taken == {o \in Objects : \E r \in Readers : o = th[r].new_buf \/ o = th[r].repeat}

(* The objects that may have been filled, be filled, or be drained. *)
Fillable(e) ==
  {o \in Objects : /\ ~info[o].freed
                   /\ \/ info[o].valid
                      \/ o \in Taken
                      \/ info[o].tag \in Awaited /\ o = e[info[o].tag]}

(* The dummies that threads put in the place of such an object. *)
Beside(e) ==
  {o \in Objects : \E s \in Readers :
     pc[s] = "put_back" /\ th[s].dummy = o /\ th[s].buffer \in Fillable(e)}

Bound(r, k, e) ==
  /\ pc[r] \in Placed /\ BlockName(th[r].block) = k
  /\ th[r].buffer \in Fillable(e) \cup Beside(e)

InHands(k, e) == {r \in Readers : Coming(r, k) \/ Bound(r, k, e)}

Lies(q, i, k) ==
  /\ q \in 1 .. Len(queue) /\ i \in 1 .. Len(queue[q].blocks)
  /\ BlockName(queue[q].blocks[i]) = k

Holds(r, q, e) == th[r].waiting_queue = q /\ th[r].buffer \in Fillable(e)

Drains(q, k, e) ==
  \/ \E o \in Fillable(e) : info[o].waiting_queue = q
  \/ \E r \in Readers : Holds(r, q, e) /\ BlockName(th[r].block) # k

InQueues(k, e) == {p \in Nat \X Nat : Lies(p[1], p[2], k) /\ Drains(p[1], k, e)}
InBuffers(k) == {o \in Objects : info[o].tag = k[1] /\ k[2] \in info[o].written}
AtMostOne(S) == \A x, y \in S : x = y

Sole(W, H, P, C) ==
  /\ AtMostOne(W) /\ AtMostOne(H) /\ AtMostOne(P) /\ AtMostOne(C)
  /\ W # {} => H = {} /\ P = {} /\ C = {}
  /\ H # {} => P = {} /\ C = {}
  /\ P # {} => C = {}

Places(k, e) == Sole(OnWire(k), InHands(k, e), InQueues(k, e), InBuffers(k))

(* A queue a thread holds has the thread's own block in it at most once. *)
Paired(k, e) ==
  \A r \in Readers, q \in 1 .. Len(queue) :
    Holds(r, q, e) /\ BlockName(th[r].block) = k => AtMostOne({i \in Nat : Lies(q, i, k)})

Names == Tags \X Int
OnceInv == \A k \in Names : \A e : Places(k, e) /\ Paired(k, e)

(* The queues that threads hold, and whose they are. *)
HandOK(r) ==
  /\ th[r].waiting_queue # Null => pc[r] \in Holding
  /\ pc[r] \in Placed \cup {"count"} => HasTag(th[r].buffer, th[r].block.tag)
  /\ pc[r] = "put_back" => HasTag(th[r].dummy, th[r].block.tag)
  /\ \A o \in Objects :
       ~info[o].freed /\ info[o].waiting_queue # Null /\ info[o].waiting_queue = th[r].waiting_queue
         => pc[r] = "put_back" /\ o = th[r].dummy

Untouched(o) == info[o].tag \in Awaited => ~info[o].valid /\ o \notin Taken

HoldInv ==
  /\ \A r \in Readers : HandOK(r)
  /\ \A r, s \in Readers :
       th[r].waiting_queue = th[s].waiting_queue => r = s \/ th[r].waiting_queue = Null
  /\ \A o, p \in Objects :
       ~info[o].freed /\ ~info[p].freed /\ info[o].waiting_queue = info[p].waiting_queue
         => o = p \/ info[o].waiting_queue = Null
  /\ \A o \in Objects : Untouched(o)

Calm(x, y) ==
  /\ y.tag = x.tag /\ y.written = x.written
  /\ x.freed => y.freed
  /\ y.waiting_queue \in {Null, x.waiting_queue}

Blank(x) == ~x.valid /\ x.waiting_queue = Null /\ x.written = {}

CalmHeap ==
  /\ Len(info) <= Len(info')
  /\ \A o \in Objects : Calm(info[o], info'[o])
  /\ \A o \in Objects : info'[o].valid => info[o].valid \/ o \in Taken
  /\ \A o \in Objects' \ Objects : Blank(info'[o])
  /\ Len(queue') = Len(queue)
  /\ \A q \in 1 .. Len(queue) : queue'[q].blocks = queue[q].blocks

Others(r) == \A s \in Readers \ {r} : pc'[s] = pc[s] /\ th'[s] = th[s]

Steady(r) ==
  LET l == th[r]
      m == th'[r] IN
  /\ m.new_buf \in {Null, l.new_buf} /\ m.repeat \in {Null, l.repeat}
  /\ pc'[r] \in Unplaced => pc[r] \in Unplaced /\ m.block = l.block
  /\ pc'[r] \in Placed => /\ m.block = l.block
                          /\ pc[r] \in Placed => m.buffer = l.buffer
                          /\ pc[r] \in Unplaced \cup Placed
  /\ pc'[r] \in Placed \cup {"count"} => HasTag(th[r].buffer, th[r].block.tag)'
  /\ pc'[r] # "put_back"
  /\ m.waiting_queue # Null =>
       /\ pc'[r] \in Holding /\ pc[r] \in Holding
       /\ m.waiting_queue = l.waiting_queue /\ m.buffer = l.buffer /\ m.block = l.block
       /\ pc[r] = "put_back" => info'[l.dummy].freed

Reads == \A s \in Readers : conn'[s] \in {conn[s], <<>>}
Still(r) == Reads /\ CalmHeap /\ Others(r) /\ Steady(r)

(* What is filled, when the objects there are stay as they are in this respect. *)
Firm == \A o \in Objects : /\ info'[o].tag = info[o].tag /\ info'[o].valid = info[o].valid
                           /\ info'[o].freed = info[o].freed

Handed == {s \in Readers : HandOK(s)}
AllUntouched == \A o \in Objects : Untouched(o)

Gets(r, d, w) ==
  /\ \A o \in Objects' : ~info'[o].freed /\ info'[o].waiting_queue # Null =>
       \/ o \in Objects /\ ~info[o].freed /\ info[o].waiting_queue = info'[o].waiting_queue
       \/ o = d /\ info'[o].waiting_queue = w
  /\ \A s \in Readers \ {r} : th[s].waiting_queue # w
  /\ \A o \in Objects : ~info[o].freed /\ info[o].waiting_queue = w => o = d
  /\ th'[r].waiting_queue \in {Null, th[r].waiting_queue, w}

From(e, e2) == \A o \in Objects : o \in Fillable(e)' => o \in Fillable(e2)

Attaches(r, o, w) ==
  o = th[r].buffer /\ info' = [info EXCEPT ![o].waiting_queue = w]

Counters(o) == {r \in Readers : pc[r] = "count" /\ th[r].buffer = o}
Counting(o) == {th[r].block.seq_number : r \in Counters(o)}
Counted(o) == info[o].written \ Counting(o)

CountInv ==
  /\ \A o \in Objects : info[o].n_written = Cardinality(Counted(o))
  /\ \A r \in Readers : pc[r] = "count" =>
       th[r].buffer \in Objects /\ th[r].block.seq_number \in info[th[r].buffer].written
  /\ \A r, s \in Readers :
       /\ pc[r] = "count" /\ pc[s] = "count" /\ th[r].buffer = th[s].buffer
       /\ th[r].block.seq_number = th[s].block.seq_number
       => r = s

(* What most steps leave an object with, and what they allocate. *)
Tally(x, y) == y.tag = x.tag /\ y.written = x.written /\ y.n_written = x.n_written

Empty(x) == x.written = {} /\ x.n_written = 0

Tallied ==
  /\ Len(info) <= Len(info')
  /\ \A o \in Objects : Tally(info[o], info'[o])
  /\ \A o \in Objects' \ Objects : Empty(info'[o])

NoneFilled ==
  /\ \A o \in Objects : info'[o].valid => info[o].valid
  /\ \A o \in Objects' \ Objects : ~info'[o].valid

NoneCompleted ==
  /\ \A o \in Objects : info'[o].completed = info[o].completed
  /\ \A o \in Objects' \ Objects : ~info'[o].completed

(* A thread r neither comes to these steps nor leaves the first. *)
Aside(r) == pc[r] # "count" /\ pc'[r] \notin {"count", "complete"} /\ Others(r)

Carrying == Unplaced \cup Placed \cup {"init_valid", "init_fill"}

Stocked(x, S) ==
  /\ \A w \in x.written : DataBlock(x.tag, w) \in S
  /\ x.valid => \E b \in S : b.kind = "init" /\ b.tag = x.tag /\ b.buffer_size = x.buffer_size

Parked(S) == \A q \in 1 .. Len(queue) : queue[q].blocks \in Seq(S)

Known(S) ==
  /\ \A r \in Readers : conn[r] \in Seq(S)
  /\ \A r \in Readers : pc[r] \in Carrying => th[r].block \in S
  /\ Parked(S)
  /\ \A o \in Objects : Stocked(info[o], S)

Carries(r) == pc'[r] \in Carrying => pc[r] \in Carrying /\ th'[r].block = th[r].block
Whole(x) == x.written = 0 .. x.buffer_size - 1
Nearly(r) == th[r].buffer \in Objects /\ Whole(info[th[r].buffer])
Done(r) == th[r].done \in Objects /\ info[th[r].done].completed

WholeInv ==
  /\ \A o \in Objects : info[o].completed => Whole(info[o])
  /\ \A r \in Readers : pc[r] = "complete" => Nearly(r)
  /\ \A r \in Readers : pc[r] \in Finishing => Done(r)

(* A set of blocks in which every number is one of those announced. *)
Within(S) ==
  \A b, c \in S : b.kind = "init" /\ c.kind = "data" /\ b.tag = c.tag => c.seq_number < b.buffer_size

Sent(s) == UNION {{s[r][i] : i \in 1 .. Len(s[r])} : r \in Readers}
Origin == \E S \in SUBSET Blocks : Within(S) /\ Known(S)
BlocksInv == OnceInv /\ HoldInv /\ CountInv /\ WholeInv /\ Origin
Opening == {"init_lookup", "init_valid", "init_fill", "init_insert", "init_adopt"}
Ahead(r, i) == i \in 1 .. Len(conn[r]) /\ conn[r][i].kind = "init"
Opens(r) == pc[r] \in Opening \/ \E i \in Nat : Ahead(r, i)
Valid == {o \in Objects : info[o].valid}

(* The init blocks come on one connection, in the order of their tags: the  *)
(* tag of one that is still to be handled is above those of all filled.     *)
InitsInv ==
  /\ \A r, q \in Readers : Opens(r) /\ Opens(q) => r = q
  /\ \A r \in Readers : \A i, j \in Nat :
       Ahead(r, i) /\ Ahead(r, j) /\ i < j => conn[r][i].tag < conn[r][j].tag
  /\ \A r \in Readers : \A i \in Nat : Ahead(r, i) =>
       /\ pc[r] \in InitSteps => th[r].block.tag < conn[r][i].tag
       /\ \A o \in Valid : info[o].tag < conn[r][i].tag
  /\ \A r \in Readers : pc[r] = "init_adopt" => th[r].new_buf \in Objects
  /\ \A r \in Readers : \A o \in Valid :
       /\ pc[r] \in InitSteps => info[o].tag < th[r].block.tag
       /\ pc[r] = "init_adopt" => info[o].tag <= info[th[r].new_buf].tag
  /\ \A o, p \in Valid : info[o].tag = info[p].tag => o = p

Tagged == Len(info) <= Len(info') /\ \A o \in Objects : info'[o].tag = info[o].tag
CompletedTags == {info[o].tag : o \in {p \in Objects : info[p].completed}}
Spent(o) == info[o].n_written >= info[o].buffer_size
Passing == Finishing \cup {"next_lookup", "next_completed"}
Counter(r) == th[r].buffer \in Objects /\ Spent(th[r].buffer)

(* A completed buffer misses no block, nobody counts in it again; only a     *)
(* completed one is finished, delivered, or named by a next_tag.             *)
SpentInv ==
  /\ \A o \in Objects : info[o].completed => Spent(o)
  /\ \A o \in Objects : info[o].next_tag \in {NO_TAG} \cup CompletedTags
  /\ DeliveredTags \subseteq CompletedTags
  /\ \A r \in Readers :
       /\ pc[r] = "complete" => Counter(r)
       /\ pc[r] \in Passing => Done(r)
       /\ pc[r] = "next_completed" => info[th[r].done].tag + 1 \in CompletedTags

Ripens ==
  /\ Tagged /\ AnnouncedAll
  /\ \A o \in Objects : /\ info'[o].n_written >= info[o].n_written
                        /\ info[o].completed => info'[o].completed
  /\ \A o \in Objects' : info'[o].completed =>
       o \in Objects /\ (info[o].completed \/ (info[o].valid /\ Spent(o)))

Linked == \A o \in Objects' : info'[o].next_tag \in {NO_TAG} \cup CompletedTags

(* A step that sets no object's next_tag; an object it allocates has none,  *)
(* or that of a completed buffer.                                           *)
Untied ==
  /\ \A o \in Objects : info'[o].next_tag = info[o].next_tag
  /\ \A o \in Objects' \ Objects : info'[o].next_tag \in {NO_TAG} \cup CompletedTags

(* A step that leads to no count of the last block and to no finished buffer. *)
Elsewhere(r) ==
  /\ Ripens /\ Others(r) /\ delivered' = delivered
  /\ pc'[r] \notin Passing /\ pc'[r] # "complete"

(* The right to pass the buffer of tag t, and who may hold it: the threads  *)
(* that finish the buffer, the buffers before it whose next_tag names it     *)
(* and is still to be read, the threads that have read it there; the last    *)
(* stage are the handler calls that have returned.                           *)
Lookers(t) == {r \in Readers : pc[r] = "next_lookup" /\ info[th[r].done].tag = t}

Finishers(t) ==
  {r \in Readers : \/ pc[r] = "complete" /\ info[th[r].buffer].tag = t
                   \/ pc[r] \in Finishing /\ info[th[r].done].tag = t}

Unread(t) == t \notin DeliveredTags \/ Lookers(t) # {}
Waiting(t) == {o \in Valid : info[o].tag = t - 1 /\ info[o].next_tag = t /\ Unread(t - 1)}
Pickers(t) == {r \in Readers : pc[r] = "next_completed" /\ info[th[r].done].tag = t - 1}
Passed(t) == {i \in 1 .. Len(delivered) : delivered[i].tag = t}
Stages(t) == Sole(Finishers(t), Waiting(t), Pickers(t), Passed(t))
TokenInv == \A t \in Tags : Stages(t) /\ AtMostOne(Lookers(t))

LinksKept ==
  \A o \in Valid' : info'[o].next_tag # NO_TAG => o \in Valid /\ info'[o].next_tag = info[o].next_tag

TurnsInv == InitsInv /\ SpentInv /\ TokenInv

(* The thread that handles the init blocks, the tags of those it has not    *)
(* looked up yet, and the dummies it has to empty now or later: those of    *)
(* such a tag and the one it drains.                                        *)
Opener(r) == th[r].new_buf # Null \/ Opens(r)

Due == {t \in Tags : \E r \in Readers :
          \/ pc[r] \in InitSteps /\ th[r].block.tag = t
          \/ \E i \in 1 .. Len(conn[r]) : Ahead(r, i) /\ conn[r][i].tag = t}

Draws(r) == th[r].new_buf # Null /\ pc[r] \notin {"drain_clear", "free_repeat"}
Owed == {o \in Objects : info[o].tag \in Due \/ \E r \in Readers : Draws(r) /\ o = Owner(r)}

(* A dummy gets its queue when it is put into the table, and none in its    *)
(* place: the thread that brings one has seen that there was none.          *)
Stowed(o) ==
  /\ info[o].waiting_queue # Null
  /\ \A r \in Readers : pc[r] = "attach" => th[r].buffer # o

Finds(r) ==
  pc[r] = "drain_take" =>
    th[r].new_buf # Null /\ Owner(r) \in Owed /\ queue[info[Owner(r)].waiting_queue].blocks # <<>>

Past(r) ==
  th[r].new_buf # Null /\ pc[r] \notin {"init_valid", "init_fill"} => info[Owner(r)].tag \notin Due

QueueInv ==
  /\ \A r, s \in Readers : Opener(r) /\ Opener(s) => r = s
  /\ \A o \in Owed : Stowed(o)
  /\ \A r \in Readers : Finds(r) /\ Past(r)

(* Thread r goes on in its frame of an init block, or leaves it. *)
Carried(r) ==
  \/ th'[r].new_buf = Null
  \/ /\ th'[r].new_buf = th[r].new_buf /\ th'[r].repeat = th[r].repeat
     /\ pc[r] \in {"drain_clear", "free_repeat"} => pc'[r] = "free_repeat"
     /\ pc[r] \in {"init_valid", "init_fill"} => pc'[r] = "init_fill"

QueuesSame == \A o \in Objects : info'[o].waiting_queue = info[o].waiting_queue
Fuller == \A q \in 1 .. Len(queue) : queue[q].blocks # <<>> => queue'[q].blocks # <<>>
NothingOwed == \A o \in Objects' \ Objects : info'[o].tag \in Due' => info'[o].waiting_queue # Null
DueLess == Due' \subseteq Due /\ \A s \in Readers : Opens(s)' => Opens(s)
=============================================================================
