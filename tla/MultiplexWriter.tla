--------------------------- MODULE MultiplexWriter ---------------------------
(***************************************************************************)
(* The sending side, proj3/multiplex_writer.c: threads that call           *)
(* multiplex_write_queues (the client's main thread, or several readers of *)
(* the server bouncing a buffer) hand blocks to one queue per connection;  *)
(* one sender thread per queue waits on its condition variable, dequeues   *)
(* and sends.  What a call writes, block by block and queue by queue, is   *)
(* BlockSplit's subject; here it is a program, a sequence of writes.       *)
(*                                                                         *)
(* enqueue, dequeue and is_empty are atomic: they are called with the      *)
(* queue's mutex held.                                                     *)
(***************************************************************************)
EXTENDS Integers, Sequences, SequencesExt, Subsequence

CONSTANTS
  Queues,       \* one queue, one sender thread, one connection
  Writers,      \* threads inside multiplex_write_queues
  Programs,     \* the assignments of programs to writers: what each writes,
                \* a sequence of [queue, block], block.by being the writer
  MayBreak      \* may the peer close a connection?

(* The writes of the programs p. *)
WritesOf(p) == UNION {{p[w][i] : i \in 1 .. Len(p[w])} : w \in Writers}

ASSUME WriterAssumption ==
  /\ -1 \notin Queues \cup Writers
  /\ Queues \cap Writers = {}
  /\ \A p \in Programs :
       /\ p \in [Writers -> Seq(WritesOf(p))]
       /\ \A w \in Writers : \A i \in 1 .. Len(p[w]) :
            p[w][i].queue \in Queues /\ p[w][i].block.by = w
  /\ MayBreak \in BOOLEAN

VARIABLES
  program,    \* the programs of this run
  todo,       \* todo[w]: the writes writer w has yet to make
  queue,      \* queue[q]: the blocks in the queue, the oldest first
  mutex,      \* mutex[q]: the thread that holds it, or Nobody
  pc,         \* pc[t]: the next step of a writer or sender
  buf,        \* buf[q]: the block the sender of q has dequeued
  sent,       \* sent[q]: the blocks handed to the connection
  open,       \* open[q]: the connection still takes blocks
  alive       \* the process has not been killed

vars == <<program, todo, queue, mutex, pc, buf, sent, open, alive>>

Nobody == -1
NoBlock == [by |-> Nobody]

env == <<program, open, alive>>

-----------------------------------------------------------------------------
(* write_block_to_queue *)

Target(w) == Head(todo[w]).queue

WriterLock(w) ==
  /\ pc[w] = "lock" /\ todo[w] # <<>>
  /\ mutex[Target(w)] = Nobody
  /\ mutex' = [mutex EXCEPT ![Target(w)] = w]
  /\ pc' = [pc EXCEPT ![w] = "enqueue"]
  /\ UNCHANGED <<todo, queue, buf, sent, env>>

WriterEnqueue(w) ==
  /\ pc[w] = "enqueue"
  /\ queue' = [queue EXCEPT ![Target(w)] = Append(@, Head(todo[w]).block)]
  /\ pc' = [pc EXCEPT ![w] = "signal"]
  /\ UNCHANGED <<todo, mutex, buf, sent, env>>

(* Mutant: no pthread_cond_signal. *)
WriterNoSignal(w) ==
  /\ pc[w] = "signal"
  /\ pc' = [pc EXCEPT ![w] = "unlock"]
  /\ UNCHANGED <<todo, queue, mutex, buf, sent, env>>

(* Only the sender of the queue ever waits on its condition variable. *)
WriterSignal(w) ==
  /\ pc[w] = "signal"
  /\ pc' = [pc EXCEPT ![w] = "unlock",
                      ![Target(w)] = IF @ = "waiting" THEN "lock" ELSE @]
  /\ UNCHANGED <<todo, queue, mutex, buf, sent, env>>

WriterUnlock(w) ==
  /\ pc[w] = "unlock"
  /\ mutex' = [mutex EXCEPT ![Target(w)] = Nobody]
  /\ todo' = [todo EXCEPT ![w] = Tail(@)]
  /\ pc' = [pc EXCEPT ![w] = "lock"]
  /\ UNCHANGED <<queue, buf, sent, env>>

-----------------------------------------------------------------------------
(* listen_for_blocks.  Locking for the first time and locking again after  *)
(* a wait both lead to the test of is_empty.                               *)

SenderLock(q) ==
  /\ pc[q] = "lock" /\ mutex[q] = Nobody
  /\ mutex' = [mutex EXCEPT ![q] = q]
  /\ pc' = [pc EXCEPT ![q] = "check"]
  /\ UNCHANGED <<todo, queue, buf, sent, env>>

(* Mutant: waits without giving the mutex up. *)
SenderWaitHolding(q) ==
  /\ pc[q] = "check" /\ queue[q] = <<>>
  /\ pc' = [pc EXCEPT ![q] = "waiting"]
  /\ UNCHANGED <<todo, queue, mutex, buf, sent, env>>

(* pthread_cond_wait gives the mutex up and waits in one step. *)
SenderWait(q) ==
  /\ pc[q] = "check" /\ queue[q] = <<>>
  /\ mutex' = [mutex EXCEPT ![q] = Nobody]
  /\ pc' = [pc EXCEPT ![q] = "waiting"]
  /\ UNCHANGED <<todo, queue, buf, sent, env>>

(* Mutant: if instead of while, a woken sender does not look again. *)
SpuriousWakeupUnchecked(q) ==
  /\ pc[q] = "waiting" /\ mutex[q] = Nobody
  /\ mutex' = [mutex EXCEPT ![q] = q]
  /\ buf' = [buf EXCEPT ![q] = NoBlock]
  /\ pc' = [pc EXCEPT ![q] = "unlock"]
  /\ UNCHANGED <<todo, queue, sent, env>>

(* POSIX allows a wait to end without a signal. *)
SpuriousWakeup(q) ==
  /\ pc[q] = "waiting"
  /\ pc' = [pc EXCEPT ![q] = "lock"]
  /\ UNCHANGED <<todo, queue, mutex, buf, sent, env>>

(* Mutant: takes the newest block. *)
SenderPops(q) ==
  /\ pc[q] = "check" /\ queue[q] # <<>>
  /\ buf' = [buf EXCEPT ![q] = Last(queue[q])]
  /\ queue' = [queue EXCEPT ![q] = Front(@)]
  /\ pc' = [pc EXCEPT ![q] = "unlock"]
  /\ UNCHANGED <<todo, mutex, sent, env>>

SenderDequeue(q) ==
  /\ pc[q] = "check" /\ queue[q] # <<>>
  /\ buf' = [buf EXCEPT ![q] = Head(queue[q])]
  /\ queue' = [queue EXCEPT ![q] = Tail(@)]
  /\ pc' = [pc EXCEPT ![q] = "unlock"]
  /\ UNCHANGED <<todo, mutex, sent, env>>

SenderUnlock(q) ==
  /\ pc[q] = "unlock"
  /\ mutex' = [mutex EXCEPT ![q] = Nobody]
  /\ pc' = [pc EXCEPT ![q] = "send"]
  /\ UNCHANGED <<todo, queue, buf, sent, env>>

(* What send_tcp returns is ignored: when send fails the block is freed     *)
(* unsent, like any other ...                                              *)
SenderSend(q) ==
  /\ pc[q] = "send"
  /\ sent' = IF open[q] THEN [sent EXCEPT ![q] = Append(@, buf[q])] ELSE sent
  /\ buf' = [buf EXCEPT ![q] = NoBlock]
  /\ pc' = [pc EXCEPT ![q] = "lock"]
  /\ UNCHANGED <<todo, queue, mutex, env>>

(* ... but a send on a connection the peer has closed may also raise        *)
(* SIGPIPE, which kills the process: no program of proj3 handles it.       *)
SigPipe(q) ==
  /\ pc[q] = "send" /\ ~open[q]
  /\ alive' = FALSE
  /\ UNCHANGED <<program, todo, queue, mutex, pc, buf, sent, open>>

(* The peer closes the connection, or it breaks. *)
Break(q) ==
  /\ MayBreak /\ open[q]
  /\ open' = [open EXCEPT ![q] = FALSE]
  /\ UNCHANGED <<program, todo, queue, mutex, pc, buf, sent, alive>>

-----------------------------------------------------------------------------
Init ==
  /\ program \in Programs
  /\ todo = program
  /\ queue = [q \in Queues |-> <<>>]
  /\ mutex = [q \in Queues |-> Nobody]
  /\ pc = [t \in Queues \cup Writers |-> "lock"]
  /\ buf = [q \in Queues |-> NoBlock]
  /\ sent = [q \in Queues |-> <<>>]
  /\ open = [q \in Queues |-> TRUE]
  /\ alive = TRUE

Writer(w) == WriterLock(w) \/ WriterEnqueue(w) \/ WriterSignal(w) \/ WriterUnlock(w)

Sender(q) ==
  \/ SenderLock(q) \/ SenderWait(q) \/ SenderDequeue(q)
  \/ SenderUnlock(q) \/ SenderSend(q) \/ SigPipe(q)

Next ==
  \/ /\ alive
     /\ \/ \E w \in Writers : Writer(w)
        \/ \E q \in Queues : Sender(q) \/ SpuriousWakeup(q) \/ Break(q)
  \/ ~alive /\ UNCHANGED vars

(* Every thread keeps running when it can.  SF: spurious wakeups of the     *)
(* sender do not keep a writer away from the mutex for ever.               *)
Fairness ==
  /\ \A w \in Writers : WF_vars(alive /\ Writer(w)) /\ SF_vars(alive /\ WriterLock(w))
  /\ \A q \in Queues : WF_vars(alive /\ Sender(q))

Spec == Init /\ [][Next]_vars
FairSpec == Spec /\ Fairness

-----------------------------------------------------------------------------
(* Properties *)

Blocks == {x.block : x \in WritesOf(program)}

TypeOK ==
  /\ program \in Programs
  /\ \A w \in Writers : \E n \in 0 .. Len(program[w]) :
       todo[w] = SubSeq(program[w], n + 1, Len(program[w]))
  /\ \A q \in Queues : /\ queue[q] \in Seq(Blocks) /\ sent[q] \in Seq(Blocks)
                       /\ buf[q] \in Blocks \cup {NoBlock}
                       /\ mutex[q] \in {Nobody, q} \cup Writers
                       /\ pc[q] \in {"lock", "check", "waiting", "unlock", "send"}
  /\ \A w \in Writers : pc[w] \in {"lock", "enqueue", "signal", "unlock"}
  /\ open \in [Queues -> BOOLEAN] /\ alive \in BOOLEAN

(* What a program writes to queue q. *)
Part(p, q) ==
  LET writes == Only(p, {x \in WritesOf(program) : x.queue = q})
  IN [i \in 1 .. Len(writes) |-> writes[i].block]

By(s, w) == Only(s, {b \in Blocks : b.by = w})

InHand(q) == IF pc[q] \in {"unlock", "send"} THEN <<buf[q]>> ELSE <<>>

Unwritten(w) == IF pc[w] \in {"signal", "unlock"} THEN Tail(todo[w]) ELSE todo[w]

(* What README:50-52 has the writer threads do, and what the receiver       *)
(* relies on: however many threads write to however many queues, every      *)
(* connection carries exactly the blocks meant for it, those of one buffer  *)
(* in the order they were written, the init block therefore before any data *)
(* block that shares its connection.  A broken connection carries a prefix. *)
CarriesInOrder ==
  \A q \in Queues, w \in Writers :
    IF open[q]
      THEN By(sent[q] \o InHand(q) \o queue[q], w) \o Part(Unwritten(w), q)
             = Part(program[w], q)
      ELSE IsPrefix(By(sent[q], w), Part(program[w], q))

(* No wakeup is lost: every block of a connection that does not break is    *)
(* sent in the end, though a sender that finds its queue empty sleeps until *)
(* it is signalled (43-46, 60-68).                                          *)
AllSent ==
  \A q \in Queues :
    <>(\/ ~alive \/ ~open[q]
       \/ \A w \in Writers : By(sent[q], w) = Part(program[w], q))

(* A connection that breaks does not hold up a thread that has blocks to    *)
(* write, not even to that connection.                                      *)
WritersReturn == \A w \in Writers : <>(todo[w] = <<>> \/ ~alive)
=============================================================================
