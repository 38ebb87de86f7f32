------------------------------ MODULE FIFOQueue ------------------------------
(***************************************************************************)
(* What proj3/queue.h promises, a thread-safe queue (README:50): every     *)
(* operation of every thread takes effect in one step between its call and *)
(* its return.  enqueue adds a buffer, dequeue takes the oldest one or     *)
(* reports that there is none, is_empty tells whether there is one.        *)
(***************************************************************************)
EXTENDS Sequences, FiniteSets

CONSTANTS Threads, Bufs, NoBuf

VARIABLES
  contents,   \* the buffers in the queue, the oldest first
  op,         \* op[t]: the operation t is in, "idle" between calls
  arg,        \* arg[t]: what t is enqueueing
  result      \* result[t]: what t's dequeue or is_empty has found

qvars == <<contents, op, arg, result>>

QInit ==
  /\ contents = <<>>
  /\ op = [t \in Threads |-> "idle"]
  /\ arg = [t \in Threads |-> NoBuf]
  /\ result = [t \in Threads |-> NoBuf]

QCall(t) ==
  /\ op[t] = "idle"
  /\ \/ \E b \in Bufs : arg' = [arg EXCEPT ![t] = b] /\ op' = [op EXCEPT ![t] = "enqueue"]
     \/ \E o \in {"dequeue", "is_empty"} : op' = [op EXCEPT ![t] = o] /\ UNCHANGED arg
  /\ UNCHANGED <<contents, result>>

QEffect(t) ==
  /\ op[t] \in {"enqueue", "dequeue", "is_empty"}
  /\ contents' = CASE op[t] = "enqueue"                      -> Append(contents, arg[t])
                   [] op[t] = "dequeue" /\ contents # <<>>   -> Tail(contents)
                   [] OTHER                                  -> contents
  /\ result' = CASE op[t] = "dequeue" /\ contents # <<>> -> [result EXCEPT ![t] = Head(contents)]
                 [] op[t] = "dequeue" /\ contents = <<>> -> [result EXCEPT ![t] = NoBuf]
                 [] op[t] = "is_empty" -> [result EXCEPT ![t] = IF contents = <<>> THEN "yes" ELSE "no"]
                 [] OTHER              -> result
  /\ op' = [op EXCEPT ![t] = "return"]
  /\ UNCHANGED arg

QReturn(t) ==
  /\ op[t] = "return"
  /\ op' = [op EXCEPT ![t] = "idle"]
  /\ arg' = [arg EXCEPT ![t] = NoBuf]
  /\ result' = [result EXCEPT ![t] = NoBuf]
  /\ UNCHANGED contents

QNext == \E t \in Threads : QCall(t) \/ QEffect(t) \/ QReturn(t)

QSpec == QInit /\ [][QNext]_qvars
=============================================================================
