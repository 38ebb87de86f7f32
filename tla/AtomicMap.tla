------------------------------ MODULE AtomicMap ------------------------------
(***************************************************************************)
(* What proj3/HashTable.h promises to several threads: a map from keys to  *)
(* values whose operations each take effect in one step between the call   *)
(* and its return, or fail for lack of memory without any effect.          *)
(***************************************************************************)
EXTENDS Integers

CONSTANTS Threads, KeySet, Values, NoValue

VARIABLES
  contents,   \* contents[k]: the value of k, NoValue when absent
  op,         \* op[t]: the operation t is in, "idle" or "return"
  arg,        \* arg[t]: its key and value
  result      \* result[t]: what it returns and the value it hands out

mvars == <<contents, op, arg, result>>

NoArg == [key |-> -1, value |-> NoValue]
NoResult == [ret |-> 0, value |-> NoValue]

MInit ==
  /\ contents = [k \in KeySet |-> NoValue]
  /\ op = [t \in Threads |-> "idle"]
  /\ arg = [t \in Threads |-> NoArg]
  /\ result = [t \in Threads |-> NoResult]

MCall(t) ==
  /\ op[t] = "idle"
  /\ \E o \in {"insert", "lookup", "remove"}, k \in KeySet, v \in Values \cup {NoValue} :
       op' = [op EXCEPT ![t] = o] /\ arg' = [arg EXCEPT ![t] = [key |-> k, value |-> v]]
  /\ UNCHANGED <<contents, result>>

Done(t, ret, value) ==
  /\ result' = [result EXCEPT ![t] = [ret |-> ret, value |-> value]]
  /\ op' = [op EXCEPT ![t] = "return"]
  /\ UNCHANGED arg

MEffect(t) ==
  LET k == arg[t].key
      present == contents[k] # NoValue
  IN
  \/ /\ op[t] = "insert"
     /\ contents' = [contents EXCEPT ![k] = arg[t].value]
     /\ Done(t, IF present THEN 2 ELSE 1, contents[k])
  \/ /\ op[t] = "lookup"
     /\ Done(t, IF present THEN 1 ELSE 0, contents[k])
     /\ UNCHANGED contents
  \/ /\ op[t] = "remove"
     /\ contents' = [contents EXCEPT ![k] = NoValue]
     /\ Done(t, IF present THEN 1 ELSE 0, contents[k])

MFail(t) ==
  /\ \/ op[t] = "insert" /\ Done(t, 0, NoValue)
     \/ op[t] \in {"lookup", "remove"} /\ Done(t, -1, NoValue)
  /\ UNCHANGED contents

MReturn(t) ==
  /\ op[t] = "return"
  /\ op' = [op EXCEPT ![t] = "idle"]
  /\ arg' = [arg EXCEPT ![t] = NoArg]
  /\ result' = [result EXCEPT ![t] = NoResult]
  /\ UNCHANGED contents

MNext == \E t \in Threads : MCall(t) \/ MEffect(t) \/ MFail(t) \/ MReturn(t)

MSpec == MInit /\ [][MNext]_mvars
=============================================================================
