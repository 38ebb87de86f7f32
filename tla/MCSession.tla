------------------------------ MODULE MCSession ------------------------------
(* Small instances of Session with two clients, "a" and "b". *)
EXTENDS Session

Setup(a, b, blocks, stride, mostFaults) ==
  [conns |-> [c \in Clients |-> IF c = "a" THEN a ELSE b],
   blocks |-> blocks, stride |-> stride, faults |-> mostFaults]

(* two clients side by side *)
Pair == Setup(1, 1, 2, 0, 0)

(* one client, with faults, its data all on the first of three connections; *)
(* and one with its data spread, next to one that asks for too many         *)
MCSetups == {Pair, Setup(3, 0, 3, 0, 1), Setup(2, 4, 2, 1, 1)}

PairSetups == {Pair}
=============================================================================
