--------------------------- MODULE InOrderDelivery ---------------------------
(***************************************************************************)
(* What the multiplexing protocol promises its user: "guarantees about the *)
(* order in which blocks were received and sent" (proj3/README:19-21) and  *)
(* "Buffers will only be passed in order" (proj3/multiplex_reader.h:15).   *)
(* The blocks of all buffers are on the wire and arrive in any order; the  *)
(* buffers are passed to the handler one by one, in the order of their     *)
(* tags, each with all its data and only when nothing of it is missing.    *)
(***************************************************************************)
EXTENDS MultiplexStandards, FiniteSets

VARIABLES
  content,    \* content[t]: the data block numbers buffer t consists of
  wire,       \* blocks sent and not yet received
  passed      \* buffers handed to the user, in that order

avars == <<content, wire, passed>>

AInit ==
  /\ content \in [Tags -> SUBSET (0 .. MaxSize - 1)]
  /\ wire \subseteq Blocks
  /\ passed = <<>>

Arrive ==
  /\ \E b \in wire : wire' = wire \ {b}
  /\ UNCHANGED <<content, passed>>

Pass ==
  LET t == Len(passed) IN
  /\ t \in Tags
  /\ \A b \in wire : b.tag # t
  /\ passed' = Append(passed, [tag |-> t, blocks |-> content[t]])
  /\ UNCHANGED <<content, wire>>

ASpec == AInit /\ [][Arrive \/ Pass]_avars
AFairSpec == ASpec /\ WF_avars(Arrive) /\ WF_avars(Pass)
=============================================================================
