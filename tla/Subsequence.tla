----------------------------- MODULE Subsequence -----------------------------
(***************************************************************************)
(* What is left of a sequence when only some elements are looked at, as    *)
(* the blocks of one writer on a connection.  SelectSeq says the same, but *)
(* only of a sequence of known length; written as a recursive function it  *)
(* can be reasoned about.                                                  *)
(***************************************************************************)
EXTENDS Naturals, Sequences

(* The elements of s that are in S, in their order. *)
Only(s, S) ==
  LET only[i \in 0 .. Len(s)] ==
        IF i = 0 THEN <<>>
        ELSE IF s[i] \in S THEN Append(only[i - 1], s[i]) ELSE only[i - 1]
  IN only[Len(s)]
=============================================================================
