------------------------------ MODULE HpQueues ------------------------------
(* The loops that erase elements of a vector while they go through it.     *)
EXTENDS Integers, Sequences

(* What is left of s when the members of T are erased, in the old order.   *)
Without(s, T) ==
  LET left[i \in 0..Len(s)] ==
        IF i = 0 THEN <<>>
        ELSE IF s[i] \in T THEN left[i - 1] ELSE Append(left[i - 1], s[i])
  IN left[Len(s)]
=============================================================================
