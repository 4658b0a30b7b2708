---------------------------- MODULE SequenceFilter ----------------------------
(***************************************************************************)
(* Array.filter of JavaScript, with the condition given by the set of the  *)
(* elements that meet it.  It is SelectSeq as a recursive function, which  *)
(* the proofs can unfold.                                                  *)
(***************************************************************************)
EXTENDS Naturals, Sequences

\* What is kept of each beginning of q.
Kept(q, S) ==
  LET kept[i \in 0..Len(q)] ==
        IF i = 0 THEN <<>>
        ELSE IF q[i] \in S THEN Append(kept[i - 1], q[i]) ELSE kept[i - 1]
  IN  kept

Filter(q, S) == Kept(q, S)[Len(q)]
=============================================================================
