------------------------------- MODULE Lists -------------------------------
(***************************************************************************)
(* What the Java code does with a java.util.List besides adding at its     *)
(* end: a loop over it that keeps some of its elements.                    *)
(***************************************************************************)
EXTENDS Integers, SequencesExt

\* The elements of list at the positions k with kept[k], in their order.  (A
\* function, where SelectSeq has an operator: proofs cannot speak of those.)
Select(list, kept) ==
    LET upto[k \in 0 .. Len(list)] ==
            IF k = 0 THEN <<>>
            ELSE IF kept[k] THEN Append(upto[k - 1], list[k])
            ELSE upto[k - 1]
    IN upto[Len(list)]
=============================================================================
