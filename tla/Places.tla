------------------------------- MODULE Places -------------------------------
(***************************************************************************)
(* The elements of a sequence at some of its places, in order: SelectSeq,  *)
(* as a function that a proof can follow from place to place.              *)
(***************************************************************************)
EXTENDS Naturals, Sequences

ElementsAt(s, places) ==
    LET upTo[n \in 0..Len(s)] ==
            IF n = 0 THEN <<>>
            ELSE IF n \in places THEN Append(upTo[n - 1], s[n]) ELSE upTo[n - 1]
    IN  upTo[Len(s)]
=============================================================================
