-------------------------------- MODULE Lists --------------------------------
(***************************************************************************)
(* A list without the elements that are not wanted: Array.prototype.filter, *)
(* which the tab's stores and pages cut their lists with.                  *)
(***************************************************************************)
EXTENDS Naturals, Sequences, SequencesExt

\* The elements of s at the places in keep, in their order.
Keep(s, keep) ==
    LET from[i \in 1..(Len(s) + 1)] ==
          IF i > Len(s) THEN <<>>
          ELSE IF i \in keep THEN Cons(s[i], from[i + 1])
          ELSE from[i + 1]
    IN from[1]
=============================================================================
