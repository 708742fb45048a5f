------------------------------ MODULE Selection ------------------------------
(***************************************************************************)
(* The elements of a queue that are in a set, in the order of the queue.   *)
(* SelectSeq with a set in the place of its test, so that lemmas can be    *)
(* stated about it.                                                        *)
(***************************************************************************)
EXTENDS Integers, Sequences

Selected(X, queue) ==
  LET kept[n \in 0 .. Len(queue)] ==
        IF n = 0 THEN << >>
        ELSE IF queue[n] \in X THEN Append(kept[n - 1], queue[n])
        ELSE kept[n - 1]
  IN kept[Len(queue)]

==============================================================================
