--------------------------------- MODULE Lists ---------------------------------
(****************************************************************************)
(* What JavaScript's filter leaves of a list.                               *)
(****************************************************************************)
EXTENDS Integers, SequencesExt

\* The rows at these places, in their order.
RowsAt(rows, places) ==
  FlattenSeq([i \in DOMAIN rows |-> IF i \in places THEN <<rows[i]>> ELSE <<>>])
====
