------------------------------ MODULE MCField -------------------------------
(* A patroller in a corridor, a Lockster in another, three Locksters out   *)
(* of sight with two spawns close together, spawns in no order on a long   *)
(* way, and a map that is smaller than the view.                           *)
EXTENDS Field

MCKnocks  == {0}
MCStrides == {-2, 0, 2}

Way(right, spawns) == [left |-> 0, right |-> right, spawns |-> spawns,
                       paths |-> <<>>, nests |-> <<>>, tracked |-> {}]
Path == [spawn |-> 8, min |-> 3, max |-> 8]
MCLevels ==
  {[Way(12, <<2>>) EXCEPT !.paths = <<Path>>, !.tracked = {"patroller"}],
   [Way(12, <<2, 9>>) EXCEPT !.nests = <<6>>],
   [Way(7, <<2>>) EXCEPT !.nests = <<19, 20, 23>>],
   [Way(20, <<6, 0, 14, 9>>) EXCEPT !.tracked = {"player"}],
   Way(7, <<3, 5>>)}
=============================================================================
