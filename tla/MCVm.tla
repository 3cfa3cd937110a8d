-------------------------------- MODULE MCVm --------------------------------
(***************************************************************************)
(* Vm with tables of four entries: a directory has 16 pages, a table four. *)
(***************************************************************************)
EXTENDS Vm

Seg(a, b, w) == [start |-> a, end |-> b, write |-> w]

(* Text and data in one table; in two tables of one directory; and         *)
(* segments that share a page, which mm_map refuses.                       *)
MCPrograms ==
  {[data |-> "a", segs |-> <<Seg(0, 1, FALSE), Seg(1, 2, TRUE)>>],
   [data |-> "b", segs |-> <<Seg(3, 4, FALSE), Seg(4, 5, TRUE)>>],
   [data |-> "b", segs |-> <<Seg(0, 2, TRUE), Seg(1, 2, TRUE)>>]}

MCStack == Seg(30, 32, TRUE)
MCStackPages == {31}
MCCheckPages == 1..3
=============================================================================
