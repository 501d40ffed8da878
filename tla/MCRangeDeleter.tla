--------------------------- MODULE MCRangeDeleter ---------------------------
(***************************************************************************)
(* RangeDeleter for TLC: three callers and two ranges that overlap.        *)
(***************************************************************************)
EXTENDS RangeDeleter

CONSTANTS c1, c2, c3, k1

Callers == {c1, c2, c3}
Cursors == {k1}
Ranges == {<<0, 2>>, <<1, 3>>}
=============================================================================
