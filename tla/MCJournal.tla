----------------------------- MODULE MCJournal -----------------------------
(***************************************************************************)
(* Journal for TLC: one operation changes a place, the other changes the   *)
(* same place and another one.                                             *)
(***************************************************************************)
EXTENDS Journal

CONSTANTS o1, o2, w1, w2, w3, a, b

MCOp == [w \in Write |-> IF w = w1 THEN o1 ELSE o2]
MCPlace == [w \in Write |-> IF w = w3 THEN b ELSE a]
=============================================================================
