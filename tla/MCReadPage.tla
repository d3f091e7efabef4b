----------------------------- MODULE MCReadPage -----------------------------
(***************************************************************************)
(* Instances of ReadPage for TLC: five rows, two of them hidden, batches   *)
(* of two and a window of four, so that a read takes up to two batches,    *)
(* the last one short, and a full table has a row out of reach.            *)
(***************************************************************************)
EXTENDS ReadPage

MCRow == 1..5
MCVisible == {1, 3, 5}
MCSize == [x \in MCRow |-> IF x = 3 THEN 2 ELSE 1]
MCBodySize == [x \in MCRow |-> 2]
=============================================================================
