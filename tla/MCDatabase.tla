------------------------------ MODULE MCDatabase ------------------------------
(***************************************************************************)
(* Three rows of two contents each, two rows to a request: one that is new  *)
(* after one that is new, one that is known, or the same again. Two users,  *)
(* so that a statement can reach the rows of another.                       *)
(***************************************************************************)
EXTENDS Database, TLC

RowSymmetry == Permutations(Keys) \cup Permutations(Vals)
=============================================================================
