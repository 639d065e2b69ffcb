------------------------------- MODULE MCSession ------------------------------
(***************************************************************************)
(* Filters and threads of one device; which is which makes no difference.  *)
(***************************************************************************)
EXTENDS Session, TLC

CONSTANTS f1, f2, f3, a1, a2, w1, w2

Symmetry == Permutations(Filters) \cup Permutations(Apps) \cup Permutations(Workers)
===============================================================================
