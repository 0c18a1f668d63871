----------------------------- MODULE Subsequences -----------------------------
(***************************************************************************)
(* Array.prototype.filter, as the lists of src/core/claims.ts and          *)
(* src/core/history.ts use it: the caller says which indices stay.         *)
(***************************************************************************)
EXTENDS Naturals, FiniteSets

\* The elements of q at the indices I, in order.
At(q, I) == [n \in 1..Cardinality(I) |->
                q[CHOOSE i \in I : Cardinality({j \in I : j <= i}) = n]]
=============================================================================
