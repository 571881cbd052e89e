--------------------------- MODULE MCGuestAllowance ---------------------------
(* GuestAllowance on small instances. *)
EXTENDS GuestAllowance, TLC

Symmetry == Permutations(Tasks) \cup Permutations(Uses)

\* Bound: calls break off for at most two uses, of one day or of two.
FewBreaks == Cardinality({<<d, u>> \in Days \X Uses : u \in broken[d]}) <= 2
=============================================================================
