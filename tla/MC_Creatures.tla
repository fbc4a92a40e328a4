--------------------------- MODULE MC_Creatures ---------------------------
(* Instances of Creatures for TLC.  Ids are interchangeable.               *)
EXTENDS Creatures, TLC

Symmetry == Permutations(Ids)

\* Bound: the living bodies at a time.  The dead come on top of them.
FewAlive == Cardinality(Living) <= 2

=============================================================================
