----------------------------- MODULE MC_Casting -----------------------------
(* Instances of Casting for TLC.                                           *)
EXTENDS Casting, FiniteSetsExt

SumOver(F(_), S) == MapThenSumSet(F, S)

\* Bound: a death that leaves points in the stats ends a behaviour: no guard
\* reads them.
NoLeaks == \A p \in Players, n \in StatBuffs : Carried(p, n) = 0

\* Bound: the buffs and DoTs at a time.
Carries(p) == Cardinality(buffs[p]) + Cardinality(dots[p])
FewBuffs == SumOver(Carries, Players) <= 2

=============================================================================
