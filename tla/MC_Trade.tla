------------------------------ MODULE MC_Trade ------------------------------
(* An instance of Trade for TLC: a snack that stacks and a pouch of one cell. *)
EXTENDS Trade

CONSTANTS pouch, snack

PouchAndSnack == (pouch :> 1) @@ (snack :> 2)
NothingWorn == [e \in {} |-> {}]

\* Bound: a world with coin and players who come and go, without the pouch and
\* the second window slot; one with those, where all stay and there is none; and
\* there one with a player who may have no room for the other's pouch.
CoinScene ==
  /\ \E p \in Players : coins[p] > 0
  /\ Owned(pouch) = 0
  /\ \A p \in Players : InSession(p) => SideOf(p).offers[2] = None
AllStay ==
  /\ \A p \in Players : coins[p] = 0 /\ life[p] = "alive"
  /\ near = Players
BagScene == AllStay /\ Owned(snack) <= 1
FullScene ==
  AllStay /\ \E p \in Mortals :
    /\ Total(invs[p], snack) = 2 /\ Total(invs[p], pouch) = 0
    /\ InSession(p) => SideOf(p).offers = [w \in Window |-> None]

Scenes == CoinScene \/ BagScene \/ FullScene

=============================================================================
