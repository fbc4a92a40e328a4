---------------------------- MODULE MC_Inventory ----------------------------
(* Instances of Inventory for TLC: a pouch, a piece of armour and a snack    *)
(* that stacks, on two base slots, a pouch of one cell and one worn slot.    *)
EXTENDS Inventory

CONSTANTS pouch, helm, snack

MCItems == {pouch, helm, snack}
MCMaxStack == (pouch :> 1) @@ (helm :> 1) @@ (snack :> 2)
MCEquippableIn == (0 :> {helm})
MCMaxOwned == (pouch :> 2) @@ (helm :> 1) @@ (snack :> 3)

=============================================================================
