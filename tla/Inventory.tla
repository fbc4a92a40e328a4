------------------------------ MODULE Inventory ------------------------------
(***************************************************************************)
(* One character's holdings and every server operation on them: the intent *)
(* handlers of world/tick/inventory_ops.rs and banking.rs, the pickup and  *)
(* corpse loot of looting.rs, the strip of death_sweep.rs, the parking of  *)
(* trading.rs and the load at login (session.rs).  A refused operation     *)
(* changes nothing and is not a step.                                      *)
(*                                                                         *)
(* Where an operation puts an item row on the ledger, its delta is added   *)
(* to ledger.  When these rows reach the database is the subject of        *)
(* Durability; trade locks are the subject of Trade.                       *)
(***************************************************************************)
EXTENDS InventoryOps

CONSTANTS
  VaultSlots,      \* 0 .. BANK_VAULT_SLOTS - 1; both vaults have these
  Consumables,     \* items that are food, drink or a potion
  MaxOwned,        \* bound: how many of an item are granted in all
  SplitsFullBags   \* whether clients ask to split a bag that holds something

ASSUME MaxOwnedNat == MaxOwned \in [Items -> Nat]
ASSUME VaultSlotsNat == VaultSlots \subseteq Nat /\ IsFiniteSet(VaultSlots)

\* What does not outlive a logout, and what is eaten, drunk or quaffed, is no bag
\* (data/items.toml): what is in a bag would go with it, unrecorded.
ASSUME GoneAreNoBags == (NoRent \cup Consumables) \cap BagItems = {}

VARIABLES
  inv,      \* PerConnection::inventory
  vaults,   \* PerConnection::bank_items and account_bank_items
  ledger,   \* sum of the deltas of the character's rows, by item
  corpse    \* stacks on the character's corpse (one at a time)

vars == <<inv, vaults, ledger, corpse>>

VaultNames == {"own", "shared"}

Holdings(item) ==
  Total(inv, item) + CountIn(vaults["own"], item) + CountIn(vaults["shared"], item)

OnCorpse(item) ==
  FoldSet(LAMBDA r, sum : sum + r.stack.count, 0, {r \in corpse : r.stack.item = item})

TypeOK ==
  /\ inv \in [cells : [Slots -> Stacks], bags : SUBSET Keys]
  /\ vaults \in [VaultNames -> [VaultSlots -> Stacks]]
  /\ ledger \in [Items -> Int]
  /\ \A r \in corpse : r.stack \in Stacks \ {Empty} /\ r.worn \in BOOLEAN

Init ==
  /\ inv = NoInventory
  /\ vaults = [v \in VaultNames |-> NoVault(VaultSlots)]
  /\ ledger = [item \in Items |-> 0]
  /\ corpse = {}

Record(item, delta) == ledger' = [ledger EXCEPT ![item] = @ + delta]

-----------------------------------------------------------------------------
(* Rearrangements: no row *)

MoveItem(src, dst) ==
  /\ CanMove(inv, src, dst)
  /\ inv' = Move(inv, src, dst)
  /\ UNCHANGED <<vaults, ledger, corpse>>

SplitStack(src, dst, n) ==
  /\ CanSplit(inv, src, dst, n)
  /\ BagNonempty(inv, KeyOf(src)) => SplitsFullBags
  /\ inv' = Split(inv, src, dst, n)
  /\ UNCHANGED <<vaults, ledger, corpse>>

EquipItem(src, e) ==
  /\ CanEquip(inv, src, e)
  /\ inv' = EquipFrom(inv, src, e)
  /\ UNCHANGED <<vaults, ledger, corpse>>

UnequipItem(e, dst) ==
  /\ CanUnequip(inv, e, dst)
  /\ inv' = Unequip(inv, e, dst)
  /\ UNCHANGED <<vaults, ledger, corpse>>

\* Offering the held stack in a trade parks it first.
ParkHeld ==
  /\ CanPark(inv)
  /\ inv' = Park(inv)
  /\ UNCHANGED <<vaults, ledger, corpse>>

-----------------------------------------------------------------------------
(* Out of the holdings, and into them *)

\* destroy_at under apply_destroys; under apply_drops not for NO DROP items.
DestroyItem(slot, n) ==
  /\ CanDestroy(inv, slot)
  /\ inv' = DestroyAt(inv, slot, n)
  /\ Record(Peek(inv, slot).item, - Taken(Peek(inv, slot), n))
  /\ UNCHANGED <<vaults, corpse>>

UseConsumable(slot) ==
  /\ CanDecrement(inv, slot) /\ Peek(inv, slot).item \in Consumables
  /\ inv' = DecrementAt(inv, slot)
  /\ Record(Peek(inv, slot).item, -1)
  /\ UNCHANGED <<vaults, corpse>>

\* What fits of n of an item; the rest is not given.
GmGive(item, n) ==
  LET r == AddItem(inv, item, n)
  IN  /\ Holdings(item) + OnCorpse(item) + n <= MaxOwned[item]
      /\ r.left < n
      /\ inv' = r.inv
      /\ Record(item, n - r.left)
      /\ UNCHANGED <<vaults, corpse>>

\* The one stack of a ground bag, into an empty hand.
PickUp(item, n) ==
  /\ Holdings(item) + OnCorpse(item) + n <= MaxOwned[item]
  /\ n <= MaxStack[item]
  /\ Peek(inv, Cursor) = Empty
  /\ inv' = Set(inv, Cursor, Stack(item, n))
  /\ Record(item, n)
  /\ UNCHANGED <<vaults, corpse>>

-----------------------------------------------------------------------------
(* The vaults: rows of delta 0 *)

BankStore(v, slot) ==
  LET a == Peek(inv, slot)
      n == Least(a.count, CapacityFor(vaults[v], a.item))
  IN  /\ CanDestroy(inv, slot) /\ ~ IsBag(a)
      /\ v = "shared" => a.item \notin NoDrop
      /\ n > 0
      /\ inv' = DestroyAt(inv, slot, n)
      /\ vaults' = [vaults EXCEPT ![v] = Deposit(@, a.item, n).vault]
      /\ UNCHANGED <<ledger, corpse>>

BankWithdraw(v, s) ==
  LET a == vaults[v][s]
      r == AddItem(inv, a.item, a.count)
  IN  /\ a # Empty
      /\ inv' = r.inv
      /\ vaults' = [vaults EXCEPT ![v] = Restore(TakeAll(@, s), s, a.item, r.left)]
      /\ UNCHANGED <<ledger, corpse>>

-----------------------------------------------------------------------------
(* Death, the corpse, login *)

RecordAll(deltas) == ledger' = [item \in Items |-> ledger[item] + deltas[item]]

Die ==
  /\ corpse = {}
  /\ corpse' = CorpseStacks(inv)
  /\ RecordAll([item \in Items |-> - Total(inv, item)])
  /\ inv' = ClearAll
  /\ UNCHANGED vaults

\* One stack taken back: onto the paperdoll if it was worn and can be worn
\* again, else through the placer; what does not fit is left.
TakeBack(acc, r) ==
  LET worn == r.worn /\ CanRestoreWorn(acc.inv, r.stack.item, r.slot[2])
      a == IF worn THEN [inv |-> Set(acc.inv, r.slot, r.stack), left |-> 0]
           ELSE AddItem(acc.inv, r.stack.item, r.stack.count)
  IN  [inv |-> a.inv,
       got |-> [acc.got EXCEPT ![r.stack.item] = @ + r.stack.count - a.left],
       rest |-> acc.rest \cup
         (IF a.left = 0 THEN {} ELSE {[r EXCEPT !.stack.count = a.left]})]

TakeBackAll(acc, order) == FoldLeft(TakeBack, acc, order)

\* The stacks granted in one loot, worn gear first; the rest in any order.
LootOrders(stacks) ==
  {worn \o carried : worn \in SetToSeqs({r \in stacks : r.worn}),
                     carried \in SetToSeqs({r \in stacks : ~ r.worn})}

\* apply_corpse_loot: all of it, or one stack.
LootCorpse(stacks) ==
  /\ stacks # {}
  /\ \E order \in LootOrders(stacks) :
       LET r == TakeBackAll([inv |-> inv, got |-> [item \in Items |-> 0], rest |-> {}],
                            order)
       IN  /\ inv' = r.inv
           /\ corpse' = (corpse \ stacks) \cup r.rest
           /\ RecordAll(r.got)
  /\ UNCHANGED vaults

\* A logout that saves, and the next login: after thirty minutes away the
\* NO RENT items are gone from the inventory and both vaults.
Relogin(away) ==
  LET loaded == FromRows(ToRows(inv))
      kept == IF away THEN PurgeNoRent(loaded) ELSE loaded
      keptVaults == IF away
        THEN [v \in VaultNames |-> [s \in VaultSlots |->
               IF vaults[v][s].item \in NoRent THEN Empty ELSE vaults[v][s]]]
        ELSE vaults
      gone(item) == Total(loaded, item) - Total(kept, item)
        + CountIn(vaults["own"], item) - CountIn(keptVaults["own"], item)
        + CountIn(vaults["shared"], item) - CountIn(keptVaults["shared"], item)
  IN  /\ inv' = kept
      /\ vaults' = keptVaults
      /\ RecordAll([item \in Items |-> - gone(item)])
      /\ UNCHANGED corpse

-----------------------------------------------------------------------------
Counts(item) == 1 .. MaxOwned[item]

Next ==
  \/ \E src, dst \in Slots : MoveItem(src, dst)
  \/ \E src, dst \in BaseRefs : \E n \in 1 .. Peek(inv, src).count :
       SplitStack(src, dst, n)
  \/ \E src \in Slots, e \in EquipSlots : EquipItem(src, e)
  \/ \E e \in EquipSlots, dst \in Slots : UnequipItem(e, dst)
  \/ ParkHeld
  \/ \E slot \in Slots : \E n \in 0 .. Peek(inv, slot).count : DestroyItem(slot, n)
  \/ \E slot \in Slots : UseConsumable(slot)
  \/ \E item \in Items : \E n \in Counts(item) : GmGive(item, n) \/ PickUp(item, n)
  \/ \E v \in VaultNames, slot \in Slots : BankStore(v, slot)
  \/ \E v \in VaultNames, s \in VaultSlots : BankWithdraw(v, s)
  \/ Die
  \/ LootCorpse(corpse)
  \/ \E r \in corpse : LootCorpse({r})
  \/ \E away \in BOOLEAN : Relogin(away)

Spec == Init /\ [][Next]_vars

-----------------------------------------------------------------------------
(* Safety *)

\* The books balance (ledger.rs): the sum of an item's rows is its count in
\* the inventory and both vaults, whatever was moved, merged, swapped, split,
\* worn, parked, stored, stripped at death or looted back.
BooksBalance == \A item \in Items : ledger[item] = Holdings(item)

\* The stores keep their shape on every path through the hand, a swap, a merge
\* or a displaced stack: no bag is inside a bag; every bag on a base slot has
\* its contents Vec and nothing else has one, and what is in a bag in the hand
\* is in a bag, so contents never outlive their bag; only equippable pieces are
\* worn, each where it fits; and no stack that is carried, banked or on a corpse
\* is over its cap, whatever was merged into it.
WithinCap(stack) == stack # Empty => stack.count <= MaxStack[stack.item]

StoresSound ==
  /\ \A s \in BagRefs : ~ IsBag(inv.cells[s])
  /\ inv.bags \cap BaseSlots = {i \in BaseSlots : IsBag(inv.cells[Base(i)])}
  /\ BagNonempty(inv, Held) => IsBag(inv.cells[Cursor])
  /\ \A k \in Keys : BagNonempty(inv, k) => k \in inv.bags
  /\ \A e \in EquipSlots : inv.cells[Equip(e)] # Empty =>
       inv.cells[Equip(e)].item \in EquippableIn[e]
  /\ \A s \in Slots : WithinCap(inv.cells[s])
  /\ \A v \in VaultNames, s \in VaultSlots : WithinCap(vaults[v][s])
  /\ \A r \in corpse : WithinCap(r.stack)

\* A save and a load give back every stack in its slot: from_rows drops no row
\* that to_rows writes, a full bag in the hand included.
SavedWhole == FromRows(ToRows(inv)).cells = inv.cells

\* The placer uses all the room there is: what does not fit is exactly what
\* exceeds the free stack space of the slots it may use, so a grant is
\* refused or cut only when the bags are really full.
RoomAt(stack, s, item) ==
  IF stack = Empty /\ Kind(s) = "bag" /\ item \in BagItems THEN 0 ELSE RoomIn(stack, item)

Room(item) ==
  SumFunctionOnSet([s \in Slots |-> RoomAt(inv.cells[s], s, item)], Usable(inv))

PlacerFillsRoom ==
  \A item \in Items : \A n \in Counts(item) :
    AddItem(inv, item, n).left = n - Least(n, Room(item))

=============================================================================
