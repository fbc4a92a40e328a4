---------------------------- MODULE InventoryOps ----------------------------
(***************************************************************************)
(* What a character carries, and the operations on it: PlayerInventory and *)
(* ItemVault of world/inventory.rs, as pure operators.  For an operation   *)
(* the code may refuse there are two: a guard (CanMove) that says when it  *)
(* is not refused, and the result (Move).                                  *)
(*                                                                         *)
(* An inventory is a record.  cells maps every slot to the stack in it.    *)
(* bags is the set of keys of the code's bags map, the hosts that have a   *)
(* contents Vec; the cells of a key that is not in bags do not exist in    *)
(* the code and are empty here.                                            *)
(***************************************************************************)
EXTENDS Integers, FiniteSets, SequencesExt

CONSTANTS
  BaseSlots,     \* 0 .. BASE_SLOT_COUNT - 1
  BagCells,      \* the inner slots of a bag
  EquipSlots,    \* 0 .. EQUIP_SLOT_COUNT - 1
  Items,         \* item paths
  NoItem,        \* the item of an empty slot
  BagItems,      \* items with bag_num_slots
  MaxStack,      \* items::max_stack
  EquippableIn,  \* items::is_equippable_in_slot: equip slot -> items
  NoDrop,        \* items::is_no_drop
  NoRent         \* items::is_no_rent

ASSUME SlotsAreNaturals ==
  BaseSlots \subseteq 0 .. 254 /\ BagCells \subseteq Nat /\ EquipSlots \subseteq Nat
ASSUME SlotsAreFinite == IsFiniteSet(BagCells) /\ IsFiniteSet(EquipSlots)
ASSUME NoItemIsNone == NoItem \notin Items
ASSUME ItemKinds ==
  /\ BagItems \subseteq Items /\ NoDrop \subseteq Items /\ NoRent \subseteq Items
  /\ MaxStack \in [Items -> Nat \ {0}]
  /\ EquippableIn \in [EquipSlots -> SUBSET (Items \ BagItems)]

-----------------------------------------------------------------------------
(* Slots and stacks *)

Held == 255                        \* CURSOR_BAG_KEY: the bag in the hand
Keys == BaseSlots \cup {Held}

Base(i)   == <<"base", i, 0>>
Bag(k, s) == <<"bag", k, s>>
Cursor    == <<"cursor", 0, 0>>
Equip(e)  == <<"equip", e, 0>>

BaseRefs   == {Base(i) : i \in BaseSlots}
BagRefs    == {Bag(k, s) : k \in Keys, s \in BagCells}
EquipRefs  == {Equip(e) : e \in EquipSlots}
Slots      == BaseRefs \cup BagRefs \cup EquipRefs \cup {Cursor}

Kind(slot) == slot[1]
KeyOf(slot) == IF slot = Cursor THEN Held ELSE slot[2]
IsHost(slot) == Kind(slot) \in {"base", "cursor"}
HostOf(k) == IF k = Held THEN Cursor ELSE Base(k)

\* The slots a client may name in a move, a drop, a sale: everything but the
\* paperdoll and the inside of a bag in the hand (parse_slot_ref,
\* reject_held_bag_slot).
Reachable == Slots \ (EquipRefs \cup {Bag(Held, s) : s \in BagCells})

Empty == [item |-> NoItem, count |-> 0]
Stack(item, n) == IF n = 0 THEN Empty ELSE [item |-> item, count |-> n]
Stacks == [item : Items, count : Nat \ {0}] \cup {Empty}

NoInventory == [cells |-> [s \in Slots |-> Empty], bags |-> {}]

Peek(inv, slot) == inv.cells[slot]
IsBag(stack) == stack.item \in BagItems
Exists(inv, slot) == Kind(slot) = "bag" => slot[2] \in inv.bags
BagNonempty(inv, k) == \E s \in BagCells : inv.cells[Bag(k, s)] # Empty
Set(inv, slot, stack) == [inv EXCEPT !.cells[slot] = stack]

Least(a, b) == IF a <= b THEN a ELSE b

\* How much of an item there is in cells.
CountIn(cells, item) ==
  SumFunctionOnSet([s \in DOMAIN cells |-> cells[s].count],
                   {s \in DOMAIN cells : cells[s].item = item})

Total(inv, item) == CountIn(inv.cells, item)

\* The free space of a slot for an item.
RoomIn(stack, item) ==
  CASE stack = Empty -> MaxStack[item]
    [] stack.item = item -> MaxStack[item] - stack.count
    [] OTHER -> 0

\* The elements of S in the order before gives them.
InOrder(S, before(_, _)) ==
  [i \in 1 .. Cardinality(S) |->
     CHOOSE x \in S : Cardinality({y \in S : before(y, x)}) = i - 1]

Touched(slots) == {s[2] : s \in slots \cap BaseRefs}
Holding(inv, touched) == {i \in touched : IsBag(inv.cells[Base(i)])}

\* Fault: the Vec of a bag that is gone stays.
EnsureBagsInitAdds(inv, slots) ==
  [inv EXCEPT !.bags = @ \cup Holding(inv, Touched(slots))]

\* ensure_bag_init, for the base slots among slots: a base slot that holds a
\* bag has a Vec, and one that does not has none; a Vec that is removed takes
\* its contents along.
EnsureBagsInit(inv, slots) ==
  LET holding == Holding(inv, Touched(slots))
      dropped == Touched(slots) \ holding
  IN  [cells |-> [s \in Slots |->
         IF Kind(s) = "bag" /\ s[2] \in dropped THEN Empty ELSE inv.cells[s]],
       bags |-> (inv.bags \ dropped) \cup holding]

-----------------------------------------------------------------------------
(* move_across and the nine moves it sends a pair of slots to *)

\* Moves between hosts exchange two bags, contents and all; elsewhere a bag
\* is kept out of a bag: moved there, or swapped there.
CanMove(inv, src, dst) ==
  /\ {src, dst} \subseteq Reachable /\ src # dst
  /\ Exists(inv, src) /\ Exists(inv, dst)
  /\ Peek(inv, src) # Empty
  /\ Kind(dst) = "bag" /\ Kind(src) # "bag" => ~ IsBag(Peek(inv, src))
  /\ Kind(src) = "bag" /\ Kind(dst) # "bag" => ~ IsBag(Peek(inv, dst))

\* The cells and the Vecs of two hosts' bags change places.
OtherHost(k, k1, k2) == IF k = k1 THEN k2 ELSE IF k = k2 THEN k1 ELSE k

ExchangeContents(inv, k1, k2) ==
  [cells |-> [s \in Slots |->
     IF Kind(s) = "bag" THEN inv.cells[Bag(OtherHost(s[2], k1, k2), s[3])] ELSE inv.cells[s]],
   bags |-> {OtherHost(k, k1, k2) : k \in inv.bags}]

\* merge_capped: what an incoming count leaves behind at a stack of its item.
Leftover(stack, n) == n - Least(n, MaxStack[stack.item] - Least(stack.count, MaxStack[stack.item]))

Merges(a, b) == a.item = b.item /\ ~ IsBag(a)

Move(inv, src, dst) ==
  LET a == Peek(inv, src)
      b == Peek(inv, dst)
      left == Leftover(b, a.count)
      merged == [inv EXCEPT !.cells[src] = Stack(a.item, left),
                            !.cells[dst].count = @ + a.count - left]
      swapped == [inv EXCEPT !.cells[src] = b, !.cells[dst] = a]
      placed == IF IsHost(src) /\ IsHost(dst)
                THEN ExchangeContents(swapped, KeyOf(src), KeyOf(dst))
                ELSE swapped
  IN  EnsureBagsInit(IF Merges(a, b) THEN merged ELSE placed, {src, dst})

-----------------------------------------------------------------------------
(* split_base *)

CanSplit(inv, src, dst, n) ==
  /\ {src, dst} \subseteq BaseRefs /\ src # dst
  /\ n > 0 /\ Peek(inv, src).count >= n
  /\ \/ Peek(inv, dst) = Empty
     \/ /\ Peek(inv, dst).item = Peek(inv, src).item
        /\ Peek(inv, dst).count + n <= MaxStack[Peek(inv, src).item]

Split(inv, src, dst, n) ==
  LET a == Peek(inv, src)
      parted == [inv EXCEPT !.cells[src] = Stack(a.item, a.count - n),
                            !.cells[dst] = Stack(a.item, Peek(inv, dst).count + n)]
  IN  EnsureBagsInit(parted, {src, dst})

-----------------------------------------------------------------------------
(* Taking out: destroy_at (drop, destroy, sell, deposit), decrement_at *)

\* How many destroy_at takes of a stack when asked for n (0 means all).
Taken(stack, n) == IF n = 0 \/ n >= stack.count THEN stack.count ELSE n

CanDestroy(inv, slot) ==
  /\ slot \in Reachable /\ Exists(inv, slot) /\ Peek(inv, slot) # Empty
  /\ IsHost(slot) => ~ BagNonempty(inv, KeyOf(slot))

\* Fault: an emptied slot keeps a stack of none.
Remove1Keeps(inv, slot, n) ==
  Set(inv, slot, [Peek(inv, slot) EXCEPT !.count = @ - n])

Remove1(inv, slot, n) ==
  LET a == Peek(inv, slot) IN Set(inv, slot, Stack(a.item, a.count - n))

DestroyAt(inv, slot, n) ==
  EnsureBagsInit(Remove1(inv, slot, Taken(Peek(inv, slot), n)), {slot})

CanDecrement(inv, slot) ==
  slot \in Reachable /\ Exists(inv, slot) /\ Peek(inv, slot) # Empty

DecrementAt(inv, slot) == EnsureBagsInit(Remove1(inv, slot, 1), {slot})

-----------------------------------------------------------------------------
(* Putting in: add_item_locating, can_accept, park_cursor_stack *)

\* The slots the placer may use: base slots, and the bags on them.
Usable(inv) == BaseRefs \cup {r \in BagRefs : r[2] \in inv.bags \ {Held}}

\* Base slots come first, then the bags by base slot.
Scanned(x, y) ==
  \/ x[1] # y[1] /\ x[1] = "base"
  \/ x[1] = y[1] /\ x[2] < y[2]
  \/ x[1] = y[1] /\ x[2] = y[2] /\ x[3] < y[3]

\* Fault: the placer looks at the base slots only.
ScanOrderBase(inv) == InOrder(BaseRefs, Scanned)

ScanOrder(inv) == InOrder(Usable(inv), Scanned)

\* One slot of a pass: take as much of what is left as fits under the cap.
PutInto(acc, slot, item) ==
  LET has == Peek(acc.inv, slot).count
      n == Least(acc.left, MaxStack[item] - Least(has, MaxStack[item]))
      put == Set(acc.inv, slot, [item |-> item, count |-> has + n])
  IN  IF n = 0 THEN acc
      ELSE [inv |-> EnsureBagsInit(put, {slot}), left |-> acc.left - n]

TopUp(acc, slot, item) ==
  IF Peek(acc.inv, slot).item = item THEN PutInto(acc, slot, item) ELSE acc

ClaimEmpty(acc, slot, item) ==
  IF Peek(acc.inv, slot) = Empty /\ ~ (Kind(slot) = "bag" /\ item \in BagItems)
  THEN PutInto(acc, slot, item)
  ELSE acc

TopUpAll(acc, order, item) == FoldLeft(LAMBDA a, slot : TopUp(a, slot, item), acc, order)
ClaimAll(acc, order, item) == FoldLeft(LAMBDA a, slot : ClaimEmpty(a, slot, item), acc, order)

\* The inventory after n of an item were added, and how many did not fit.
AddItem(inv, item, n) ==
  LET order == ScanOrder(inv)
  IN  ClaimAll(TopUpAll([inv |-> inv, left |-> n], order, item), order, item)

\* can_accept: a sequence of grants fits whole, placed one after another.
AddAll(inv, grants) ==
  FoldLeft(LAMBDA acc, g :
             LET r == AddItem(acc.inv, g.item, g.count)
             IN  [inv |-> r.inv, left |-> acc.left + r.left],
           [inv |-> inv, left |-> 0], grants)

CanAccept(inv, grants) == AddAll(inv, grants).left = 0

\* park_cursor_stack: the first empty base slot, else (for no bag) the first
\* empty cell of a bag that is not in the hand.
ParkSlots(inv) ==
  {s \in Usable(inv) :
     Peek(inv, s) = Empty /\ (Kind(s) = "bag" => ~ IsBag(Peek(inv, Cursor)))}

CanPark(inv) == Peek(inv, Cursor) # Empty /\ ParkSlots(inv) # {}
ParkSlot(inv) == CHOOSE s \in ParkSlots(inv) : \A t \in ParkSlots(inv) \ {s} : Scanned(s, t)
Park(inv) == Move(inv, Cursor, ParkSlot(inv))

-----------------------------------------------------------------------------
(* The paperdoll *)

\* equip_from_location: what was worn goes where the new piece came from.
CanEquip(inv, src, e) ==
  /\ src \in Reachable /\ Exists(inv, src)
  /\ Peek(inv, src).item \in EquippableIn[e]

EquipFrom(inv, src, e) ==
  EnsureBagsInit([inv EXCEPT !.cells[src] = Peek(inv, Equip(e)),
                             !.cells[Equip(e)] = Peek(inv, src)], {src})

\* unequip_to_base swaps with a base item that can be worn there;
\* unequip_to_cursor needs an empty hand.
CanUnequip(inv, e, dst) ==
  /\ dst \in BaseRefs \cup {Cursor}
  /\ Peek(inv, Equip(e)) # Empty
  /\ \/ Peek(inv, dst) = Empty
     \/ dst # Cursor /\ Peek(inv, dst).item \in EquippableIn[e]

Unequip(inv, e, dst) ==
  EnsureBagsInit([inv EXCEPT !.cells[dst] = Peek(inv, Equip(e)),
                             !.cells[Equip(e)] = Peek(inv, dst)], {dst})

\* restore_worn: back on, if the slot is free and the piece fits there.
CanRestoreWorn(inv, item, e) ==
  Peek(inv, Equip(e)) = Empty /\ item \in EquippableIn[e]

-----------------------------------------------------------------------------
(* Saving and loading, death *)

\* to_rows: one row per stack.
ToRows(inv) ==
  {[slot |-> s, stack |-> inv.cells[s]] : s \in {t \in Slots : inv.cells[t] # Empty}}

RowAt(rows, s) ==
  IF \E r \in rows : r.slot = s THEN (CHOOSE r \in rows : r.slot = s).stack ELSE Empty

Loaded(rows, hosts) ==
  [cells |-> [s \in Slots |->
     IF Kind(s) = "bag" /\ s[2] \notin hosts THEN Empty ELSE RowAt(rows, s)],
   bags |-> hosts]

\* Fault: the bag in the hand gets no Vec, its rows are dropped.
FromRowsNoHeld(rows) == Loaded(rows, {i \in BaseSlots : IsBag(RowAt(rows, Base(i)))})

\* from_rows, first pass: base, worn and held stacks, and a Vec for each bag
\* among them; second pass: the rows of those Vecs.  The other rows are lost.
FromRows(rows) == Loaded(rows, {k \in Keys : IsBag(RowAt(rows, HostOf(k)))})

\* corpse_stacks: every stack, with the slot it was worn in.
CorpseStacks(inv) ==
  {[stack |-> inv.cells[s], worn |-> s[1] = "equip", slot |-> s] :
     s \in {t \in Slots : inv.cells[t] # Empty}}

\* clear_all
ClearAll == NoInventory

\* purge_no_rent
PurgeNoRent(inv) ==
  [inv EXCEPT !.cells = [s \in Slots |->
     IF inv.cells[s].item \in NoRent THEN Empty ELSE inv.cells[s]]]

-----------------------------------------------------------------------------
(* ItemVault: a vault maps its slots to stacks *)

NoVault(slots) == [s \in slots |-> Empty]

\* capacity_for
CapacityFor(vault, item) == SumFunction([s \in DOMAIN vault |-> RoomIn(vault[s], item)])

VaultPut(acc, s, item) ==
  LET n == Least(acc.left, MaxStack[item] - acc.vault[s].count)
  IN  IF n = 0 THEN acc
      ELSE [vault |-> [acc.vault EXCEPT ![s] = [item |-> item, count |-> @.count + n]],
            left |-> acc.left - n]

VaultTopUp(acc, s, item) ==
  IF acc.vault[s].item = item THEN VaultPut(acc, s, item) ELSE acc

VaultClaim(acc, s, item) ==
  IF acc.vault[s] = Empty THEN VaultPut(acc, s, item) ELSE acc

VaultTopUpAll(acc, order, item) ==
  FoldLeft(LAMBDA a, s : VaultTopUp(a, s, item), acc, order)
VaultClaimAll(acc, order, item) ==
  FoldLeft(LAMBDA a, s : VaultClaim(a, s, item), acc, order)

\* deposit: top up the item's stacks in slot order, then claim empty slots.
Deposit(vault, item, n) ==
  LET order == InOrder(DOMAIN vault, <)
  IN  VaultClaimAll(VaultTopUpAll([vault |-> vault, left |-> n], order, item), order, item)

\* take_all and restore: a slot out whole, and what did not fit back into it.
TakeAll(vault, s) == [vault EXCEPT ![s] = Empty]
\* Fault: what the bags did not take is dropped.
RestoreNothing(vault, s, item, n) == vault

Restore(vault, s, item, n) == IF n = 0 THEN vault ELSE [vault EXCEPT ![s] = Stack(item, n)]

=============================================================================
