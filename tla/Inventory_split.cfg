SPECIFICATION Spec
CONSTANTS
  pouch = pouch
  helm = helm
  snack = snack
  NoItem = NoItem
  BaseSlots = {0, 1}
  BagCells = {0}
  EquipSlots = {0}
  Items <- MCItems
  BagItems = {pouch}
  MaxStack <- MCMaxStack
  EquippableIn <- MCEquippableIn
  NoDrop = {helm}
  NoRent = {snack}
  VaultSlots = {0}
  Consumables = {snack}
  MaxOwned <- MCMaxOwned
  SplitsFullBags = TRUE
INVARIANTS BooksBalance
