SPECIFICATION TradeSpec
CONSTANTS
  Players = {a, b}
  None = None
  pouch = pouch
  snack = snack
  NoItem = NoItem
  BaseSlots = {0, 1}
  BagCells = {0}
  EquipSlots = {}
  Items = {pouch, snack}
  BagItems = {pouch}
  MaxStack <- PouchAndSnack
  EquippableIn <- NothingWorn
  NoDrop = {}
  NoRent = {}
  Window = {1, 2}
  SessionIds = {1}
  MaxCoins = 1
  MaxInWorld <- PouchAndSnack
  Mortals = {a}
CONSTRAINT Scenes
INVARIANTS TradeTypeOK SessionsSound
PROPERTIES ImplementsContract LockHolds
