SPECIFICATION Spec
CONSTANTS
  Players = {a, b}
  Bankers = {a}
  Mortals = {a}
  BagIds = {g}
  TIER_VALUE <- MCTierValue
  VendorPrice = 3
  Room = 2
  MaxAsk = 3
  Pots = {3, 4}
  Amounts <- MCAmounts
  Grants <- MCGrants
  MaxIssued = 10
INVARIANTS TypeOK BooksBalance SpendSound
