SPECIFICATION Spec
CONSTANTS
  alt1 = alt1
  alt2 = alt2
  solo = solo
  acctA = acctA
  acctB = acctB
  Chars = {alt1, alt2, solo}
  Accounts = {acctA, acctB}
  AccountOf <- Owners
  Items = {x, y}
  NoRent = {y}
  CorpseIds = {k}
  None = None
  Watched = {alt1}
INVARIANTS TypeOK NoCopyInPlay FlagsCover NoSavedCopy BooksBalance
PROPERTIES LoginRestores
CONSTRAINT Scenes
