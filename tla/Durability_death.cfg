SPECIFICATION Spec
CONSTANTS
  alt1 = alt1
  alt2 = alt2
  solo = solo
  acctA = acctA
  acctB = acctB
  Chars = {alt1, alt2}
  Accounts = {acctA}
  AccountOf <- OneAccount
  Items = {x}
  NoRent = {}
  CorpseIds = {k}
  None = None
  Watched = {}
PROPERTIES DeathLeavesCorpse
