SPECIFICATION FairSpec
CONSTANTS
  acct = acct
  Chars = {a}
  Accounts = {acct}
  AccountOf <- OneAccount
  Linger = 2
  GiveUp = 1
  Away = 4
  Bannable = {acct}
  None = None
INVARIANTS TypeOK LingerKept
PROPERTIES NoRentJudged AccountFrees BannedLeave
