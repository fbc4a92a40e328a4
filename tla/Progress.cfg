SPECIFICATION Spec
CONSTANTS
  Players = {a, b}
  Quests = {q}
  Questers = {a}
  Mortals = {a}
  CorpseIds = {k}
  MaxLevel = 3
  FloorLevel = 2
  Band <- MCBand
  KillXp = 2
  BonusPct = 50
  LossPct = 50
  RefundPcts = {60, 100}
  Required <- MCRequired
  Reward <- MCReward
  LevelReq <- MCLevelReq
  MaxActive = 1
  MaxEarned = 2
  None = None
INVARIANTS TypeOK XpEarned QuestPaidOnce JournalSaved
