SPECIFICATION Spec
CONSTANTS
  Players = {a, b}
  Casters = {a}
  Corpses = {c}
  Full = 2
  None = None
CONSTRAINTS NoLeaks FewBuffs
INVARIANTS TypeOK CastEarned DeadAreStill RefundedOnce
PROPERTIES StatsAccounted
