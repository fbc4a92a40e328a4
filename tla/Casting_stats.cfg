SPECIFICATION Spec
CONSTANTS
  Players = {a, b}
  Casters = {a}
  Corpses = {c}
  Full = 2
  None = None
INVARIANT StatsReturn
