SPECIFICATION Spec
CONSTANTS
  Players = {a, b, c}
  None = None
  Bags = {bag1}
  MaxGroups = 2
SYMMETRY PlayerSymmetry
INVARIANTS TypeOK RosterSound TurnsRotate
