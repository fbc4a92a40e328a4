SPECIFICATION Spec
CONSTANTS
  Players = {a}
  Masters = {a}
  Points = {camp}
  Ids = {i1, i2, i3}
  Full = 1
  None = None
SYMMETRY Symmetry
CONSTRAINT FewAlive
INVARIANTS TypeOK PointsAccounted DeadForgotten 
PROPERTIES EvadersUnhurt
