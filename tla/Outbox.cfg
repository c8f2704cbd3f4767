SPECIFICATION Spec
CONSTANTS
  Keys = {k1, k2}
  MaxBaskets = 1
  Drains = {d1, d2}
  MaxAdrift = 1
  None = None
SYMMETRY Symmetry
INVARIANTS RetriesMakeOneOrder PlacedIsAnOrder PaysForItsOrder
PROPERTIES CartIsNotLost
CHECK_DEADLOCK FALSE
