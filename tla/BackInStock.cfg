SPECIFICATION WaitlistSpec
CONSTANTS
  People = {p1, p2}
  Drains = {d1, d2}
  MaxStock = 1
  MaxEdits = 3
  MaxErasures = 1
SYMMETRY Symmetry
INVARIANTS ToldWasMailed OneMailPerRestock LeftWaitingHasACause
CHECK_DEADLOCK FALSE
