SPECIFICATION FairSpec
CONSTANTS
  o1 = o1
  o2 = o2
  v1 = v1
  v2 = v2
  Orders = {o1}
  Variants = {v1}
  MaxQty = 1
  InitStock <- Stock2
  MaxStock = 1
  MaxAdminMoves = 0
PROPERTIES LeftUnpaidIsReleased
CHECK_DEADLOCK FALSE
