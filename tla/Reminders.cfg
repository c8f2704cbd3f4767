SPECIFICATION Spec
CONSTANTS
  vpsReminder = vpsReminder
  vpsNotice = vpsNotice
  vercelReminder = vercelReminder
  Orders = {o1, o2}
  Entries <- Lines
  JobOf <- JobOfLine
  PeriodOf <- Hours
  Deployments <- Deployed
  Batch = 1
  MaxPlaced <- PlacedUnder
  Slots = {k1, k2}
  PlaceHours = {0, 1}
  LastHour = 50
  MaxSlow = 2
  MaxLapses = 1
  None = None
SYMMETRY Symmetry
INVARIANTS AtMostOneMail EveryOrderIsChased
PROPERTIES NoticeBeforeRelease
CHECK_DEADLOCK FALSE
