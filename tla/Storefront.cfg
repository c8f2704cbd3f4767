SPECIFICATION FairSpec
CONSTANTS
  Packs = {v1, v2}
  Photos = {x1, x2}
  Values = {0, 1}
  First = 0
  Admins = {a1, a2}
  Instances = {i1, i2}
  Watched = {i1}
  MaxRequests = 2
INVARIANTS LiveHasPack OnePrimary StaleHasACause
PROPERTY EventuallyShown
CHECK_DEADLOCK FALSE
