CONSTANTS
  None = None
  Users = {root, u2}
  Root = root
  Requests = {r1, r2}
  Sids = {s1, s2}
  MaxRestarts = 0
  MaxUnevicted = 0
SPECIFICATION FairSpec
PROPERTIES DemotionsSerialize
CHECK_DEADLOCK FALSE
