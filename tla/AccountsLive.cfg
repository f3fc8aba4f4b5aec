CONSTANTS
  None = None
  Users = {root, u2}
  Root = root
  Requests = {r1, r2}
  Sids = {s1}
  MaxRestarts = 1
  MaxUnevicted = 1
SPECIFICATION FairSpec
INVARIANTS RevokedUnlessCutOff
PROPERTIES AnsweredOrWedged
CHECK_DEADLOCK FALSE
