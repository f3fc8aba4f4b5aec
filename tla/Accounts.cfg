CONSTANTS
  None = None
  Users = {root, u2}
  Root = root
  Requests = {r1, r2}
  Sids = {s1, s2, s3}
  MaxRestarts = 0
  MaxUnevicted = 0
SPECIFICATION Spec
SYMMETRY Symmetry
INVARIANTS TypeOK AdminRemainsIfGuarded SessionHasOwner LockedRowsStable OnlyEmbraceCycles SomeoneCanGoOn
PROPERTIES NoSelfLockout
CHECK_DEADLOCK FALSE
