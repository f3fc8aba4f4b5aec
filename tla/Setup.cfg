CONSTANTS
  None = None
  Requests = {r1, r2, r3}
  MaxRestarts = 1
SPECIFICATION FairSpec
INVARIANTS TypeOK OneFirstAdmin LoginsHaveAccounts
PROPERTIES Answered Elects
