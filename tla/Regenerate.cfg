CONSTANTS
  None = None
  Users = {u1}
  Sigs = {a, b}
  Requests = {r1, r2}
  Job = Job
SPECIFICATION Spec
SYMMETRY Symmetry
INVARIANTS TypeOK OneCoffeeAtATime OnlyStrandedHang
PROPERTIES NeverPaidTwice BoughtOneByOne
