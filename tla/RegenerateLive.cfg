CONSTANTS
  None = None
  Users = {u1}
  Sigs = {a}
  Requests = {r1, r2}
  Job = Job
SPECIFICATION FairSpec
PROPERTIES SpinnerStops EndsOrWaits
