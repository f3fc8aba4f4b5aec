CONSTANTS
  None = None
  Users = {u1}
  Sigs = {a, b}
  Requests = {r1}
  Job = Job
SPECIFICATION Spec
PROPERTIES NewestIsServed
