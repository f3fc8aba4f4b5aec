CONSTANTS
  Roaster = {ro1, ro2}
  Note = {fn1, fn2}
  Varietal = {va1, va2}
  Water = {wa1, wa2}
  Gear = {ge1}
  Recipe = {re1, re2}
  Coffee = {co1}
  Name = {x, y}
  Bad = Bad
  Client = {w1, w2}
  Bags = {b1}
  Cafes = {c1}
  Photo = {p1, p2, p3}
  Req = {r1, r2}
  SweepOnline = FALSE
  Session = {s1, s2}
  Tab = {t1, t2}
  User = {u1, u2}
  Brewed = {k1, k2}
  Tasted = {no1}
  Kit = {g1, g2}
  Slot = {"brewer", "grinder"}
  Time = {1, 2}
  None = None
  Counts <- UsageCounts
  Device = {d1, d2}
  MaxVersion = 2
  Key = {"research", "improve"}
  Text = {1, 2, 9}
  Fault = {9}
  EncKey = {e1, e2}
  Provider = {v1, v2}
  Run = {n1, n2}
  MaxDay = 2
  Retention = 0
  Member = {m1, m2}
  Page = {pg1}
  Call = {q1, q2}
SPECIFICATION HouseholdSpec
SYMMETRY Symmetry
INVARIANT LookupReturns
CHECK_DEADLOCK FALSE
