SPECIFICATION Spec
CONSTANTS
  r1 = r1  r2 = r2  p1 = p1  f1 = f1  a1 = a1
  Absent = Absent
  Reports = {r1, r2}
  Paths = {p1}
  Versions = {1, 2}
  Doc <- MCDoc
  Bodies <- MCBodies
  Apps = {a1}
  MaxID = 2
  MaxRows = 1
INVARIANTS TypeOK ReportTakesEffect GrantsArePublished
SYMMETRY MCSymmetry
