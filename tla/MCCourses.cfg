CONSTANTS
  Handlers = {h1, h2}
  Classes = {c1}
  Students = {s1, s2}
  Scenarios = {x1}
  MaxInserts = 3
SYMMETRY Symmetric
SPECIFICATION Spec
INVARIANTS
  TypeOK
  NumbersWithoutGaps
  MembersOnce
  RunsHadAccess
  Accounted
