CONSTANTS
  Handlers = {h1, h2}
  Classes = {c1}
  Students = {s1}
  Scenarios = {x1}
  MaxInserts = 3
SPECIFICATION FairSpec
PROPERTY ArchivedRejects
