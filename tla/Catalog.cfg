CONSTANTS
  Requests = {r1, r2}
  Writers = {r1, r2}
  Names = {trino, spark}
  Services = {s1}
  MaxTries = 2
  MaxVersion = 2
  LostAnswers = TRUE
  Edits = {"catalog", "rest"}
  None = None
SPECIFICATION Spec
SYMMETRY Symmetry
INVARIANTS
  ReadsMonotone
PROPERTIES
  NoClobber
