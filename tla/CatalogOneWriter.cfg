CONSTANTS
  Requests = {r1, r2}
  Writers = {r1}
  Names = {trino}
  Services = {s1, s2}
  MaxTries = 5
  MaxVersion = 3
  LostAnswers = FALSE
  Edits = {"rest"}
  None = None
SPECIFICATION FairSpec
INVARIANTS
  WritesStored
PROPERTIES
  CatalogSettles
