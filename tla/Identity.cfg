SPECIFICATION Spec
CONSTANTS
  Requests = {r1, r2}
  Users <- TwoUsers
  Groups <- TwoGroups
  Hashes = {old, new}
  Old = old
  Names = {full}
  Asks <- SomeAsks
  Absent = Absent
SYMMETRY Symmetry
INVARIANTS
  TypeOK
  NoGhostMembership
PROPERTIES
  ChangesAsAsked
  NoStolenMembership
CHECK_DEADLOCK FALSE
