SPECIFICATION SpecFew
CONSTANTS
  Requests = {r1, r2}
  Stores = {vault, other}
  Shared = {vault}
  Accounts = {default, own}
  DefaultAccount = default
  Asks <- SomeAsks
  Jobs = {j1}
  Externals = {e1}
  MaxRequests = 2
  Absent = Absent
SYMMETRY Symmetry
INVARIANTS
  TypeOK
  StoresUsable
  FailuresContained
  RefersToStore
PROPERTIES
  UpdatesTakeNothing
CHECK_DEADLOCK FALSE
