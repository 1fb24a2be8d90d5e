SPECIFICATION Spec
CONSTANTS
  Requests = {r1, r2}
  Names = {db}
  OtherSecrets = {}
  Contracts = {database, hive}
  OpenContracts = {hive}
  Fields = {username, password}
  LostAnswers = TRUE
  Absent = Absent
SYMMETRY Symmetry
PROPERTIES
  ForeignNeverWritten
  MergeKeepsKeys
  ManagedNeverRewritten
