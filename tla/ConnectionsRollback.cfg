SPECIFICATION Spec
CONSTANTS
  Requests = {r1, r2}
  Names = {db}
  OtherSecrets = {}
  Contracts = {database, hive}
  OpenContracts = {hive}
  Fields = {username, password}
  LostAnswers = FALSE
  Absent = Absent
PROPERTIES
  RollbackSparesBound
