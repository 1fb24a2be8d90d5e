SPECIFICATION Spec
CONSTANTS
  Requests = {r1}
  Names = {db, ws}
  OtherSecrets = {}
  Contracts = {database, hive}
  OpenContracts = {hive}
  Fields = {username, password}
  LostAnswers = FALSE
  Absent = Absent
INVARIANTS
  CredentialsAccounted
PROPERTIES
  EditsTakeNothing
