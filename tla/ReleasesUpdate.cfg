SPECIFICATION Spec
CONSTANTS
  Requests = {r1, r2}
  Instances <- OneInstance
  Endings = {}
  Services = {jupyterhub, trino}
  Tags = {"old", "new"}
  Values = {"old", "new"}
  Edits <- AllEdits
  Valid <- NoOldSettingOnNew
  MaxObjects = 0
  Absent = Absent
SYMMETRY Symmetry
INVARIANTS
  StoredSpecsValid
PROPERTIES
  ServiceNeverChanges
