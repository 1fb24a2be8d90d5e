SPECIFICATION Spec
CONSTANTS
  Requests = {r1, r2}
  Instances <- TwoInstances
  Endings <- UserAndChart
  Services = {jupyterhub}
  Tags = {"old"}
  Values = {"old"}
  Edits = {}
  Valid <- AllSpecs
  MaxObjects = 2
  Absent = Absent
SYMMETRY Symmetry
INVARIANTS
  NoUnknownLeftover
PROPERTIES
  SettledNeighboursSpared
