SPECIFICATION Spec
CONSTANTS
  Callers = {c1, c2}
  Repos = {quay, ghcr}
  MaxVersion = 1
  NoDoc = NoDoc
  Names = {n1, n2}
  Requests = {r1, r2}
  MaxChanges = 2
  Gone = Gone
  AppRequests = {a1, a2}
  UserConfs <- SomeConfs
  NoApp = NoApp
  MaxLines = 3
  Services = {s1, s2}
  HasDefault = {s1}
  Listings = {l1, g1}
  Singles = {g1}
  MaxPublished = 1
INVARIANTS
  PlatformTypeOK
  ChannelsDeliver
  DefaultsComplete
PROPERTIES
  DumpsShared
  ForeignSpared
  EditsCompose
  ViewConverges
  WaitersReleased
CHECK_DEADLOCK FALSE
