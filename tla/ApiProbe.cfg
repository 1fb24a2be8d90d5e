SPECIFICATION FairSpec
CONSTANTS
  Callers = {c1, c2, c3}
  Required = {connections, bindings}
  MaxDiscoveryErrors = 1
  NoCaller = NoCaller
INVARIANTS
  SingleFlight
  NoTransientMissing
PROPERTIES
  GateSpec
  CallersAnswered
  InstallTakesEffect
