\* Two candidates of one provider, fair scheduling: failover, events and pings together.
CONSTANTS
  p = p
  N = 2
  Providers = {p}
  ProviderOf <- ProvidersPP
  Kinds = {"delta", "completed", "empty", "incomplete", "failed"}
  MaxUp = 2
  MaxEvents = 2
  MaxBytes = 3
  MaxPings = 1
SPECIFICATION FairSpec
INVARIANTS
  RoutingInv
  TerminatedOnce
  RecordsTellOutcome
PROPERTIES
  FailoverSpec
  RequestEnds
