\* Two candidates, fair scheduling: failover, commit, forwarding and termination, with the
\* races of the deadline, the client and the readers.
CONSTANTS
  p = p
  N = 2
  Providers = {p}
  ProviderOf <- ProvidersPP
  Kinds = {"life", "bulk", "delta", "completed", "empty", "incomplete", "failed"}
  MaxUp = 3
  MaxEvents = 2
  MaxBytes = 3
SPECIFICATION ScopedSpec
INVARIANTS
  IInv
  RoutingInv
  HonestStatus
  TerminatedOnce
  NoEventLost
  NoEmptyAnswer
  RecordsTellOutcome
  BufferBounded
PROPERTIES
  FailoverSpec
  RequestEnds
