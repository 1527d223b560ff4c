\* Four candidates of two providers, fair scheduling: both loops and their answers.
CONSTANTS
  p = p
  q = q
  N = 4
  Providers = {p, q}
  ProviderOf <- ProvidersPQPQ
SPECIFICATION FairSpec
INVARIANTS
  RoutingInv
  RecordsAgree
  MessagesTimeoutFailsOver
PROPERTIES
  FailoverSpec
  RequestEnds
