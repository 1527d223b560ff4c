\* The request-wide timeout of the Responses loop against the README's failover rule.
CONSTANTS
  p = p
  q = q
  N = 4
  Providers = {p, q}
  ProviderOf <- ProvidersPQPQ
SPECIFICATION Spec
INVARIANTS
  TimeoutFailsOver
