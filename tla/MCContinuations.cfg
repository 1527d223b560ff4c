\* Two goroutines, three keys, room for two entries or three bytes.
CONSTANTS
  p1 = p1
  p2 = p2
  k1 = k1
  k2 = k2
  k3 = k3
  Procs = {p1, p2}
  Keys = {k1, k2, k3}
  Sizes = {0, 1, 2, 3}
  TTL = 2
  MaxEntries = 2
  MaxBytes = 3
  MaxEntry = 2
  MaxClock = 3
SPECIFICATION Spec
SYMMETRY CacheSymmetry
INVARIANTS
  CacheInv
  HitsAreFresh
