\* Two requests and three edits, fair scheduling: who sees which snapshot, and when.
CONSTANTS
  r1 = r1
  r2 = r2
  Requests = {r1, r2}
  MaxEdits = 3
SPECIFICATION FairSpec
INVARIANTS
  IInv
PROPERTIES
  ReloadsConverge
