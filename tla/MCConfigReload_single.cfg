\* One request and one edit: the snapshots of authentication and handling.
CONSTANTS
  r1 = r1
  r2 = r2
  Requests = {r1}
  MaxEdits = 1
SPECIFICATION ReloadSpec
INVARIANTS
  SingleSnapshot
