SPECIFICATION Spec
CONSTANTS
  Entries = {e1}
  Devices = {d1, d2}
  Addresses = {a1, a2, a3}
  d1 = d1
  d2 = d2
  a1 = a1
  a2 = a2
  a3 = a3
  Reach <- MCReach
  Found <- MCFound
  Tuned = {}
  NoForm = NoForm
INVARIANT ReloadsAfterSave
