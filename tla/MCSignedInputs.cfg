SPECIFICATION SpecBoth
CONSTANTS
  DeviceIDs = {d1, d2, d3}
  OldKeys = {x25519}
  NewKeys = {xwing}
  NoKey = NoKey
  MaxDevicesPerVault = 2
  MaxIndex = 5
  Requests = {r1, r2}
  NoRequest = NoRequest
  Calls = {c1, c2}
  Skew = 1
  Drift = 1
  Retention = 4
  MaxTime = 8
SYMMETRY InputSymmetry
CHECK_DEADLOCK FALSE
INVARIANTS
  ReplayAgrees
  ExtendAgrees
  AcceptedOnce
PROPERTY RefusedStaysSpent
