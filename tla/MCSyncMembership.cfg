SPECIFICATION Spec
CONSTANTS
  DeviceIDs = {d1, d2, d3}
  OldKeys = {x25519}
  NewKeys = {xwing}
  NoKey = NoKey
  MaxDevicesPerVault = 3
  MaxIndex = 5
  Tokens = {t1, t2, t3}
  NoToken = NoToken
  MaxPendingPairings = 2
SYMMETRY IdentitySymmetry
INVARIANTS
  TablesMatchList
  MembershipSound
PROPERTY HistoryIsFinal
