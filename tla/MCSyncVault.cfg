SPECIFICATION VaultSpec
CONSTANTS
  DeviceIDs = {d1, d2}
  OldKeys = {}
  NewKeys = {xwing}
  NoKey = NoKey
  MaxDevicesPerVault = 2
  MaxIndex = 3
  Tokens = {t1, t2}
  NoToken = NoToken
  MaxPendingPairings = 1
  Sizes = {1, 2}
  ByteBudget = 3
  HeaderRetention = 2
  MaxRevision = 4
SYMMETRY IdentitySymmetry
INVARIANTS
  RoomForNext
  ContentsVerify
PROPERTY ImplementsContract
