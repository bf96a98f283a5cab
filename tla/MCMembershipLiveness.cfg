SPECIFICATION FairSpec
CONSTANTS
  DeviceIDs = {d1, d2, d3}
  OldKeys = {x25519}
  NewKeys = {xwing}
  NoKey = NoKey
  MaxDevicesPerVault = 2
  MaxIndex = 4
  Tokens = {t1, t2}
  NoToken = NoToken
  MaxPendingPairings = 1
PROPERTY MembersActivate
