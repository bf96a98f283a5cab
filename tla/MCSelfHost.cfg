SPECIFICATION MCSpec
SYMMETRY Symmetry
CONSTANTS
  OwnerIds = {1, 2, 3}
  MemberIds = {1}
  TokenIds = {1, 2}
  SessionIds = {1, 2, 3}
  PairingIds = {1, 2}
  DeviceIds = {1}
  SetupTokenTTL = 1
  SessionTTL = 1
  RecentAuthWindow = 1
  PairingTTL = 1
  DeviceTokenTTL = 1
  PairingRetention = 0
  DeviceRetention = 0
  HolderRetention = 0
  Clients = {c1, c2}
  MaxTime = 2
  MaxSeq = 3
INVARIANTS HolderLives CodeUsedOnce ReferencesHold
PROPERTIES LastOwnerStays EndedStays
