SPECIFICATION MCSpec
SYMMETRY Symmetry
CONSTANTS
  AccountIds = {1}
  SessionIds = {1, 2}
  TokenIds = {1, 2}
  DeviceIds = {1}
  PasskeyIds = {1}
  InviteIds = {1}
  Emails = {"ann", "bea"}
  ForeignEmails = {"cay"}
  OldHashes = {1}
  MaxHash = 2
  MaxGeneration = 2
  Clients = {c1, c2}
  MaxInUse = 3
CONSTRAINT Limits
INVARIANT UnverifiedLeavesNothing
CHECK_DEADLOCK FALSE
