SPECIFICATION UpkeepSpec
CONSTANTS
  MaxRows = 3
  MaxDamage = 1
  PageSize = 1
  Keys = {"k1"}
  MaxSequence = 2
  Keep = 1
  Commands = {"c1", "c2"}
  MaxClock = 1
  MaxCount = 1
  MaxArchives = 3
  MaxTurns = 4
  MaxCrashes = 1
  MaxRotten = 1
  Servers = {"s1", "s2"}
  CapabilityKeys = {"k1", "k2"}
  MaxWritten = 2
  MaxTampered = 1
CHECK_DEADLOCK FALSE
INVARIANTS FullCheckExact IncrementalAgrees ExportWhole SecretsOpenDatabase ServerBackupsMatch PassFindsRight
PROPERTIES FeedMovesForward MigratedIsBackedUp ArchivesStay
