SPECIFICATION FairSpec
CONSTANTS
  Client = {ann, bob}
  MaxVersions = 2
  MaxFails = 2
  MaxRestarts = 1
INVARIANTS TypeOK DiskKeeps RuntimeFollows
PROPERTIES NoSilentRevert SavesEnd
CHECK_DEADLOCK FALSE
