SPECIFICATION Spec
CONSTANTS
  Client = {ann, bob}
  MaxVersions = 2
  MaxFails = 0
  MaxRestarts = 0
SYMMETRY Sym
PROPERTY LiveConfigStays
CHECK_DEADLOCK FALSE
