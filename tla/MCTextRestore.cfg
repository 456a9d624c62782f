SPECIFICATION Spec
CONSTANTS
  Byte = {"x", "ctl", "DEL", "US", "lead", "cont", "ff"}
  MaxBody = 4
INVARIANTS UniqueFieldIsRestored OnlyPlaceholdersChange
