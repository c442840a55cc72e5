\* A rename to a name that is refused, or that has no room, loses the file.
SPECIFICATION Spec
CONSTANTS
  a = a
  b = b
  Tasks = {t1}
  Names = {a, b}
  Length <- MCLength
  BadName = BadName
  Slots = 3
  Total = 2
  Programs <- MCPrograms
  MaxBusy = 1
  MaxOps = 4
  MaxCrashes = 0
PROPERTY OnlyRemovalLosesFiles
CHECK_DEADLOCK FALSE
