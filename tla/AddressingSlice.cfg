SPECIFICATION Spec
CONSTANTS
  MaxColumnWords = 12
  HalfBits = 5
  WordBytes = 2
  LineBytes = 8
  Radix = 32
  DeviceMod = 1024
  SizeMod = 32
  Sites <- MCPartialSites
  Columns <- MCColumns
  Hosts <- MCHosts
  Maintained <- MCRanges
\* A column is followed to its end.
CHECK_DEADLOCK FALSE
INVARIANTS
  ColumnIsItsSlice
