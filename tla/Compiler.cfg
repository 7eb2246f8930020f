SPECIFICATION Spec
CONSTANTS
  Programs <- MCPrograms
  HandWritten <- MCHandWritten
  Workloads <- MCWorkloads
  MaxColumnWords = 4
  FeaturesPerJob = 3
  Transposes = FALSE
\* Compilation ends.
CHECK_DEADLOCK FALSE
INVARIANTS
  DefinedBeforeUse
  WrappingKeepsDataFlow
  PlacementIsWhole
  StrelaReadsStrela
  GridCoversResult
  CallsComputeTheirOps
  PlacedOpsCompile
