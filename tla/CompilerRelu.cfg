SPECIFICATION Spec
CONSTANTS
  Programs <- MCPrograms
  HandWritten <- MCHandWritten
  Workloads <- MCWorkloads
  MaxColumnWords = 4
  FeaturesPerJob = 3
  Transposes = TRUE
\* Compilation ends.
CHECK_DEADLOCK FALSE
INVARIANT
  CallsComputeTheirOps
