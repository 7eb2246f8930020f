SPECIFICATION Spec
CONSTANTS
  Words <- MCWords
  Lines <- MCLines
  LineOf <- MCLineOf
  Values <- MCValues
  ColumnCount = 2
  Kernels <- MCKernels
  Ranges <- MCRanges
  CopyMaps <- MCCopyMaps
  StrayWords <- MCStrayWords
  Kernel <- MCKernel
INVARIANTS
  TypeOK
  DeviceReadsFresh
  NoWriteBackOverOutput
  CpuSeesNothingStale
PROPERTIES
  NothingCpuWroteIsLost
  OutputsSurvive
  CoherentSpec
  CommandsReturn
