SPECIFICATION Spec
CONSTANTS
  Lanes = 3
  Modules <- MCModules
  MaxChannels = 3
  NotConstant = 99
\* An invocation ends.
CHECK_DEADLOCK FALSE
INVARIANTS
  ColumnsStayInside
  FusedIsConvolution
  CallsUseOwnKernel
PROPERTIES
  InvocationEnds
