SPECIFICATION Spec
CONSTANTS
  a0 = a0
  a1 = a1
  a2 = a2
  p1 = p1
  p2 = p2
  pool0 = pool0
  tracker0 = tracker0
  Allocators <- MCAllocators
  Providers <- MCProviders
  OwnAllocator <- a0
  Pool <- pool0
  Tracker <- tracker0
  strela = strela
  local = local
  Names <- MCNames
  StrelaName <- strela
  Null = null
\* An application that has dropped the pool creates no more devices.
CHECK_DEADLOCK FALSE
INVARIANTS
  FieldsAlive
  RefsBalanced
  OpenWhileDevice
