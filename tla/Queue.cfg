SPECIFICATION Spec
CONSTANTS
  t1 = t1
  t2 = t2
  t3 = t3
  a = a
  b = b
  Threads <- MCThreads
  Semaphores <- MCSemaphores
  MaxValue = 2
  Initial <- MCInitial
  Programs <- MCPrograms
\* Programs end.
CHECK_DEADLOCK FALSE
INVARIANTS
  TypeOK
  WorkAfterDependencies
  NoWaiterForgotten
  ResultsSettled
PROPERTIES
  QueriesMoveForward
  OrderSpec
  AllCallsReturn
