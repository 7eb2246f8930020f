SPECIFICATION Spec
CONSTANTS
  Threads = {t1, t2}
  BufferCount = 1
  KernelCount = 2
  ExportCounts = {2}
SYMMETRY ThreadSymmetry
INVARIANTS
  TypeOK
  NothingLeaks
  ObjectsValid
  StatusIsOwn
  NothingDangles
