SPECIFICATION TQSpec
CONSTANTS
  Threads = {t1, t2, t3, t4}
  Tasks = {a, b}
  QueSize = 2
  NoThread = NoThread
  NoTask = NoTask
INVARIANTS
  TQTypeOK
  MutexHeld
  WithinCapacity
  FrontIsThere
  NoStrandedPop
  NoStrandedPush
PROPERTIES
  ImplementsBuffer
