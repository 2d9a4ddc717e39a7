SPECIFICATION Spec
CONSTANTS
  w1 = w1
  w2 = w2
  loop = loop
  stopper = stopper
  Threads <- PoolThreads
  Workers <- PoolWorkers
  Producers <- PoolProducers
  Stopper = stopper
  Tasks = {a}
  QueSize = 1
  NoThread = NoThread
  NoTask = NoTask
CHECK_DEADLOCK FALSE
PROPERTIES
  StopReturns
