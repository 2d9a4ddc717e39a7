SPECIFICATION Spec
CONSTANTS
  u1 = u1
  u2 = u2
  h1 = h1
  h2 = h2
  Workers = {w1, w2}
  Users <- TwoUsers
  NoUser = NoUser
  Hashes <- TwoHashes
  Jobs <- MCJobs
  MaxJobs = 2
  QueryResults <- AnyResult
  Failures <- AllFailures
CHECK_DEADLOCK FALSE
INVARIANTS
  TypeOK
  KnownIsStored
  OneCopy
PROPERTIES
  TaskEnds
