SPECIFICATION Spec
CONSTANTS
  Tasks = {t1, t2}
  Sizes <- MCSizes
  Modulus = 8
  Newlines <- MCNewlines
  Room = 2
  MaxArrived = 3
  MaxAccepted = 3
CHECK_DEADLOCK FALSE
INVARIANTS
  TypeOK
  OwnBytes
  LoneCallIsContiguous
  ReturnIsTrue
  LineIsALine
PROPERTIES
  CallsReturn
