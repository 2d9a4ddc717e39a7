SPECIFICATION Spec
CONSTANTS
  Clients = {c1, c2}
  Workers = {w1, w2}
  Loop = Loop
  QueSize = 1
  NoClient = NoClient
  MaxUnread = 1
CHECK_DEADLOCK FALSE
INVARIANTS
  ServesItsOwn
