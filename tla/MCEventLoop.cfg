SPECIFICATION Spec
CONSTANTS
  Clients = {c1, c2}
  Fds <- ClientFds
  Workers = {w1}
  EvtSize = 2
  MaxUnread = 1
  QueSize = 1
  Listening = TRUE
  Free = Free
  File = File
  Listen = Listen
  NoFd = NoFd
CHECK_DEADLOCK FALSE
INVARIANTS
  TypeOK
  ConnsAreSockets
  OpenedIsMine
PROPERTIES
  LeaversAreReaped
  WaitersAreAccepted
  UnloopEnds
