SPECIFICATION Spec
CONSTANTS
  Requests = {1, 2}
  Uuids = {"id0", "id1", "id2"}
  Statements <- AlwaysFails
  Plain <- MCPlain
  Tables <- MCTables
  Garbage = "garbage"
  Wild = "wild"
  FirstUsers <- MCUsers
  FirstSessions <- MCSessions
  FirstTree <- MCTree
  Signs <- MCSigns
  DirIds <- MCDirIds
  Reachable = {"accounts"}
CHECK_DEADLOCK FALSE
PROPERTIES
  DirectoriesAnswer
