\* The check of one file, over every import graph of MCGraphs.
SPECIFICATION FairSpec
CONSTANTS
  extract = extract  graph = graph  security = security  db = db
  os = os  part = part  credentials = credentials
  Whole = Whole
  Packages <- MCPackages
  Names <- MCNames
  Forbidden <- MCForbidden
  Files <- MCFiles
  Graphs <- MCGraphs
  Breakages <- MCBreakages
INVARIANTS
  TypeOK
  NoFalseAlarm
  NearMissesCaught
PROPERTIES
  Ends
