\* What a passing verdict says of the transitive closure.
SPECIFICATION Spec
CONSTANTS
  extract = extract  graph = graph  security = security  db = db
  os = os  part = part  credentials = credentials
  Whole = Whole
  Packages <- MCPackages
  Names <- MCNames
  Forbidden <- MCForbidden
  Files <- MCFiles
  Graphs <- MCGraphs
  Breakages <- AllParse
INVARIANTS
  ClosureComplete
