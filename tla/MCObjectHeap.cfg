SPECIFICATION FairSpec
CONSTANTS
  o1 = o1
  o2 = o2
  o3 = o3
  o4 = o4
  Objects = {o1, o2, o3}
  Null = Null
  Foreign = {o3}
  Contents = {}
  Types = {}
  Packages = {o1}
  Symbols = {}
  PackageNames = {p1}
  MaxCounted = 1
  MaxEdges = 2
INVARIANT
  SaveIsClosed
PROPERTIES
  CollectsGarbage
  CallsReturn
\* After Shutdown nothing happens any more.
CHECK_DEADLOCK FALSE
