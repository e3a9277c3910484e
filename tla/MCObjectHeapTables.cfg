SPECIFICATION Spec
CONSTANTS
  o1 = o1
  o2 = o2
  o3 = o3
  o4 = o4
  Objects = {o1, o2, o3, o4}
  Null = Null
  Foreign = {}
  Contents = {c1}
  Types = {o1}
  Packages = {}
  Symbols = {}
  PackageNames = {}
  MaxCounted = 1
  MaxEdges = 1
SYMMETRY MCSymmetry
INVARIANTS
  ReferencesAlive
  TablesAlive
  InternedOnce
PROPERTIES
  FailsOnlyWhenFull
\* After Shutdown nothing happens any more.
CHECK_DEADLOCK FALSE
