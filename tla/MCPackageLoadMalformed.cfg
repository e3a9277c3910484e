SPECIFICATION FairSpec
CONSTANTS
  p1 = p1
  p2 = p2
  p3 = p3
  p4 = p4
  Packages = {p1, p2}
  BuiltIn = BuiltIn
  NumBuiltIns = 2
  Null = Null
  Domains = {"core", "cyclic", "I", "self array", "own array", "nested array", "wrong default", "no type", "no import", "B", "lost", "nowhere", "run"}
  CoreDomain = "core"
  Runtime = "run"
  DomainOf <- MCDomainOf
  Duplicables = {"shared"}
  Files <- MalformedFiles
  MaxLocals = 3
  MaxHeld = 1
  Critical <- OnlyTypes
  CriticalBorder = {}
INVARIANT
  EverySymbolCreated
  LoadedTypesUsable
PROPERTY
  LoadReturns
