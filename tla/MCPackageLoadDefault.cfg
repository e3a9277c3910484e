SPECIFICATION FairSpec
CONSTANTS
  p1 = p1
  p2 = p2
  p3 = p3
  p4 = p4
  Packages = {p1, p2}
  BuiltIn = BuiltIn
  NumBuiltIns = 2
  Null = Null
  Domains = {"core", "D"}
  CoreDomain = "core"
  Runtime = "run"
  DomainOf <- MCDomainOf
  Duplicables = {"shared"}
  Files <- DefaultFiles
  MaxLocals = 3
  MaxHeld = 1
  Critical <- OnlyTypes
  CriticalBorder = {}
PROPERTY
  LoadReturns
