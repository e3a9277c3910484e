SPECIFICATION Spec
CONSTANTS
  p1 = p1
  p2 = p2
  p3 = p3
  p4 = p4
  Packages = {p1, p2, p3}
  BuiltIn = BuiltIn
  NumBuiltIns = 2
  Null = Null
  Domains = {"core", "A", "B", "run"}
  CoreDomain = "core"
  Runtime = "run"
  DomainOf <- SoundDomainOf
  Duplicables = {"shared"}
  Files <- SoundFiles
  MaxLocals = 4
  MaxHeld = 1
  Critical <- OnlyTypes
  CriticalBorder <- OnlyLists
SYMMETRY MCSymmetry
INVARIANT
  PackagesComplete
  ReferencesAsFiled
  OneObjectPerName
PROPERTY
  FailureHasACause
