\* Whole files in several orders, cut files, doubled names; a load after an error.
SPECIFICATION Spec
CONSTANTS
  DepthBound = 3
  ErrorBound = 1
  Flavour = "programs"
INVARIANTS
  WrittenIsRead
  ManifestIsOfTheFile
  CutFilesRefused
  DuplicatesRefused
CHECK_DEADLOCK FALSE
