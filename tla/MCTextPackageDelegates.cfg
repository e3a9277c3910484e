\* A bound delegate type, as the test program has: written without a default value.
SPECIFICATION Spec
CONSTANTS
  DepthBound = 3
  ErrorBound = 0
  Flavour = "delegates"
INVARIANTS
  WrittenIsRead
CHECK_DEADLOCK FALSE
