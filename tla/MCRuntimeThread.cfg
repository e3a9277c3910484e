CONSTANTS
  main = main
  sub = sub
  nat = nat
  leaf = leaf
  Null = Null
  Managed <- MCManaged
  Native <- MCNative
  Parameters <- MCParameters
  Results <- MCResults
  FrameCapacity <- MCFrameCapacity
  Instructions <- MCInstructions
  Alignment = 2
  HeadSize = 2
  RootSize = 4
  ReentrantSize = 6
  StackCapacity = 22

SPECIFICATION Spec

INVARIANTS
  AreasDisjoint
  StateRestored
  TraceIsTheCalls
  ParametersVisitedOnce

\* The code stops at an rdxDebugBreak.
CHECK_DEADLOCK FALSE
