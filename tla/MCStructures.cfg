SPECIFICATION Spec
CONSTANTS
  Programs <- MCPrograms
  ReferencePart <- MCReference
  InterfacePart <- MCInterface
  ImplementedPart <- MCImplemented
  EnumerantPart <- MCEnumerant
  BuiltIn <- MCBuiltIn
  TailPadding = TRUE
  LargestUInt = 20
  MaxDepth = 4
INVARIANTS
  LayoutSound
  CompatibleIsSafe
  DispatchSafe
  CastsComplete
PROPERTY
  LoadSettles
\* A load that ended does nothing more.
CHECK_DEADLOCK FALSE
