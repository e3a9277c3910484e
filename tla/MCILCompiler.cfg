CONSTANTS
  Null = Null
  Exception = "Exception"
  LargeUInt = "largeuint"
  Bool = "bool"
  Varying = "varying"
  TypeInfo <- MCTypeInfo
  Conversions <- MCConversions
  Polymorphic <- MCPolymorphic
  MethodInfo <- MCMethodInfo
  ObjectInfo <- MCObjectInfo
  Programs <- MCPrograms

SPECIFICATION Spec

INVARIANTS
  LiveValuesJournaled
  JournalsDisjoint
  CapacitiesHold
  JumpsKeepStacks
  StackActionsReplay
  HandlersKeepLocals

\* A body is compiled or rejected.
CHECK_DEADLOCK FALSE
