CONSTANTS
  Handles = {"s1", "s2"}
  Elements <- MCElements
  MaxNodes = 4
SPECIFICATION Spec
INVARIANT WellLinked
PROPERTY ImplementsSet
VIEW WithoutResult
