CONSTANTS
  Tab = 1
  Newline = 2
  Space = 3
  Tilde = 4
  MaxCalls = 4
  MaxHeld = 2
  WordBound = 3
SPECIFICATION Spec
INVARIANTS
  ThompsonShape
  OwnedOnce
  IndicesDistinct
  AcceptsItsWords
  GraphShowsNFA
CHECK_DEADLOCK FALSE
