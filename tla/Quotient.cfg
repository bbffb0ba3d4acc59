CONSTANTS
  DFAs <- MCDFAs
  StackLimit <- MCStackLimit
SPECIFICATION FairSpec
INVARIANTS
  TypeOK
  ReadsWrittenCell
  MarksSound
  QuotientExact
PROPERTIES
  ImplementsSeparation
  AcyclicReturns
