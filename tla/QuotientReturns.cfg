CONSTANTS
  DFAs <- MCDFAs
  StackLimit <- MCStackLimit
SPECIFICATION FairSpec
PROPERTY QuotientReturns
