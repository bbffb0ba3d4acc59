CONSTANTS
  DFAs <- MCDFAs
  ShortOfMemory <- UpToFourStates
SPECIFICATION FairSpec
INVARIANTS
  TypeOK
  FlagNotReadAsVerdict
  CollectedIffFlagged
  ClassesAreWhole
  SameLanguage
  IsMinimal
  ClassesDisjoint
PROPERTY BuildsMinimalDFA
