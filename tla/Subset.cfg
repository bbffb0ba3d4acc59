CONSTANTS
  NFAs <- MCNFAs
  WordBound = 5
SPECIFICATION FairSpec
INVARIANTS
  StatesDistinct
  TransitionsExact
  HandsOverDFA
  SameLanguage
  GraphShowsDFA
PROPERTY Terminates
