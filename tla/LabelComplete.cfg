CONSTANTS
  Width = 4
  Everything <- MCEverything
SPECIFICATION Spec
INVARIANT NamesEveryChar
