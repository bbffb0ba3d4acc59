CONSTANTS
  Width = 4
  Everything <- MCEverything
  Inputs <- MCInputs
  Compiled <- MCCompiled
SPECIFICATION Spec
INVARIANTS ReleasesAll  LabelsNameChars LabelsAreWhole
PROPERTY Exits
