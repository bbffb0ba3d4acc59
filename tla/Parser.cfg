CONSTANTS
  Buffers <- MCBuffers
  ShortOfMemory <- ShortBuffers
  Sigma <- MCSigma
  WordBound = 3
SPECIFICATION Spec
INVARIANTS HeldExists GprimeKeepsLocal HeldOnce SuccessLeaksNothing
  AcceptsGrammar MeansItsGroups ArrowUnderToken
PROPERTY Returns
