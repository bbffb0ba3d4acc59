CONSTANTS
  Buffers <- MCBuffers
  ShortOfMemory = {}
  Sigma <- MCSigma
  WordBound = 3
SPECIFICATION Spec
INVARIANT UsualMeaning
