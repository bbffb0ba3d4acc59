CONSTANTS
  Buffers <- ShortBuffers
  ShortOfMemory = {}
  Sigma <- MCSigma
  WordBound = 3
SPECIFICATION Spec
INVARIANT RejectsReported
