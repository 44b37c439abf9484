\* Chunks below, at and above a block; a length that only fits without its high digit.
CONSTANTS
  Radix = 3
  Word = 8
  Format = 1
  Bad = Bad
  NoValue = NoValue
  Manifests <- MCManifests
  BlockLen = 4
  LenLen = 2
  BitsPerByte = 2
  Images <- MCImages
  Leftovers <- MCLeftovers
  DdrLen = 7
  SlotSize = 6
  ChunkLens = {1, 3, 4, 5}
  BootMagic <- MCBootMagic
SPECIFICATION Spec
INVARIANTS
  ParserIsStrict
  HashIsOnePiece
  VerdictIsAcceptable
CHECK_DEADLOCK FALSE
