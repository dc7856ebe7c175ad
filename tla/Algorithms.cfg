SPECIFICATION AlgorithmsSpec
CONSTANTS
  Numbers <- MCNumbers
  headSize = 2
  tailSize = 1
  Radix = 4
  MaxInt = 2
  Frames <- MCFrames
  MaxFrames = 3
  Bodies <- MCBodies
  Template <- MCTemplate
  DecoderKnows <- MCDecoderKnows
  Inputs <- MCInputs
  Tokens = {a, b}
  Width = 3
  MaxRecords = 4
  MaxInBuffer = 2
  MaxOnWay = 1
SYMMETRY MCSymmetry
INVARIANTS
  WireRoundTrip
  PiecesDoNotMatter
  CachesAgree
  DecodedAsEncoded
  NullOnlyAfterLoss
CHECK_DEADLOCK FALSE
