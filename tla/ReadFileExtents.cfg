SPECIFICATION Spec
CONSTANTS
  a = a b = b s = s none = none
  d1 = d1 d2 = d2 d3 = d3 d4 = d4 d5 = d5 d6 = d6 d7 = d7 d8 = d8 zero = zero blank = blank
  BlockSize <- MCBlockSize
  AgBlocks <- MCAgBlocks
  AgSpan <- MCAgSpan
  ImageSize <- MCImageSize
  Name <- MCName
  Empty <- none
  Data <- MCData
  Zero <- zero
  Blank <- blank
  Images <- TwoExtentImages
  Caller = {c1}
  Path <- ShortPaths
  Room = {4}
  Arena = 5
  Garbage <- MCGarbage
  Word <- MCWord
  IntWord <- MCIntWord
  Overlap = FALSE
  Faults = FALSE
INVARIANT FileBlocksInPlace
