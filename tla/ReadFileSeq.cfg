SPECIFICATION Spec
CONSTANTS
  a = a b = b s = s none = none
  d1 = d1 d2 = d2 d3 = d3 d4 = d4 d5 = d5 d6 = d6 d7 = d7 d8 = d8 zero = zero blank = blank
  BlockSize <- MCBlockSize
  AgBlocks <- MCAgBlocks
  AgSpan <- MCAgSpan
  ImageSize <- MCImageSize
  Name <- MCName
  Empty <- none
  Data <- MCData
  Zero <- zero
  Blank <- blank
  Images <- SupportedImages
  Caller = {c1, c2}
  Path <- MCPath
  Room = {1, 3}
  Arena = 5
  Garbage <- MCGarbage
  Word <- MCWord
  IntWord <- MCIntWord
  Overlap = FALSE
  Faults = FALSE
INVARIANTS IInv ParsedIsAsked WalkFollowsPath AnswerIsRight StaysInRoom
PROPERTY ImplementsService
SYMMETRY CallerSymmetry
