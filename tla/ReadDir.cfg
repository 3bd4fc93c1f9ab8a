CONSTANTS
  n1 = n1
  n2 = n2
  n3 = n3
  l1 = 1
  l2 = 20
  l3 = 60
  Name <- MCName
  len <- MClen
  Dot = Dot
  DotDot = DotDot
  Ino = {5, 15, 16}
  ShortMax = 9
  ForkSize = 100
  BlockSize = 216
  PutsOffset = TRUE
  NULL = NULL
SPECIFICATION ScanSpec
INVARIANT TellsOnce
PROPERTY ScanEnds
INVARIANT TypeOK
INVARIANT OffsetsApart
INVARIANT CountsMatchBytes
INVARIANT StaysInline
PROPERTY OffsetsStay
PROPERTY ImplementsDirectory
