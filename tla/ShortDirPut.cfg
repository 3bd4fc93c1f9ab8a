CONSTANTS
  n1 = n1
  n2 = n2
  n3 = n3
  n4 = n4
  l1 = 1
  l2 = 20
  l3 = 40
  l4 = 80
  Name <- MCName
  len <- MClen
  DotDot = DotDot
  Ino = {5, 15}
  ShortMax = 9
  ForkSize = 90
  BlockSize = 272
  PutsOffset = FALSE
  NULL = NULL
SPECIFICATION Spec
INVARIANT OffsetsApart
