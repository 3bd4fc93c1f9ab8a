CONSTANTS
  Keys = 9
  Twins = 2
  NULL = NULL
  Node <- MCNode
  key <- MCkey
SPECIFICATION Spec
INVARIANT TypeOK
INVARIANT LinksAgree
INVARIANT Ordered
INVARIANT BlacksAgree
INVARIANT RedsApart
INVARIANT WalksInOrder
INVARIANT AugmentRight
PROPERTY ImplementsSet
PROPERTY CallsEnd
