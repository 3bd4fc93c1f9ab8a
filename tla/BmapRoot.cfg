CONSTANTS
  Keyn = 7
  Key <- MCKey
  Block <- MCBlock
  Leaf <- MCLeaf
  BlockMax = 4
  Whole = 56
  Forks = {40}
  Junk = 0
SPECIFICATION Spec
INVARIANT TypeOK
INVARIANT RootLeadsToLeaves
INVARIANT RootFits
INVARIANT FlushedIsRead
