CONSTANTS
  OffN = 32
  HiN = 4
  LoN = 32
  CntN = 8
  FsbN = 16
  ValN = 4
  ByteN = 16
  Offs <- MCOffs
  Blocks <- MCBlocks
  Counts <- MCCounts
SPECIFICATION Spec
INVARIANT TypeOK
INVARIANT NarrowHolds
INVARIANT LookupFinds
PROPERTY ImplementsFields
