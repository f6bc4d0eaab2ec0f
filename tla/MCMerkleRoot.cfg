SPECIFICATION Spec
CONSTANTS
  Counts <- MCCounts
  Tx <- MCTx
  PairHash <- MCPairHash
  Zero = Zero
  Junk = Junk
INVARIANTS
  UnreadIntact
  RootOfTree
PROPERTIES
  ImplementsLevels
