SPECIFICATION BuilderSpec
CONSTANTS
  Nibble = 2
  HashSize = 2
  Hash256 <- MCHash256
  Txs <- MCTxs
  ArgVectors <- MCArgVectors
  Version = 200
  Now = 77
  FileAt <- MCFileAt
  Before = Before
  Stops <- MCStops
INVARIANTS ReadBackAll
