SPECIFICATION Spec
CONSTANTS
  BlockSize = 4
  SizeOff = 2
  HashSize = 2
  MsgMod = 16
  Lens = {0, 1, 2, 3, 4, 5, 6, 8, 9}
  MaxCalls = 3
INVARIANTS
  Streams
  PaddedRight
