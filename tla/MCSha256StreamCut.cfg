SPECIFICATION Spec
CONSTANTS
  BlockSize = 4
  SizeOff = 2
  HashSize = 2
  MsgMod = 16
  Lens = {1, 4, 5, 9}
  MaxCalls = 2
INVARIANT MsglenInBytes
