SPECIFICATION MemSpec
CONSTANTS
  a1 = a1
  a2 = a2
  b1 = b1
  b2 = b2
  b3 = b3
  Arrays = {a1, a2}
  Allocators = {StdMemory, UserMemory}
  StdMemory = StdMemory
  NullMemory = NullMemory
  Blocks = {b1, b2, b3}
  NoBlock = NoBlock
  NoOwner = NoOwner
  HeaderSize = 2
  Off = 4
  ElemSize = 2
  SizeMod = 10
  HasCkd = TRUE
  Requests = {0, 1, 2, 4, 5}
  Values = {v}
  Junk = Junk
  Lost = Lost
  MaxRaw = 1
SYMMETRY MCSymmetry
INVARIANTS
  TypeOK
  CapacityBacked
  Ownership
  OwnAllocator
  RawBacked
PROPERTIES
  StableElements
  RoomGranted
  ImplementsSequence
