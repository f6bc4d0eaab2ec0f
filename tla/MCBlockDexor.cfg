SPECIFICATION Spec
CONSTANTS
  KeySize = 3
  MagicSize = 1
  SizeSize = 1
  HeaderSize = 2
  VersionSize = 1
  Files <- MCFiles
INVARIANTS
  BlocksPrinted
  CountsRight
  
