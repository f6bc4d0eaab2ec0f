SPECIFICATION FairSpec
CONSTANTS
  N = 3
  NonceMod = 8
  Width = 2
  Hashes <- MCHashes
  Variants = {"v1", "par"}
  Inputs <- MCInputs
  MaxCalls = 2
INVARIANTS
  FoundSound
  NotFoundExhaustive
PROPERTY Returns
