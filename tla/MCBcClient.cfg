SPECIFICATION FairSpec
CONSTANTS
  MagicBytes = 2
  RestBytes = 1
  MaxFails = 1
  MaxSent = 3
  Kinds = {"version", "oldVersion", "ping", "inv", "ignored", "other", "corrupt",
           "empty"}
  Payload <- MCPayload
INVARIANTS
  InStep
  HandledInOrder
  Spoken
PROPERTIES
  TcpErrorIsFinal
  Ends
  AllHandled
