SPECIFICATION Spec
CONSTANTS
  MagicBytes = 2
  RestBytes = 1
  MaxFails = 1
  MaxSent = 3
  Kinds = {"version", "oldVersion", "ping", "inv", "ignored", "other", "corrupt"}
  Payload <- MCPayload
INVARIANT InvAccepted
