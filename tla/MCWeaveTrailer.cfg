SPECIFICATION Spec
CONSTANTS
  Payloads <- MCPayloads
  MaxPayload = 3
  MaxAppends = 3
  MaxDamage = 2
CHECK_DEADLOCK FALSE
INVARIANTS
  ReadsWholePayload
PROPERTY LastTrailerIsReadable
