SPECIFICATION Spec
CONSTANTS
  Recovery = rec
  Invalid = Invalid
  None = None
  RPCError = RPCError
  Specs <- OneSpec
  ZKSpecs <- OneSpec
  Canon <- OneCanon
  LegacyRows = {}
  Jobs = {j1}
  Handlers = {h1}
  MaxAttemptID = 4
INVARIANTS
  OneVerdict
PROPERTIES
  AttemptIDsFresh
  ClosesOwnGeneration
  LedgerSpec
  SessionsEnd
