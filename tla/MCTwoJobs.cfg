INIT Init
NEXT Next
CONSTANTS
  Recovery = rec
  Invalid = Invalid
  None = None
  RPCError = RPCError
  Specs <- OneSpec
  ZKSpecs <- OneSpec
  Canon <- OneCanon
  LegacyRows = {}
  Jobs = {j1, j2}
  Handlers = {h1, h2}
  MaxAttemptID = 2
SYMMETRY Symmetry
INVARIANTS
  OneOwner

  
