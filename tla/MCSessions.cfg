INIT Init
NEXT Next
CONSTANTS
  Recovery = rec
  Invalid = Invalid
  None = None
  RPCError = RPCError
  Specs <- AllSpecs
  ZKSpecs <- AllZKSpecs
  Canon <- AllCanon
  LegacyRows <- OldRows
  Jobs = {j1}
  Handlers = {h1}
  MaxAttemptID = 3
INVARIANTS
  TypeOK
  OwnRow
  GenerationDurable
  SuccessProved
  ReplyDurable
  RunningIsOwned
  DisabledMeansNoZK
PROPERTIES
  RecoveryNeverReruns
