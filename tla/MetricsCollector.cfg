SPECIFICATION Spec
CONSTANTS
  Samples <- MCSamples
  MaxOf <- MCMaxOf
  Types = {"EMERGENCY_BRAKE", "GENERAL_INFO"}
  Reasons = {"REPLAY_ATTACK", "INVALID_SIGNATURE"}
  MaxTx = 2
  MaxRejected = 1
  None = None
INVARIANTS TypeOK CountersMatchRecords TargetIsExact HeldReportAddsUp
