SPECIFICATION Spec
CONSTANTS
  Workers = {w1, w2}
  Ops = {"topup", "updateLatestTopup", "deleteLatestTopup", "addCharge", "updateCharge", "deleteCharge", "updateConfig", "dialplan", "originate"}
  Calls = {c1}
  Legs = {"B"}
  Amounts <- SomeAmounts
  Opening = 1
  Before <- OneRow
  Cost = 2
  Attempts = 2
  MaxRequests = 2
  MaxLosses = 1
SYMMETRY Symmetry
CHECK_DEADLOCK FALSE
INVARIANTS TypeOK Reconciled NonNegative RecordsPaid
