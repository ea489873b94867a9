SPECIFICATION Spec
CONSTANTS
  Callers = {c1, c2}
  Amounts <- McOneDeposit
  Disputes = {k1}
  Cancel = cancel
  Milestones = 1
  PackageShares = {1}
SYMMETRY McCallersAlike
INVARIANTS
  EndedHoldsNothing
  SplitReturnsHalf
  RecordedRefundHappened
CHECK_DEADLOCK FALSE
