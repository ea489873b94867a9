SPECIFICATION Spec
CONSTANTS
  Callers = {c1, c2, c3}
  FreeGenerations = 2
  MaxPaidVersion = 4
SYMMETRY McCallersAlike
INVARIANTS
  OneGenerationUnlessOvertaken
  OnlyClaimedSlotIsOwed
  VersionWithinCap
  ApprovedHasContent
CHECK_DEADLOCK FALSE
