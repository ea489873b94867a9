SPECIFICATION Spec
CONSTANTS
  Callers = {c1, c2}
  FreeRevisions = 1
  MaxAttempts = 2
  MaxSubmissions = 2
  MaxCredits = 1
SYMMETRY McCallersAlike
INVARIANTS
  ApprovedOncePerSubmission
  PaidWasSubmitted
  RoundsArePaid
  AutoReleaseEarned
CHECK_DEADLOCK FALSE
