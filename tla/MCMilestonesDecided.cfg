SPECIFICATION FairSpec
CONSTANTS
  Callers = {c1}
  FreeRevisions = 1
  MaxAttempts = 2
  MaxSubmissions = 2
  MaxCredits = 1
PROPERTIES
  SubmittedIsDecided
CHECK_DEADLOCK FALSE
