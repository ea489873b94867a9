SPECIFICATION FairSpec
CONSTANTS
  Payouts = {d1}
  Refs = {f1, f2}
  NoRef = NoRef
  Executors = {e1, e2, e3}
  Words = {"approved"}
  Batch = 1
  d1 = d1
  f1 = f1
  f2 = f2
  e1 = e1
  e2 = e2
  e3 = e3
INVARIANTS
  OnePayout
  BookedWhenSettled
PROPERTIES
  QueuedIsResolved
  SettledRowIsFinal
CHECK_DEADLOCK FALSE
