SPECIFICATION Spec
CONSTANTS
  m1 = m1
  m2 = m2
  e1 = e1
  Events = {e1}
  Messages = {m1, m2}
  EventOf <- McRepublished
  Instances = {i1, i2}
  MaxDeliver = 2
  Nobody = nobody
  Faults = {"beat", "dlq"}
SYMMETRY McInstancesAndMessages
INVARIANTS OneAtATime ProcessedOnce AckedIsSettled
PROPERTY DoneIsKept
CHECK_DEADLOCK FALSE
