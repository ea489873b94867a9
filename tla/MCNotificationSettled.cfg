SPECIFICATION FairSpec
CONSTANTS
  m1 = m1
  m2 = m2
  e1 = e1
  Events = {e1}
  Messages = {m1}
  EventOf <- McOneMessage
  Instances = {i1, i2}
  MaxDeliver = 3
  Nobody = nobody
  Faults = {"beat", "redis", "dlq"}
PROPERTY EventuallySettled
CHECK_DEADLOCK FALSE
