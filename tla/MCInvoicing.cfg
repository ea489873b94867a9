SPECIFICATION Spec
CONSTANTS
  Events = {m1, m2}
  Workers = {w1, w2}
  MaxRetries = 2
  Backlog = {m2}
  NoEvent = none
  Handlers = {h1, h2}
  MaxDeliver = 2
  Readers = {1, 2}
  Audiences <- McAudiences
SYMMETRY McAlike
INVARIANTS
  NothingDropped
  AckedIsInvoiced
  ConsumerSharesNumber
  GapsOnlyByDownload
CHECK_DEADLOCK FALSE
