SPECIFICATION Spec
CONSTANTS
  Orders = {dep}
  OrderKind <- McKind
  Price <- McPrice
  Pools = {p1, p2}
  PoolId <- McPoolId
  Share <- McShare
  Milestones = {m1}
  MilestoneAmount <- McAmount
  ReleaseFee <- McFee
  PoolOf <- McPoolOf
  TalentOf <- McTalentOf
  Talents = {t1, t2}
  Payable = {t1}
  RefundKeys = {}
  RefundedOrder <- McRefunded
  RefundScope <- McScope
  RefundAsks <- AskFull
  NoScope = NoScope
  Owner = Owner
  Platform = Platform
  Handlers = {h1, h2}
  Serves <- AnyCaller
  Notices <- SettleOnly
  Sends <- McSends
  dep = dep
  doc = doc
  p1 = p1
  p2 = p2
  m1 = m1
  m2 = m2
  t1 = t1
  t2 = t2
  r1 = r1
  r2 = r2
  h1 = h1
  h2 = h2
INVARIANTS
  ReleasedOnce
CHECK_DEADLOCK FALSE
