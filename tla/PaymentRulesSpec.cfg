SPECIFICATION RulesSpec
CONSTANTS
  MaxDeposit = 9
  MaxWeight = 4
  MaxBalance = 3
  MaxGross = 9
  MaxAmount = 24
  MaxPrice = 300
INVARIANTS
  SharesConserveDeposit
  DrawIsTheDraw
  FeesAddUp
  PayoutMonotone
