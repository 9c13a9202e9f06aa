SPECIFICATION Spec
CONSTANTS
  buy = buy sell = sell buy2 = buy2
  Thread = {main}
  Order = {buy, sell, buy2}
  None = None
  Change <- MCChange
  Modeled <- MCModeled
  Charges = {2, 8}
  Allowance = 9
  Slack = 1
  Tolerance = 1
  Pool = 1000
  Foreign <- MCDividend
  MaxForeign = 1
  MaxCrashes = 1
INVARIANTS OnlyFeesAreBooked
CHECK_DEADLOCK FALSE
