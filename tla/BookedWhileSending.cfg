SPECIFICATION Spec
CONSTANTS
  buy = buy sell = sell buy2 = buy2
  Thread = {main, web}
  Order = {buy, buy2}
  None = None
  Change <- MCChange
  Modeled <- MCModeled
  Charges = {2, 8}
  Allowance = 9
  Slack = 1
  Tolerance = 1
  Pool = 1000
  Foreign <- MCForeign
  MaxForeign = 0
  MaxCrashes = 0
PROPERTIES SentOnBalancedBooks
CHECK_DEADLOCK FALSE
