SPECIFICATION Spec
CONSTANTS
  buy = buy sell = sell buy2 = buy2
  Thread = {main}
  Order = {buy, buy2}
  None = None
  Change <- MCChange
  Modeled <- MCModeled
  Charges = {5}
  Allowance = 9
  Slack = 1
  Tolerance = 1
  Pool = 1000
  Foreign <- MCSmall
  MaxForeign = 2
  MaxCrashes = 2
PROPERTIES SentOnBalancedBooks
CHECK_DEADLOCK FALSE
