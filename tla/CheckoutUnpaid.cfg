SPECIFICATION Spec
CONSTANTS
  c1 = c1
  c2 = c2
  r1 = r1
  r2 = r2
  Courses = {c1}
  MaxOrders = 1
  Gateways = {"STRIPE", "PAYPAL"}
  Keys = {"k1", "k2"}
  NoKey = NoKey
  Price <- MCPrice
  Discount <- MCDiscount
  UsageLimit <- MCUsageLimit
  CommissionPercent = 50
  OpeningBalance = 0
  Requests = {r1}
  Bodies <- RacingBodies
  MaxCleared = 1
  MayCrash = FALSE
INVARIANTS
  FulfilledIsCaptured
CHECK_DEADLOCK FALSE
