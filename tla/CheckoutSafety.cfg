SPECIFICATION Spec
CONSTANTS
  c1 = c1
  c2 = c2
  r1 = r1
  r2 = r2
  Courses = {c1}
  MaxOrders = 2
  Gateways = {"STRIPE", "PAYPAL"}
  Keys = {"k1", "k2"}
  NoKey = NoKey
  Price <- MCPrice
  Discount <- MCDiscount
  UsageLimit <- MCUsageLimit
  CommissionPercent = 50
  OpeningBalance = 1
  Requests = {r1, r2}
  Bodies <- RacingBodies
  MaxCleared = 0
  MayCrash = TRUE
INVARIANTS
  AccessIsCompleted
  AbandonedIsUnchargeable
  OneOrderPerKey
  CreditNeverOverdrawn
PROPERTIES
  ImplementsPurchase
SYMMETRY Symmetry
CHECK_DEADLOCK FALSE
