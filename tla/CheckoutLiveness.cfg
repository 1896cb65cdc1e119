SPECIFICATION FairSpec
CONSTANTS
  c1 = c1
  c2 = c2
  r1 = r1
  r2 = r2
  Courses = {c1, c2}
  MaxOrders = 2
  Gateways = {"STRIPE", "PAYPAL", "SSLCOMMERZ"}
  Keys = {"k1"}
  NoKey = NoKey
  Price <- MCPrice
  Discount <- MCDiscount
  UsageLimit <- MCUsageLimit
  CommissionPercent = 50
  OpeningBalance = 0
  Requests = {r1}
  Bodies <- OneTabBodies
  MaxCleared = 1
  MayCrash = FALSE
INVARIANTS
  TypeOK
  OnePendingPerCourse
  NoReferralLeftPending
PROPERTIES
  CapturedIsSettled
CHECK_DEADLOCK FALSE
