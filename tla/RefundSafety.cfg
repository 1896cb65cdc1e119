SPECIFICATION MCRefundSpec
CONSTANTS
  c1 = c1
  c2 = c2
  r1 = r1
  r2 = r2
  a1 = a1
  a2 = a2
  Courses = {c1, c2}
  MaxOrders = 1
  Gateways = {"PAYPAL", "STRIPE"}
  Keys = {"k1"}
  NoKey = NoKey
  Price <- MCPrice
  Discount <- MCDiscount
  UsageLimit <- MCUsageLimit
  CommissionPercent = 50
  OpeningBalance = 0
  Requests = {r1}
  Bodies <- RacedBodies
  MaxCleared = 0
  MayCrash = TRUE
  Admins = {a1, a2}
  MaxRefund = 2
INVARIANTS
  RefundTypeOK
  NothingRefundedTwiceSingly
  RefundsAddUpSingly
  RefundsNeverOverstated
  AccessIsBacked
  PartnerNotShortChanged
  ReversedWithinCommission
SYMMETRY AdminSymmetry
CHECK_DEADLOCK FALSE
