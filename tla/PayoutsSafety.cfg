SPECIFICATION MCPayoutSpec
CONSTANTS
  c1 = c1
  r1 = r1
  a1 = a1
  a2 = a2
  f1 = f1
  f2 = f2
  Courses = {c1}
  MaxOrders = 2
  Gateways = {"STRIPE"}
  Keys = {"k1"}
  NoKey = NoKey
  Price <- MCPrice
  Discount <- MCDiscount
  UsageLimit <- MCUsageLimit
  CommissionPercent = 100
  OpeningBalance = 0
  Sale <- MCSale
  MaxPayouts = 2
  Confirmers = {f1, f2}
  Requesters = {r1}
  PayoutAdmins = {a1, a2}
  MaxReversal = 1
  MinPayout = 2
  MinNet = 1
  PlatformFeeBps = 500
  StripeFeeBps = 25
  StripeFeeFlat = 1
INVARIANTS
  PayoutTypeOK
  SentAtMostOnce
  PaidOutIsSettled
  BucketsCoverTotal
PROPERTY SettledOldestFirst
SYMMETRY PayoutSymmetry
CHECK_DEADLOCK FALSE
