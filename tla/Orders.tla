------------------------------- MODULE Orders -------------------------------
(***************************************************************************)
(* The rows that a purchase touches, and the database transactions that    *)
(* change them, for one buyer, one instructor and one delivery partner.    *)
(* Every operator that primes a variable here is one transaction (or one   *)
(* conditional UPDATE) of apps/api: it runs to its end or not at all.  The *)
(* handlers that read before they call one, and the awaits between their   *)
(* calls, are in the modules that extend this one.                         *)
(*                                                                         *)
(* Money is in cents.  `revenue' stands for Course.revenueCents and for    *)
(* InstructorProfile.earningsCents, which every transaction moves by the   *)
(* same amounts; `students' for both studentCount columns.                 *)
(***************************************************************************)
EXTENDS Integers, FiniteSets, Functions

CONSTANTS
  Courses,          \* the published courses, none of them the buyer's own
  MaxOrders,        \* bound: how many Order rows may ever be created
  Gateways,         \* the enabled payment gateways
  Keys, NoKey,      \* Idempotency-Key header values; NoKey: header not sent
  Price,            \* Price[c]: price of course c at every quote
  Discount,         \* Discount[k]: cents that a valid code of kind k takes off
  UsageLimit,       \* UsageLimit[k]: redemptions allowed, 0 = unlimited
  CommissionPercent,
  OpeningBalance    \* store credit the buyer starts with

OrderIds == 1..MaxOrders

\* The kinds of code a buyer may enter.
Codes == {"none", "coupon", "campaign"}

\* CheckoutService.quote: the subtotal of a set of lines.
Subtotal(S) == SumFunctionOnSet(Price, S)

ASSUME OrdersAssumption ==
  /\ IsFiniteSet(Courses)
  /\ MaxOrders \in Nat
  /\ Gateways \subseteq {"STRIPE", "PAYPAL", "SSLCOMMERZ"}
  /\ NoKey \notin Keys
  /\ Price \in [Courses -> Nat]
  /\ Discount \in [Codes -> Nat]
  /\ UsageLimit \in [Codes -> Nat]
  /\ CommissionPercent \in 0..100
  /\ OpeningBalance \in Nat

VARIABLES
  orders,         \* OrderIds -> Order row ("NONE": not created yet)
  itemRefunded,   \* OrderIds -> Courses -> OrderItem.refundedCents
  enrolled,       \* courses the buyer has an Enrollment row for
  students,       \* Courses -> studentCount
  revenue,        \* Courses -> revenueCents
  spent,          \* StudentProfile.totalSpentCents
  balance,        \* SUM(amountCents) over the buyer's credit ledger
  redeemed,       \* orders with a CouponRedemption row (coupon.used = its size)
  referral,       \* OrderIds -> DeliveryPartnerReferral row
  partner         \* DeliveryPartner earnings and the campaign's usageCount

rows == <<orders, itemRefunded, enrolled, students, revenue, spent, balance,
          redeemed, referral, partner>>

Status == {"NONE", "PENDING", "PAID", "FAILED", "REFUNDED", "PARTIALLY_REFUNDED"}

OrderRow ==
  [status : Status, gateway : Gateways \cup {"none"}, items : SUBSET Courses,
   code : Codes, key : Keys \cup {NoKey}, credit : Nat, total : Nat,
   refunded : Nat, ref : BOOLEAN]

ReferralRow ==
  [status : {"NONE", "PENDING", "CONFIRMED", "PAID", "REVERSED"},
   commission : Nat, reversed : Nat]

NoOrder == [status |-> "NONE", gateway |-> "none", items |-> {}, code |-> "none",
            key |-> NoKey, credit |-> 0, total |-> 0, refunded |-> 0, ref |-> FALSE]

NoReferral == [status |-> "NONE", commission |-> 0, reversed |-> 0]

RowsTypeOK ==
  /\ orders \in [OrderIds -> OrderRow]
  /\ itemRefunded \in [OrderIds -> [Courses -> Nat]]
  /\ enrolled \subseteq Courses
  /\ students \in [Courses -> Int]
  /\ revenue \in [Courses -> Int]
  /\ spent \in Int
  /\ balance \in Int
  /\ redeemed \subseteq OrderIds
  /\ referral \in [OrderIds -> ReferralRow]
  /\ partner \in [pending : Int, total : Int, usage : Nat]

RowsInit ==
  /\ orders = [o \in OrderIds |-> NoOrder]
  /\ itemRefunded = [o \in OrderIds |-> [c \in Courses |-> 0]]
  /\ enrolled = {}
  /\ students = [c \in Courses |-> 0]
  /\ revenue = [c \in Courses |-> 0]
  /\ spent = 0
  /\ balance = OpeningBalance
  /\ redeemed = {}
  /\ referral = [o \in OrderIds |-> NoReferral]
  /\ partner = [pending |-> 0, total |-> 0, usage |-> 0]

-----------------------------------------------------------------------------
(* Reads. *)

AtMost(a, b) == IF a < b THEN a ELSE b
AtLeastZero(a) == IF a < 0 THEN 0 ELSE a

\* Mutant: only the pending orders wholly inside the cart.
PendingWithin(S) == {o \in OrderIds : /\ orders[o].status = "PENDING"
                                      /\ orders[o].items \subseteq S}

\* findPendingOrders: those that share a course with the cart.
Pending(S) == {o \in OrderIds : /\ orders[o].status = "PENDING"
                                /\ orders[o].items \cap S # {}}

WithKey(k) == {o \in OrderIds : k # NoKey /\ orders[o].status # "NONE"
                                          /\ orders[o].key = k}

Usage(k) == IF k = "coupon" THEN Cardinality(redeemed) ELSE partner.usage

\* validateCoupon / validatePartnerCampaign: only the redemption cap can change
\* while the system runs; expiry, scope and minimum spend are not modelled.
CodeValid(k) == k # "none" /\ (UsageLimit[k] = 0 \/ Usage(k) < UsageLimit[k])

\* Mutant: a discount larger than the subtotal is not capped.
QuoteUncapped(S, k, useCredit) ==
  LET after == Subtotal(S) - (IF CodeValid(k) THEN Discount[k] ELSE 0)
  IN [code |-> IF CodeValid(k) THEN k ELSE "none", credit |-> 0, total |-> after]

\* The quote for the courses S: what the order will say is owed, and how much of
\* the buyer's credit is set against it.  PayPal and SSLCommerz charge this total,
\* Stripe the items at their full prices.  Nothing is debited or reserved.
Quote(S, k, useCredit) ==
  LET valid == CodeValid(k)
      after == Subtotal(S) - AtMost(IF valid THEN Discount[k] ELSE 0, Subtotal(S))
      used  == IF useCredit THEN AtMost(AtLeastZero(balance), after) ELSE 0
  IN [code |-> IF valid THEN k ELSE "none", credit |-> used, total |-> after - used]

\* Math.round(total * percent / 100).
Commission(total) == (total * CommissionPercent + 50) \div 100

-----------------------------------------------------------------------------
(* Transactions. *)

\* OrdersService.createPending with the quote q.
CreatePending(o, S, gw, key, q) ==
  /\ orders' = [orders EXCEPT ![o] =
                  [status |-> "PENDING", gateway |-> gw, items |-> S,
                   code |-> IF q.code = "coupon" THEN "coupon" ELSE "none",
                   key |-> key, credit |-> q.credit, total |-> q.total,
                   refunded |-> 0, ref |-> FALSE]]
  /\ UNCHANGED <<itemRefunded, enrolled, students, revenue, spent, balance,
                 redeemed, referral, partner>>

\* DeliveryPartnerService.createPendingReferral: stamps the campaign on the
\* order.  A campaign no longer usable since the quote attributes nothing.
CreateReferral(o) ==
  /\ IF CodeValid("campaign") /\ referral[o].status = "NONE"
     THEN /\ referral' = [referral EXCEPT ![o] =
                            [status |-> "PENDING", reversed |-> 0,
                             commission |-> Commission(orders[o].total)]]
          /\ orders' = [orders EXCEPT ![o].code = "campaign"]
     ELSE UNCHANGED <<referral, orders>>
  /\ UNCHANGED <<itemRefunded, enrolled, students, revenue, spent, balance,
                 redeemed, partner>>

SaveProviderRef(o) ==
  /\ orders' = [orders EXCEPT ![o].ref = TRUE]
  /\ UNCHANGED <<itemRefunded, enrolled, students, revenue, spent, balance,
                 redeemed, referral, partner>>

\* OrdersRepository.markFailedIfPending: UPDATE ... WHERE status = 'PENDING'.
MarkFailedIfPending(o) ==
  /\ orders' = IF orders[o].status = "PENDING"
               THEN [orders EXCEPT ![o].status = "FAILED"]
               ELSE orders
  /\ UNCHANGED <<itemRefunded, enrolled, students, revenue, spent, balance,
                 redeemed, referral, partner>>

\* The unique index on (couponCode, orderId): a second redemption of the same
\* order makes the fulfilment transaction roll back.
FulfilRollsBack(o) == orders[o].code = "coupon" /\ o \in redeemed

\* Mutant: the debit the quote promised, whatever the balance is by now.
CreditAsQuoted(o) == orders[o].credit

\* The debit of a fulfilment, capped by the balance at that moment.
CreditSpend(o) == AtMost(balance, orders[o].credit)

\* The transaction of OrdersService.fulfill.  It does not look at the status it
\* overwrites; the caller read that before the transaction began.
FulfilTx(o) ==
  LET S == orders[o].items IN
  /\ orders' = [orders EXCEPT ![o].status = "PAID"]
  /\ enrolled' = enrolled \cup S
  /\ students' = [c \in Courses |-> IF c \in S \ enrolled THEN students[c] + 1
                                                         ELSE students[c]]
  /\ revenue' = [c \in Courses |-> IF c \in S THEN revenue[c] + Price[c]
                                              ELSE revenue[c]]
  /\ spent' = spent + orders[o].total
  /\ redeemed' = IF orders[o].code = "coupon" THEN redeemed \cup {o} ELSE redeemed
  /\ balance' = balance - AtLeastZero(CreditSpend(o))
  /\ UNCHANGED <<itemRefunded, referral, partner>>

\* DeliveryPartnerRepository.confirmReferralTx: unconditional, like FulfilTx.
ConfirmReferralTx(o) ==
  LET due == referral[o].commission IN
  /\ referral' = [referral EXCEPT ![o].status = "CONFIRMED"]
  /\ partner' = [pending |-> partner.pending + due, total |-> partner.total + due,
                 usage |-> partner.usage + 1]
  /\ UNCHANGED <<orders, itemRefunded, enrolled, students, revenue, spent,
                 balance, redeemed>>

\* Mutant: the proportional share, whatever was reversed before.
ReversalUncapped(seen, cents, total) ==
  (2 * cents * seen.commission + total) \div (2 * total)

\* The share of the commission that a refund of `cents' takes back: the
\* proportional one, Math.round(cents * commission / total), but no more than
\* is left of it.
Reversal(seen, cents, total) ==
  AtMost((2 * cents * seen.commission + total) \div (2 * total),
         seen.commission - seen.reversed)

\* Mutant: a referral that was never confirmed is reversed like the others.
ReverseUnearned(o, seen, cents) ==
  LET back == Reversal(seen, cents, orders[o].total) IN
  IF seen.status \in {"PENDING", "CONFIRMED"} /\ back > 0
  THEN /\ referral' = [referral EXCEPT ![o].reversed = seen.reversed + back]
       /\ partner' = [partner EXCEPT !.pending = @ - back, !.total = @ - back]
  ELSE UNCHANGED <<referral, partner>>

\* Mutant: the lifetime total keeps what a refund took back.
ReversePendingOnly(o, seen, cents) ==
  LET back == Reversal(seen, cents, orders[o].total) IN
  IF seen.status \in {"CONFIRMED", "PAID"} /\ back > 0
  THEN /\ referral' = [referral EXCEPT ![o].reversed = seen.reversed + back]
       /\ partner' = [partner EXCEPT !.pending = @ - back]
  ELSE UNCHANGED <<referral, partner>>

\* reversePartnerCommissionOnRefund: a referral not confirmed yet is closed, one
\* that was paid out is taken off the lifetime total only.  What is written to
\* the referral comes from the row as it was read.
ReverseCommission(o, seen, cents) ==
  LET back == Reversal(seen, cents, orders[o].total)
      sofar == seen.reversed + back
  IN CASE seen.status = "PENDING" ->
            /\ referral' = [referral EXCEPT ![o].status = "REVERSED",
                                           ![o].reversed = seen.reversed]
            /\ UNCHANGED partner
       [] seen.status \in {"CONFIRMED", "PAID"} /\ back > 0 ->
            /\ referral' = [referral EXCEPT
                 ![o].reversed = sofar,
                 ![o].status = IF sofar >= seen.commission THEN "REVERSED"
                                                           ELSE seen.status]
            /\ partner' = [pending |-> partner.pending
                              - (IF seen.status = "PAID" THEN 0 ELSE back),
                           total |-> partner.total - back, usage |-> partner.usage]
       [] OTHER -> UNCHANGED <<referral, partner>>
=============================================================================
