------------------------------ MODULE Refunds -------------------------------
(***************************************************************************)
(* Refunds into store credit (AdminService.refundOrder), by admins who act *)
(* at the same time as one another and as the handlers of Checkout.  An    *)
(* admin's request reads the order with its items, makes a plan from what  *)
(* it read, and then carries the plan out in one transaction that does not *)
(* look at those rows again.                                               *)
(*                                                                         *)
(* The transaction does read the referral before it writes it, and the one *)
(* that confirms a referral takes no lock that would keep it out, so the   *)
(* refund is two steps: BeginRefundTx up to that read, CommitRefund for    *)
(* its writes.  In between it holds the order's row; the other writers of  *)
(* that row wait, which is as if they had come before or after it.         *)
(***************************************************************************)
EXTENDS Checkout

CONSTANTS
  Admins,       \* admins whose refunds may be in flight together
  MaxRefund     \* bound: the most cents an admin asks to refund of one item

ASSUME RefundsAssumption == MaxRefund \in Nat

VARIABLE
  refund        \* Admins -> the plan between the read and the transaction

refundVars == <<vars, refund>>

\* What the admin may send: cents per item, 0 for the items left out.
Requested == [Courses -> 0..MaxRefund]

RefundPlan ==
  [ord : OrderIds \cup {0}, amount : Requested, full : SUBSET Courses,
   refunded : Nat, status : {"NONE", "PARTIALLY_REFUNDED", "REFUNDED"},
   locked : BOOLEAN, seen : ReferralRow]

NoPlan == [ord |-> 0, amount |-> [c \in Courses |-> 0], full |-> {},
           refunded |-> 0, status |-> "NONE", locked |-> FALSE, seen |-> NoReferral]

RefundTypeOK ==
  /\ TypeOK
  /\ refund \in [Admins -> RefundPlan]

RefundInit ==
  /\ Init
  /\ refund = [a \in Admins |-> NoPlan]

CentsOf(amount) == SumFunctionOnSet(amount, Courses)

-----------------------------------------------------------------------------
(* The plan: AdminService.buildRefundPlan. *)

\* Mutant: what was refunded of the item before is forgotten.
RemainingOfPrice(o, c) == Price[c]

Remaining(o, c) == Price[c] - itemRefunded[o][c]

\* Every item asked for is one of the order's and has that much left.
WithinItems(o, amount) ==
  \A c \in Courses :
    amount[c] > 0 => c \in orders[o].items /\ amount[c] <= Remaining(o, c)

\* "The portion of the order that was actually money-paid", as computed.
RefundableTotal(o) == orders[o].total - orders[o].credit

\* Mutant: a partial refund leaves the order's status as it was.
StatusKept(o, sofar) ==
  IF sofar >= RefundableTotal(o) THEN "REFUNDED" ELSE orders[o].status

StatusAfter(o, sofar) ==
  IF sofar >= RefundableTotal(o) THEN "REFUNDED" ELSE "PARTIALLY_REFUNDED"

\* The plan after which `sofar' of the order is refunded.  The items that it
\* leaves nothing of lose their enrolment.
PlanUpTo(o, amount, sofar) ==
  [ord |-> o, amount |-> amount,
   full |-> {c \in Courses : amount[c] > 0 /\ amount[c] = Remaining(o, c)},
   refunded |-> sofar, status |-> StatusAfter(o, sofar),
   locked |-> FALSE, seen |-> NoReferral]

\* Mutant: the order's total is what this refund alone returns.
PlanOfThisRefund(o, amount) == PlanUpTo(o, amount, CentsOf(amount))

\* Mutant: every item asked for counts with its whole price.
PlanAtPrice(o, amount) ==
  PlanUpTo(o, amount, orders[o].refunded + Subtotal({c \in Courses : amount[c] > 0}))

PlanOf(o, amount) == PlanUpTo(o, amount, orders[o].refunded + CentsOf(amount))

\* refundOrder up to its transaction.  Only a REFUNDED order is refused: one
\* that is PENDING or FAILED is not.
MakePlan(a, o, amount) ==
  /\ refund[a] = NoPlan
  /\ orders[o].status \notin {"NONE", "REFUNDED"}
  /\ CentsOf(amount) > 0
  /\ WithinItems(o, amount)
  /\ orders[o].refunded + CentsOf(amount) <= RefundableTotal(o)
  /\ refund' = [refund EXCEPT ![a] = PlanOf(o, amount)]
  /\ UNCHANGED vars

-----------------------------------------------------------------------------
(* The transaction: AdminService.applyRefundToLedger. *)

\* Up to the read of the referral, in reversePartnerCommissionOnRefund.  The
\* order's row is locked by now: one refund of an order at a time gets here.
BeginRefundTx(a) ==
  /\ refund[a] # NoPlan /\ ~ refund[a].locked
  /\ \A b \in Admins : refund[b].locked => refund[b].ord # refund[a].ord
  /\ refund' = [refund EXCEPT ![a].locked = TRUE,
                              ![a].seen = referral[refund[a].ord]]
  /\ UNCHANGED vars

CommitRefund(a) ==
  /\ refund[a].locked
  /\ LET p == refund[a]
         o == p.ord
     IN /\ itemRefunded' = [itemRefunded EXCEPT
                              ![o] = [c \in Courses |-> @[c] + p.amount[c]]]
        /\ revenue' = [c \in Courses |-> revenue[c] - p.amount[c]]
        /\ students' = [c \in Courses |-> IF c \in p.full THEN students[c] - 1
                                                          ELSE students[c]]
        /\ orders' = [orders EXCEPT ![o].status = p.status,
                                    ![o].refunded = p.refunded]
        /\ spent' = spent - CentsOf(p.amount)
        /\ enrolled' = enrolled \ p.full
        /\ ReverseCommission(o, p.seen, CentsOf(p.amount))
        /\ balance' = balance + CentsOf(p.amount)
  /\ refund' = [refund EXCEPT ![a] = NoPlan]
  /\ UNCHANGED <<redeemed, session, recorded, handler>>

\* The process dies before the transaction has committed, or it rolls back.
DropRefund(a) ==
  /\ MayCrash /\ refund[a] # NoPlan
  /\ refund' = [refund EXCEPT ![a] = NoPlan]
  /\ UNCHANGED vars

-----------------------------------------------------------------------------
CheckoutStep == Next /\ UNCHANGED refund

RefundStep(a) ==
  \/ \E o \in OrderIds, amount \in Requested : MakePlan(a, o, amount)
  \/ BeginRefundTx(a)
  \/ CommitRefund(a)
  \/ DropRefund(a)

RefundNext == CheckoutStep \/ \E a \in Admins : RefundStep(a)

RefundSpec == RefundInit /\ [][RefundNext]_refundVars

-----------------------------------------------------------------------------
(* Properties. *)

\* docs/FEATURE_FLOWS.md, 7.10: what is refunded already "can't be refunded
\* twice".  True of one refund at a time, whatever partial refunds, fulfilments
\* and late payments come between; false of two that overlap.
NothingRefundedTwice ==
  \A o \in OrderIds, c \in Courses : itemRefunded[o][c] <= Price[c]

\* schema.prisma, Order.refundedCents: "Equals SUM(items.refundedCents)".  The
\* one is written absolutely, the others are incremented; they agree as long as
\* one refund is made at a time.
RefundsAddUp ==
  \A o \in OrderIds : orders[o].refunded = CentsOf(itemRefunded[o])

\* Admins that overwrite each other's total can only lose refunds from it: the
\* order never claims to have returned more than its items record.
RefundsNeverOverstated ==
  \A o \in OrderIds : orders[o].refunded <= CentsOf(itemRefunded[o])

\* docs/FEATURE_FLOWS.md, 5.2: "several partial refunds on the same order never
\* reverse more than was actually earned", also when admins refund the same item
\* twice and while the fulfilment is still confirming the referral.
ReversedWithinCommission ==
  \A o \in OrderIds : referral[o].reversed <= referral[o].commission

\* What the partner may keep: what the confirmed referrals earned less what
\* refunds took back of it.
Kept(o) == IF referral[o].status \in {"CONFIRMED", "PAID"}
           THEN referral[o].commission - referral[o].reversed ELSE 0
PartnerKeeps == SumFunction([o \in OrderIds |-> Kept(o)])

\* A refund never takes a commission back that was not credited or that it does
\* not record as reversed, wherever it falls between fulfilments, confirmations
\* (even doubled ones) and other refunds.
PartnerNotShortChanged == partner.total >= PartnerKeeps
=============================================================================
