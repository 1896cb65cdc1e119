---------------------------- MODULE RefundProofs ----------------------------
(***************************************************************************)
(* Refunds proved for every number of admins, requests, orders, courses    *)
(* and prices: what survives refunds that are planned on stale rows, beside*)
(* the checkouts, webhooks and fulfilments of the same orders.             *)
(*                                                                         *)
(* The invariant of Checkout (its fulfilled orders may be refunded by now) *)
(* holds together with what a plan in flight still guarantees: that its    *)
(* order exists and had a charge to divide the commission by, and that the *)
(* referral its transaction has read, though it may be confirmed by now,   *)
(* is the same referral of the same commission.                            *)
(*                                                                         *)
(* Three invariants are built over it.  Books: a plan names courses of its *)
(* order and reverses no more than the commission it read.  PartnerInv: a  *)
(* commission is split as what is kept and what was reversed.  SinglyInv,  *)
(* for admins who refund one at a time: a plan in flight is current, so no *)
(* line is refunded twice and the amounts add up.  Refunds that are taken  *)
(* one at a time are defined with the instance, in MCRefunds; nothing else *)
(* of that module is used here.                                            *)
(***************************************************************************)
EXTENDS MCRefunds, CheckoutProofs

\* What an admin's plan guarantees about the rows, however late it commits.
PlanSound(p) ==
  p # NoPlan => /\ p.ord \in OrderIds /\ Exists(p.ord)
                /\ orders[p.ord].total > 0
                /\ p.status # "NONE"

\* What the transaction still knows of the referral it has read.
ReadSound(p) ==
  p.locked /\ p.seen.status # "NONE" =>
    /\ referral[p.ord].status # "NONE"
    /\ referral[p.ord].commission = p.seen.commission
    /\ p.seen.reversed <= p.seen.commission

\* No step deletes an order or a referral, or changes what either is worth.
Lasting ==
  \A o \in OrderIds :
    /\ Exists(o) => Exists(o)' /\ orders'[o].total = orders[o].total
    /\ referral[o].status # "NONE" =>
         referral'[o].status # "NONE" /\ referral'[o].commission = referral[o].commission

RefundInv ==
  /\ Inv
  /\ refund \in [Admins -> RefundPlan]
  /\ \A a \in Admins : PlanSound(refund[a]) /\ ReadSound(refund[a])
  /\ ReversedWithinCommission

-----------------------------------------------------------------------------
(* The arithmetic of a reversal. *)

\* What an admin asks to refund, and what an order's items record as refunded,
\* are natural sums.
LEMMA CentsAreNat ==
  ASSUME NEW amount \in [Courses -> Nat]
  PROVE  Summands(amount, Courses) /\ CentsOf(amount) \in Nat
BY SumIsNat, OrdersAssumption DEF CentsOf

LEMMA CentsType ==
  ASSUME NEW amount \in Requested
  PROVE  CentsOf(amount) \in Nat
<1>1. amount \in [Courses -> Nat]
  BY RefundsAssumption DEF Requested
<1> QED
  BY <1>1, CentsAreNat

\* A reversal leaves the reversed part of a commission within the commission.
LEMMA ReversalBounded ==
  ASSUME NEW seen \in ReferralRow, NEW cents \in Nat, NEW total \in Nat, total > 0
  PROVE  /\ Reversal(seen, cents, total) \in Int
         /\ seen.reversed + Reversal(seen, cents, total) <= seen.commission
<1> DEFINE share == (2 * cents * seen.commission + total) \div (2 * total)
<1>1. seen.commission \in Nat /\ seen.reversed \in Nat
  BY DEF ReferralRow
<1>2. 2 * cents * seen.commission + total \in Nat
  BY <1>1
<1>3. 2 * total \in Nat /\ 2 * total > 0
  OBVIOUS
<1>4. share \in Int
  BY <1>2, <1>3
<1> QED
  BY <1>1, <1>4 DEF Reversal, AtMost

\* The referral and partner rows keep their types and the bound, and the referral
\* lasts, when what was read of it is `seen'.
LEMMA ReverseCommissionRows ==
  ASSUME Inv, ReversedWithinCommission, NEW o \in OrderIds, NEW cents \in Nat,
         NEW seen \in ReferralRow, orders[o].total > 0,
         seen.status # "NONE" => /\ referral[o].status # "NONE"
                                 /\ referral[o].commission = seen.commission
                                 /\ seen.reversed <= seen.commission,
         ReverseCommission(o, seen, cents)
  PROVE  /\ referral' \in [OrderIds -> ReferralRow]
         /\ partner' \in [pending : Int, total : Int, usage : Nat]
         /\ ReversedWithinCommission'
         /\ \A q \in OrderIds : referral[q].status # "NONE" =>
              /\ referral'[q].status # "NONE"
              /\ referral'[q].commission = referral[q].commission
<1>1. /\ referral \in [OrderIds -> ReferralRow] /\ orders[o].total \in Nat
      /\ partner \in [pending : Int, total : Int, usage : Nat]
  BY DEF Inv, TypeOK, RowsTypeOK, OrderRow
<1>2. seen.commission \in Nat /\ seen.reversed \in Nat
  BY DEF ReferralRow
<1>3. PICK back \in Int : back = Reversal(seen, cents, orders[o].total)
  BY <1>1, ReversalBounded
<1>4. seen.reversed + back <= seen.commission
  BY <1>1, <1>3, ReversalBounded
<1>5. ASSUME NEW row \in ReferralRow, referral' = [referral EXCEPT ![o] = row],
             row.status # "NONE", row.commission = referral[o].commission,
             row.reversed <= row.commission
      PROVE  /\ referral' \in [OrderIds -> ReferralRow]
             /\ ReversedWithinCommission'
             /\ \A q \in OrderIds : referral[q].status # "NONE" =>
                  /\ referral'[q].status # "NONE"
                  /\ referral'[q].commission = referral[q].commission
  BY <1>1, <1>5 DEF ReversedWithinCommission
<1>6. CASE seen.status = "PENDING"
  <2>1. PICK row : row = [referral[o] EXCEPT !.status = "REVERSED",
                                             !.reversed = seen.reversed]
    OBVIOUS
  <2>2. referral' = [referral EXCEPT ![o] = row] /\ UNCHANGED partner
    BY <1>1, <1>6, <2>1 DEF ReverseCommission
  <2>3. /\ row \in ReferralRow /\ row.status # "NONE"
        /\ row.commission = referral[o].commission /\ row.reversed <= row.commission
    BY <1>1, <1>2, <1>6, <2>1 DEF ReferralRow
  <2> QED
    BY <1>1, <1>5, <2>2, <2>3
<1>7. CASE seen.status \in {"CONFIRMED", "PAID"} /\ back > 0
  <2>1. PICK sofar \in Nat : sofar = seen.reversed + back
    BY <1>2, <1>7
  <2>2. PICK st \in {"CONFIRMED", "PAID", "REVERSED"} :
          st = IF sofar >= seen.commission THEN "REVERSED" ELSE seen.status
    BY <1>7
  <2>3. PICK row : row = [referral[o] EXCEPT !.reversed = sofar, !.status = st]
    OBVIOUS
  <2>4. /\ referral' = [referral EXCEPT ![o].reversed = sofar, ![o].status = st]
        /\ partner' = [pending |-> partner.pending
                                     - (IF seen.status = "PAID" THEN 0 ELSE back),
                       total |-> partner.total - back, usage |-> partner.usage]
    BY <1>3, <1>7, <2>1, <2>2 DEF ReverseCommission
  <2>5. referral' = [referral EXCEPT ![o] = row]
    BY <1>1, <2>3, <2>4
  <2>6. /\ row \in ReferralRow /\ row.status # "NONE"
        /\ row.commission = referral[o].commission /\ row.reversed <= row.commission
    BY <1>1, <1>4, <1>7, <2>1, <2>2, <2>3 DEF ReferralRow
  <2>7. partner' \in [pending : Int, total : Int, usage : Nat]
    BY <1>1, <2>4
  <2> QED
    BY <1>5, <2>5, <2>6, <2>7
<1>8. CASE UNCHANGED <<referral, partner>>
  BY <1>1, <1>8 DEF ReversedWithinCommission
<1>9. \/ seen.status = "PENDING"
      \/ seen.status \in {"CONFIRMED", "PAID"} /\ back > 0
      \/ UNCHANGED <<referral, partner>>
  BY <1>3 DEF ReverseCommission
<1> QED
  BY <1>6, <1>7, <1>8, <1>9

-----------------------------------------------------------------------------
(* The steps of Checkout, seen from the plans and the referrals. *)

\* What lasts keeps every plan sound.
LEMMA PlansStaySound ==
  ASSUME Lasting, NEW p, p \in RefundPlan, PlanSound(p), ReadSound(p)
  PROVE  PlanSound(p)' /\ ReadSound(p)'
<1>1. CASE p.ord \in OrderIds
  BY <1>1 DEF Lasting, PlanSound, ReadSound
<1>2. CASE p.ord \notin OrderIds
  BY <1>2 DEF PlanSound, ReadSound, NoPlan
<1> QED
  BY <1>1, <1>2

LEMMA TransactionKeepsPlans ==
  ASSUME RefundInv, NEW o \in OrderIds, Transaction(o)
  PROVE  Lasting /\ ReversedWithinCommission'
<1>1. orders \in [OrderIds -> OrderRow] /\ referral \in [OrderIds -> ReferralRow]
  BY DEF RefundInv, Inv, TypeOK, RowsTypeOK
<1>2. ReversedWithinCommission
  BY DEF RefundInv
<1>3. CASE MarkFailedIfPending(o) \/ SaveProviderRef(o) \/ FulfilTx(o)
  BY <1>1, <1>2, <1>3
  DEF MarkFailedIfPending, SaveProviderRef, FulfilTx, Exists, OrderRow,
      ReversedWithinCommission, Lasting
<1>4. CASE CreateReferral(o)
  <2>1. orders[o].total \in Nat
    BY <1>1 DEF OrderRow
  <2>2. PICK due \in Nat : due = Commission(orders[o].total)
    BY <2>1, CommissionType
  <2>3. Lasting
    BY <1>1, <1>4 DEF CreateReferral, Exists, OrderRow, Lasting
  <2>4. ReversedWithinCommission'
    BY <1>1, <1>2, <1>4, <2>2 DEF CreateReferral, ReversedWithinCommission
  <2> QED
    BY <2>3, <2>4
<1>5. CASE ConfirmReferralTx(o)
  BY <1>1, <1>2, <1>5
  DEF ConfirmReferralTx, Exists, ReversedWithinCommission, ReferralRow, Lasting
<1>6. CASE \E S \in SUBSET Courses, gw \in Gateways \cup {"none"},
              key \in Keys \cup {NoKey},
              q \in [code : Codes, credit : Nat, total : Nat] :
             ~ Exists(o) /\ CreatePending(o, S, gw, key, q)
  BY <1>1, <1>2, <1>6 DEF CreatePending, Exists, ReversedWithinCommission, Lasting
<1> QED
  BY <1>3, <1>4, <1>5, <1>6 DEF Transaction

LEMMA CheckoutStepInv ==
  ASSUME RefundInv, CheckoutStep
  PROVE  RefundInv'
<1>1. Next /\ UNCHANGED refund /\ Inv
  BY DEF CheckoutStep, RefundInv
<1>2. Inv'
  BY <1>1, InvNext
<1>3. Lasting /\ ReversedWithinCommission'
  <2>1. CASE UNCHANGED rows
    BY <2>1 DEF RefundInv, Lasting, Exists, ReversedWithinCommission, rows
  <2>2. ASSUME NEW o \in OrderIds, Transaction(o)
        PROVE  Lasting /\ ReversedWithinCommission'
    BY <2>2, TransactionKeepsPlans
  <2> QED
    BY <1>1, <2>1, <2>2, StepIsTransaction
<1>4. ASSUME NEW a \in Admins PROVE PlanSound(refund[a])' /\ ReadSound(refund[a])'
  <2>1. PICK p : p = refund[a]
    OBVIOUS
  <2>2. PlanSound(p)' /\ ReadSound(p)'
    BY <1>3, <2>1, PlansStaySound DEF RefundInv
  <2> QED
    BY <1>1, <2>1, <2>2 DEF PlanSound, ReadSound, Exists
<1> QED
  BY <1>1, <1>2, <1>3, <1>4 DEF RefundInv

-----------------------------------------------------------------------------
(* The steps of an admin. *)

LEMMA NoReferralType == NoReferral \in ReferralRow
BY DEF NoReferral, ReferralRow

LEMMA PlanType ==
  ASSUME Inv, NEW o \in OrderIds, NEW amount \in Requested
  PROVE  PlanOf(o, amount) \in RefundPlan /\ PlanOf(o, amount).ord = o
         /\ PlanOf(o, amount).status # "NONE" /\ ~ PlanOf(o, amount).locked
<1>1. orders[o].refunded \in Nat /\ CentsOf(amount) \in Nat
  BY CentsType DEF Inv, TypeOK, RowsTypeOK, OrderRow
<1> QED
  BY <1>1, NoReferralType DEF PlanOf, PlanUpTo, StatusAfter, RefundPlan

LEMMA NoPlanType == NoPlan \in RefundPlan /\ PlanSound(NoPlan)' /\ ReadSound(NoPlan)'
<1>1. NoPlan \in RefundPlan
  BY RefundsAssumption, NoReferralType DEF NoPlan, RefundPlan, Requested
<1> QED
  BY <1>1 DEF PlanSound, ReadSound, NoPlan

\* An admin's step that leaves the rows as they are only has to leave its own plan
\* sound.
LEMMA PlanStepInv ==
  ASSUME RefundInv, UNCHANGED vars, NEW a \in Admins, NEW p \in RefundPlan,
         PlanSound(p), ReadSound(p), refund' = [refund EXCEPT ![a] = p]
  PROVE  RefundInv'
<1>1. Inv' /\ ReversedWithinCommission' /\ Lasting
  BY InvNext DEF RefundInv, ReversedWithinCommission, Lasting, Exists, vars, rows
<1>2. refund \in [Admins -> RefundPlan]
  BY DEF RefundInv
<1>3. ASSUME NEW b \in Admins PROVE PlanSound(refund[b])' /\ ReadSound(refund[b])'
  <2>1. PICK q : q = refund'[b]
    OBVIOUS
  <2>2. q \in RefundPlan /\ PlanSound(q) /\ ReadSound(q)
    BY <1>2, <2>1 DEF RefundInv
  <2>3. PlanSound(q)' /\ ReadSound(q)'
    BY <1>1, <2>2, PlansStaySound
  <2> QED
    BY <2>1, <2>3 DEF PlanSound, ReadSound, Exists
<1> QED
  BY <1>1, <1>2, <1>3 DEF RefundInv

LEMMA MakePlanInv ==
  ASSUME RefundInv, NEW a \in Admins, NEW o \in OrderIds, NEW amount \in Requested,
         MakePlan(a, o, amount)
  PROVE  RefundInv'
<1>1. Inv
  BY DEF RefundInv
<1>2. PICK p : p = PlanOf(o, amount)
  OBVIOUS
<1>3. p \in RefundPlan /\ p.ord = o /\ p.status # "NONE" /\ ~ p.locked
  BY <1>1, <1>2, PlanType
<1>4. orders[o].total > 0 /\ Exists(o)
  <2>1. /\ orders[o].total \in Nat /\ orders[o].credit \in Nat
        /\ orders[o].refunded \in Nat /\ CentsOf(amount) \in Nat
    BY <1>1, CentsType DEF Inv, TypeOK, RowsTypeOK, OrderRow
  <2> QED
    BY <2>1 DEF MakePlan, RefundableTotal, Exists
<1>5. PlanSound(p) /\ ReadSound(p)
  BY <1>3, <1>4 DEF PlanSound, ReadSound
<1>6. UNCHANGED vars /\ refund' = [refund EXCEPT ![a] = p]
  BY <1>2 DEF MakePlan
<1> QED
  BY <1>3, <1>5, <1>6, PlanStepInv

LEMMA BeginRefundTxInv ==
  ASSUME RefundInv, NEW a \in Admins, BeginRefundTx(a)
  PROVE  RefundInv'
<1>1. refund \in [Admins -> RefundPlan] /\ PlanSound(refund[a]) /\ refund[a] # NoPlan
  BY DEF RefundInv, BeginRefundTx
<1>2. PICK o \in OrderIds : o = refund[a].ord
  BY <1>1 DEF PlanSound
<1>3. /\ referral[o] \in ReferralRow
      /\ referral[o].reversed <= referral[o].commission
  BY DEF RefundInv, Inv, TypeOK, RowsTypeOK, ReversedWithinCommission
<1>4. PICK p : p = [refund[a] EXCEPT !.locked = TRUE, !.seen = referral[o]]
  OBVIOUS
<1>5. /\ p \in RefundPlan /\ p.ord = o /\ p.status = refund[a].status
      /\ p.seen = referral[o]
  <2>1. PICK q : q = [refund[a] EXCEPT !.locked = TRUE]
    OBVIOUS
  <2>2. q \in RefundPlan /\ q.ord = o /\ q.status = refund[a].status
    BY <1>1, <1>2, <2>1 DEF RefundPlan
  <2>3. p = [q EXCEPT !.seen = referral[o]]
    BY <1>4, <2>1
  <2> QED
    BY <1>3, <2>2, <2>3 DEF RefundPlan
<1>6. PlanSound(p) /\ ReadSound(p)
  BY <1>1, <1>2, <1>3, <1>5 DEF PlanSound, ReadSound
<1>7. UNCHANGED vars /\ refund' = [refund EXCEPT ![a] = p]
  BY <1>1, <1>2, <1>4 DEF BeginRefundTx
<1> QED
  BY <1>5, <1>6, <1>7, PlanStepInv

LEMMA DropRefundInv ==
  ASSUME RefundInv, NEW a \in Admins, DropRefund(a)
  PROVE  RefundInv'
<1>1. NoPlan \in RefundPlan /\ PlanSound(NoPlan) /\ ReadSound(NoPlan)
  BY NoPlanType DEF PlanSound, ReadSound, NoPlan
<1> QED
  BY <1>1, PlanStepInv DEF DropRefund

LEMMA CommitRefundInv ==
  ASSUME RefundInv, NEW a \in Admins, CommitRefund(a)
  PROVE  RefundInv'
<1>1. PICK p : p = refund[a]
  OBVIOUS
<1>2. PICK o \in OrderIds : o = p.ord
  <2>1. p # NoPlan
    BY <1>1 DEF CommitRefund, NoPlan
  <2> QED
    BY <1>1, <2>1 DEF RefundInv, PlanSound
<1>3. /\ p \in RefundPlan /\ p.locked /\ Exists(o) /\ orders[o].total > 0
      /\ p.status \in {"PARTIALLY_REFUNDED", "REFUNDED"}
  <2>1. p # NoPlan /\ p.locked
    BY <1>1 DEF CommitRefund, NoPlan
  <2> QED
    BY <1>1, <1>2, <2>1 DEF RefundInv, PlanSound, RefundPlan
<1>4. PICK cents \in Nat : cents = CentsOf(p.amount)
  BY <1>3, CentsType DEF RefundPlan
<1>5. /\ itemRefunded' = [itemRefunded EXCEPT ![o] = [c \in Courses |-> @[c] + p.amount[c]]]
      /\ revenue' = [c \in Courses |-> revenue[c] - p.amount[c]]
      /\ students' = [c \in Courses |-> IF c \in p.full THEN students[c] - 1
                                                        ELSE students[c]]
      /\ orders' = [orders EXCEPT ![o].status = p.status, ![o].refunded = p.refunded]
      /\ spent' = spent - cents
      /\ enrolled' = enrolled \ p.full
      /\ ReverseCommission(o, p.seen, cents)
      /\ balance' = balance + cents
      /\ refund' = [refund EXCEPT ![a] = NoPlan]
      /\ UNCHANGED <<redeemed, session, recorded, handler>>
  BY <1>1, <1>2, <1>4 DEF CommitRefund
<1>6. /\ RowsTypeOK /\ Inv /\ ReversedWithinCommission /\ refund \in [Admins -> RefundPlan]
      /\ RowsInv
  BY DEF RefundInv, Inv, TypeOK
<1>7. /\ p.amount \in [Courses -> Nat] /\ p.refunded \in Nat /\ p.full \subseteq Courses
  BY <1>3, RefundsAssumption DEF RefundPlan, Requested
<1>8. /\ \A q \in OrderIds :
           /\ orders'[q].items = orders[q].items /\ orders'[q].key = orders[q].key
           /\ orders'[q].total = orders[q].total
           /\ q # o => orders'[q] = orders[q]
      /\ orders'[o].status = p.status
      /\ orders' \in [OrderIds -> OrderRow]
  <2>1. orders \in [OrderIds -> OrderRow]
    BY <1>6 DEF RowsTypeOK
  <2>2. PICK row : row = [orders[o] EXCEPT !.status = p.status, !.refunded = p.refunded]
    OBVIOUS
  <2>3. orders' = [orders EXCEPT ![o] = row]
    BY <1>5, <2>1, <2>2
  <2>4. /\ row \in OrderRow /\ row.status = p.status /\ row.items = orders[o].items
        /\ row.key = orders[o].key /\ row.total = orders[o].total
    BY <1>3, <1>7, <2>1, <2>2 DEF OrderRow, Status
  <2> QED
    BY <2>1, <2>3, <2>4
<1>9. Monotone
  BY <1>3, <1>5, <1>8 DEF Monotone, Exists, Completed, Captured, Outstanding, Paid, Owing
<1>10. /\ referral' \in [OrderIds -> ReferralRow]
       /\ partner' \in [pending : Int, total : Int, usage : Nat]
       /\ ReversedWithinCommission'
       /\ Lasting
  <2>1. PICK seen \in ReferralRow : seen = p.seen
    BY <1>3 DEF RefundPlan
  <2>2. seen.status # "NONE" => /\ referral[o].status # "NONE"
                                /\ referral[o].commission = seen.commission
                                /\ seen.reversed <= seen.commission
    BY <1>1, <1>2, <1>3, <2>1 DEF RefundInv, ReadSound
  <2>3. /\ referral' \in [OrderIds -> ReferralRow]
        /\ partner' \in [pending : Int, total : Int, usage : Nat]
        /\ ReversedWithinCommission'
        /\ \A q \in OrderIds : referral[q].status # "NONE" =>
             /\ referral'[q].status # "NONE"
             /\ referral'[q].commission = referral[q].commission
    BY <1>3, <1>5, <1>6, <2>1, <2>2, ReverseCommissionRows
  <2> QED
    BY <1>8, <1>9, <2>3 DEF Lasting, Monotone
<1>11. RowsTypeOK'
  <2>1. itemRefunded' \in [OrderIds -> [Courses -> Nat]]
    BY <1>5, <1>6, <1>7 DEF RowsTypeOK
  <2>2. revenue' \in [Courses -> Int] /\ students' \in [Courses -> Int]
    BY <1>5, <1>6, <1>7 DEF RowsTypeOK
  <2>3. spent' \in Int /\ balance' \in Int /\ enrolled' \subseteq Courses
        /\ redeemed' \subseteq OrderIds
    BY <1>5, <1>6 DEF RowsTypeOK
  <2> QED
    BY <1>8, <1>10, <2>1, <2>2, <2>3 DEF RowsTypeOK
<1>12. AccessIsBacked'
  <2> SUFFICES ASSUME NEW c \in enrolled'
               PROVE  \E q \in OrderIds : /\ c \in orders'[q].items
                                          /\ Settled(q)' /\ Completed(q)'
    BY DEF AccessIsBacked
  <2>1. PICK q \in OrderIds : c \in orders[q].items /\ Settled(q) /\ Completed(q)
    BY <1>5, <1>6 DEF RowsInv, AccessIsBacked
  <2>2. Settled(q)'
    BY <1>3, <1>8, <2>1 DEF Settled
  <2> QED
    BY <1>8, <1>9, <2>1, <2>2 DEF Monotone
<1>13. OneOrderPerKey'
  BY <1>3, <1>6, <1>8 DEF RowsInv, OneOrderPerKey, Exists
<1>14. CreditNeverOverdrawn'
  BY <1>5, <1>6 DEF RowsTypeOK, RowsInv, CreditNeverOverdrawn
<1>15. \A h \in Handlers : Sound(handler[h])'
  BY <1>5, <1>6, <1>9, StillSound
<1>16. TypeOK' /\ OnlyForOrders'
  BY <1>5, <1>6, <1>9, <1>11 DEF Inv, TypeOK, OnlyForOrders, Monotone
<1>17. Inv'
  BY <1>11, <1>12, <1>13, <1>14, <1>15, <1>16 DEF Inv, RowsInv
<1>18. ASSUME NEW b \in Admins PROVE PlanSound(refund[b])' /\ ReadSound(refund[b])'
  <2>1. CASE b = a
    <3>1. refund'[b] = NoPlan
      BY <1>5, <1>6, <2>1
    <3> QED
      BY <3>1 DEF PlanSound, ReadSound, NoPlan
  <2>2. CASE b # a
    <3>1. PICK q : q = refund[b]
      OBVIOUS
    <3>2. refund'[b] = q
      BY <1>5, <1>6, <2>2, <3>1
    <3>3. PlanSound(q)' /\ ReadSound(q)'
      BY <1>6, <1>10, <3>1, PlansStaySound DEF RefundInv
    <3> QED
      BY <3>2, <3>3 DEF PlanSound, ReadSound, Exists
  <2> QED
    BY <2>1, <2>2
<1>19. refund' \in [Admins -> RefundPlan]
  BY <1>5, <1>6, NoPlanType
<1> QED
  BY <1>10, <1>17, <1>18, <1>19 DEF RefundInv

-----------------------------------------------------------------------------
(* The invariant, and the properties it implies. *)

LEMMA RefundInvInit == RefundInit => RefundInv
<1> SUFFICES ASSUME RefundInit PROVE RefundInv
  OBVIOUS
<1>1. Inv
  BY InvInit DEF RefundInit
<1>2. ReversedWithinCommission
  BY DEF RefundInit, Init, RowsInit, NoReferral, ReversedWithinCommission
<1> QED
  BY <1>1, <1>2, NoPlanType DEF RefundInit, RefundInv, PlanSound, ReadSound, NoPlan

LEMMA RefundInvNext == RefundInv /\ [RefundNext]_refundVars => RefundInv'
<1> SUFFICES ASSUME RefundInv, [RefundNext]_refundVars PROVE RefundInv'
  OBVIOUS
<1>1. CASE CheckoutStep
  BY <1>1, CheckoutStepInv
<1>2. CASE \E a \in Admins : RefundStep(a)
  BY <1>2, MakePlanInv, BeginRefundTxInv, CommitRefundInv, DropRefundInv DEF RefundStep
<1>3. CASE UNCHANGED refundVars
  <2>1. [Next]_vars /\ Inv /\ UNCHANGED vars /\ UNCHANGED refund
    BY <1>3 DEF refundVars, RefundInv
  <2>2. Inv'
    BY <2>1, InvNext
  <2> QED
    BY <2>1, <2>2
    DEF RefundInv, PlanSound, ReadSound, Exists, ReversedWithinCommission, vars, rows
<1> QED
  BY <1>1, <1>2, <1>3 DEF RefundNext

THEOREM RefundInvAlways == RefundSpec => []RefundInv
BY RefundInvInit, RefundInvNext, PTL DEF RefundSpec

\* Types, the plans in flight included.
THEOREM RefundTypeCorrect == RefundSpec => []RefundTypeOK
<1>1. RefundInv => RefundTypeOK
  BY DEF RefundInv, Inv, RefundTypeOK
<1> QED
  BY <1>1, RefundInvAlways, PTL

\* However many admins refund an order, and however stale their plans, no more of
\* a partner's commission is reversed than the order earned.
THEOREM ReversalsStayWithinCommission == RefundSpec => []ReversedWithinCommission
<1>1. RefundInv => ReversedWithinCommission
  BY DEF RefundInv
<1> QED
  BY <1>1, RefundInvAlways, PTL

\* Access still goes back to a fulfilled order with a completed payment when orders are
\* refunded while their payments and fulfilments are under way.
THEOREM AccessIsAlwaysBacked == RefundSpec => []AccessIsBacked
<1>1. RefundInv => AccessIsBacked
  BY DEF RefundInv, Inv, RowsInv
<1> QED
  BY <1>1, RefundInvAlways, PTL

\* Refunds into the ledger leave it non-negative, beside the debits of checkouts
\* quoted before them.
THEOREM CreditIsNeverOverdrawnByRefunds == RefundSpec => []CreditNeverOverdrawn
<1>1. RefundInv => CreditNeverOverdrawn
  BY DEF RefundInv, Inv, RowsInv
<1> QED
  BY <1>1, RefundInvAlways, PTL

-----------------------------------------------------------------------------
(* The books: an order's total, against what its items record. *)

\* A plan claims no more than its order's items will record when it commits.
PlanCovered(p) ==
  p # NoPlan => p.refunded <= CentsOf(itemRefunded[p.ord]) + CentsOf(p.amount)

NewIsUnrefunded == \A o \in OrderIds : ~ Exists(o) => orders[o].refunded = 0

Books ==
  /\ NewIsUnrefunded
  /\ RefundsNeverOverstated
  /\ \A a \in Admins : PlanCovered(refund[a])

\* The recorded refunds of every order are natural sums.
LEMMA RecordedAreNat ==
  ASSUME RefundInv, NEW o \in OrderIds
  PROVE  /\ itemRefunded[o] \in [Courses -> Nat] /\ CentsOf(itemRefunded[o]) \in Nat
         /\ Summands(itemRefunded[o], Courses) /\ orders[o].refunded \in Nat
<1>1. itemRefunded[o] \in [Courses -> Nat] /\ orders[o].refunded \in Nat
  BY DEF RefundInv, Inv, RowsInv, RowsTypeOK, OrderRow
<1> QED
  BY <1>1, CentsAreNat

\* Checkouts and fulfilments leave the books alone.
LEMMA CheckoutKeepsBooks ==
  ASSUME RefundInv, NewIsUnrefunded, CheckoutStep
  PROVE  /\ UNCHANGED <<itemRefunded, refund>>
         /\ \A o \in OrderIds : orders'[o].refunded = orders[o].refunded
         /\ NewIsUnrefunded'
<1>1. Next /\ Inv /\ UNCHANGED refund /\ orders \in [OrderIds -> OrderRow]
  BY DEF CheckoutStep, RefundInv, Inv, RowsInv, RowsTypeOK
<1>2. ASSUME UNCHANGED rows
      PROVE  /\ UNCHANGED itemRefunded
             /\ \A q \in OrderIds : /\ orders'[q].refunded = orders[q].refunded
                                    /\ Exists(q) => Exists(q)'
  BY <1>2 DEF rows, Exists
<1>3. ASSUME NEW o \in OrderIds, Transaction(o)
      PROVE  /\ UNCHANGED itemRefunded
             /\ \A q \in OrderIds : /\ orders'[q].refunded = orders[q].refunded
                                    /\ Exists(q) => Exists(q)'
  BY <1>1, <1>3
  DEF Transaction, MarkFailedIfPending, SaveProviderRef, CreateReferral, FulfilTx,
      ConfirmReferralTx, CreatePending, OrderRow, Exists, NewIsUnrefunded
<1>4. UNCHANGED rows \/ \E o \in OrderIds : Transaction(o)
  BY <1>1, StepIsTransaction
<1>5. /\ UNCHANGED itemRefunded
      /\ \A q \in OrderIds : /\ orders'[q].refunded = orders[q].refunded
                             /\ Exists(q) => Exists(q)'
  BY <1>2, <1>3, <1>4
<1>6. NewIsUnrefunded'
  BY <1>5 DEF NewIsUnrefunded, Exists
<1> QED
  BY <1>1, <1>5, <1>6

\* What a refund's transaction writes into the books.
LEMMA CommitBooks ==
  ASSUME RefundInv, NEW a \in Admins, CommitRefund(a), NEW p, p = refund[a]
  PROVE  /\ p \in RefundPlan /\ p # NoPlan /\ p.ord \in OrderIds /\ Exists(p.ord)
         /\ p.amount \in [Courses -> Nat]
         /\ \A o \in OrderIds :
              IF o = p.ord
              THEN /\ orders'[o].refunded = p.refunded /\ orders'[o].status # "NONE"
                   /\ \A c \in Courses :
                        itemRefunded'[o][c] = itemRefunded[o][c] + p.amount[c]
                   /\ CentsOf(itemRefunded'[o]) = CentsOf(itemRefunded[o]) + CentsOf(p.amount)
              ELSE orders'[o] = orders[o] /\ itemRefunded'[o] = itemRefunded[o]
         /\ refund' = [refund EXCEPT ![a] = NoPlan]
<1>1. p \in RefundPlan /\ p # NoPlan
  BY DEF RefundInv, CommitRefund, NoPlan
<1>2. p.ord \in OrderIds /\ Exists(p.ord) /\ p.status # "NONE"
  BY <1>1 DEF RefundInv, PlanSound
<1>3. p.amount \in [Courses -> Nat]
  BY <1>1, RefundsAssumption DEF RefundPlan, Requested
<1>4. /\ itemRefunded' = [itemRefunded EXCEPT
                             ![p.ord] = [c \in Courses |-> @[c] + p.amount[c]]]
      /\ orders' = [orders EXCEPT ![p.ord].status = p.status, ![p.ord].refunded = p.refunded]
      /\ refund' = [refund EXCEPT ![a] = NoPlan]
  BY DEF CommitRefund
<1>5. /\ orders \in [OrderIds -> OrderRow]
      /\ itemRefunded \in [OrderIds -> [Courses -> Nat]]
  BY DEF RefundInv, Inv, RowsInv, RowsTypeOK
<1>6. \A c \in Courses :
        itemRefunded'[p.ord][c] = itemRefunded[p.ord][c] + p.amount[c]
  BY <1>2, <1>4, <1>5
<1>7. CentsOf(itemRefunded'[p.ord]) = CentsOf(itemRefunded[p.ord]) + CentsOf(p.amount)
  <2>1. Summands(itemRefunded[p.ord], Courses) /\ Summands(p.amount, Courses)
    BY <1>2, <1>3, RecordedAreNat, CentsAreNat
  <2> QED
    BY <1>6, <2>1, SumAdds DEF CentsOf
<1>8. orders'[p.ord].refunded = p.refunded /\ orders'[p.ord].status = p.status
  BY <1>2, <1>4, <1>5 DEF OrderRow
<1>9. \A o \in OrderIds \ {p.ord} :
        orders'[o] = orders[o] /\ itemRefunded'[o] = itemRefunded[o]
  BY <1>4, <1>5
<1> QED
  BY <1>1, <1>2, <1>3, <1>4, <1>6, <1>7, <1>8, <1>9

\* An admin's step that leaves the rows alone only has to leave its own plan covered.
LEMMA PlanStepBooks ==
  ASSUME RefundInv, Books, UNCHANGED vars, NEW a \in Admins, NEW p, PlanCovered(p),
         refund' = [refund EXCEPT ![a] = p]
  PROVE  Books'
<1>1. UNCHANGED <<orders, itemRefunded>>
  BY DEF vars, rows
<1>2. \A b \in Admins : refund'[b] = IF b = a THEN p ELSE refund[b]
  BY DEF RefundInv
<1> QED
  BY <1>1, <1>2
  DEF Books, NewIsUnrefunded, RefundsNeverOverstated, PlanCovered, Exists, CentsOf

LEMMA MakePlanBooks ==
  ASSUME RefundInv, Books, NEW a \in Admins, NEW o \in OrderIds,
         NEW amount \in Requested, MakePlan(a, o, amount)
  PROVE  Books'
<1>1. PICK p : p = PlanOf(o, amount)
  OBVIOUS
<1>2. /\ p.ord = o /\ p.amount = amount
      /\ p.refunded = orders[o].refunded + CentsOf(amount)
  BY <1>1 DEF PlanOf, PlanUpTo
<1>3. PlanCovered(p)
  <2>1. orders[o].refunded <= CentsOf(itemRefunded[o])
    BY DEF Books, RefundsNeverOverstated
  <2>2. /\ orders[o].refunded \in Nat /\ CentsOf(itemRefunded[o]) \in Nat
        /\ CentsOf(amount) \in Nat
    BY RecordedAreNat, CentsType
  <2> QED
    BY <1>2, <2>1, <2>2 DEF PlanCovered
<1> QED
  BY <1>1, <1>3, PlanStepBooks DEF MakePlan

LEMMA CommitRefundBooks ==
  ASSUME RefundInv, Books, NEW a \in Admins, CommitRefund(a)
  PROVE  Books'
<1>1. PICK p : p = refund[a]
  OBVIOUS
<1>2. /\ p \in RefundPlan /\ p # NoPlan /\ p.ord \in OrderIds /\ Exists(p.ord)
      /\ p.amount \in [Courses -> Nat]
      /\ \A o \in OrderIds :
           IF o = p.ord
           THEN /\ orders'[o].refunded = p.refunded /\ orders'[o].status # "NONE"
                /\ CentsOf(itemRefunded'[o]) = CentsOf(itemRefunded[o]) + CentsOf(p.amount)
           ELSE orders'[o] = orders[o] /\ itemRefunded'[o] = itemRefunded[o]
      /\ refund' = [refund EXCEPT ![a] = NoPlan]
  BY <1>1, CommitBooks
<1>3. CentsOf(p.amount) \in Nat
  BY <1>2, CentsAreNat
<1>4. \A o \in OrderIds :
        /\ CentsOf(itemRefunded[o]) \in Nat /\ CentsOf(itemRefunded'[o]) \in Nat
        /\ CentsOf(itemRefunded[o]) <= CentsOf(itemRefunded'[o])
  BY <1>2, <1>3, RecordedAreNat
<1>5. NewIsUnrefunded'
  BY <1>2 DEF Books, NewIsUnrefunded, Exists
<1>6. RefundsNeverOverstated'
  <2> SUFFICES ASSUME NEW o \in OrderIds
               PROVE  orders'[o].refunded <= CentsOf(itemRefunded'[o])
    BY DEF RefundsNeverOverstated, CentsOf
  <2>1. orders[o].refunded <= CentsOf(itemRefunded[o])
    BY DEF Books, RefundsNeverOverstated
  <2>2. p.refunded <= CentsOf(itemRefunded[p.ord]) + CentsOf(p.amount)
    BY <1>1, <1>2 DEF Books, PlanCovered
  <2> QED
    BY <1>2, <2>1, <2>2
<1>7. ASSUME NEW b \in Admins PROVE PlanCovered(refund[b])'
  <2>1. PICK q : q = refund[b]
    OBVIOUS
  <2>2. refund'[b] = IF b = a THEN NoPlan ELSE q
    BY <1>2, <2>1 DEF RefundInv
  <2>3. ASSUME q # NoPlan
        PROVE  q.refunded <= CentsOf(itemRefunded'[q.ord]) + CentsOf(q.amount)
    <3>1. /\ q \in RefundPlan /\ q.ord \in OrderIds
          /\ q.refunded <= CentsOf(itemRefunded[q.ord]) + CentsOf(q.amount)
      BY <2>1, <2>3 DEF RefundInv, PlanSound, Books, PlanCovered
    <3>2. CentsOf(q.amount) \in Nat /\ q.refunded \in Nat
      BY <3>1, CentsType DEF RefundPlan
    <3> QED
      BY <1>4, <3>1, <3>2
  <2> QED
    BY <2>2, <2>3 DEF PlanCovered, CentsOf
<1> QED
  BY <1>5, <1>6, <1>7 DEF Books

LEMMA BooksNext ==
  ASSUME RefundInv, Books, [RefundNext]_refundVars
  PROVE  Books'
<1>1. CASE CheckoutStep
  <2>1. /\ UNCHANGED <<itemRefunded, refund>> /\ NewIsUnrefunded'
        /\ \A o \in OrderIds : orders'[o].refunded = orders[o].refunded
    BY <1>1, CheckoutKeepsBooks DEF Books
  <2> QED
    BY <2>1 DEF Books, RefundsNeverOverstated, PlanCovered, CentsOf
<1>2. ASSUME NEW a \in Admins, BeginRefundTx(a) PROVE Books'
  <2>1. PICK o : o = refund[a].ord
    OBVIOUS
  <2>2. PICK p : p = [refund[a] EXCEPT !.locked = TRUE, !.seen = referral[o]]
    OBVIOUS
  <2>3. refund[a] \in RefundPlan /\ refund[a] # NoPlan /\ PlanCovered(refund[a])
    BY <1>2 DEF RefundInv, Books, BeginRefundTx
  <2>4. /\ p.ord = refund[a].ord /\ p.amount = refund[a].amount
        /\ p.refunded = refund[a].refunded
    BY <2>2, <2>3 DEF RefundPlan
  <2>5. PlanCovered(p)
    BY <2>3, <2>4 DEF PlanCovered
  <2>6. UNCHANGED vars /\ refund' = [refund EXCEPT ![a] = p]
    BY <1>2, <2>1, <2>2 DEF BeginRefundTx, RefundInv
  <2> QED
    BY <2>5, <2>6, PlanStepBooks
<1>3. ASSUME NEW a \in Admins, DropRefund(a) PROVE Books'
  <2>1. PlanCovered(NoPlan)
    BY DEF PlanCovered
  <2> QED
    BY <1>3, <2>1, PlanStepBooks DEF DropRefund
<1>4. CASE \E a \in Admins : RefundStep(a)
  BY <1>2, <1>3, <1>4, MakePlanBooks, CommitRefundBooks DEF RefundStep
<1>5. CASE UNCHANGED refundVars
  BY <1>5 DEF Books, NewIsUnrefunded, RefundsNeverOverstated, PlanCovered, Exists,
              CentsOf, refundVars, vars, rows
<1> QED
  BY <1>1, <1>4, <1>5 DEF RefundNext

LEMMA BooksInit == RefundInit => Books
<1> SUFFICES ASSUME RefundInit PROVE Books
  OBVIOUS
<1>1. \A o \in OrderIds : orders[o].refunded = 0 /\ itemRefunded[o] \in [Courses -> Nat]
  BY DEF RefundInit, Init, RowsInit, NoOrder
<1>2. \A o \in OrderIds : CentsOf(itemRefunded[o]) \in Nat
  BY <1>1, CentsAreNat
<1> QED
  BY <1>1, <1>2
  DEF RefundInit, Books, NewIsUnrefunded, RefundsNeverOverstated, PlanCovered

THEOREM BooksAlways == RefundSpec => []Books
BY BooksInit, BooksNext, RefundInvAlways, PTL DEF RefundSpec

\* Refunds that overwrite each other's total can lose money from it, never add any:
\* an order claims to have returned no more than its items record
\* (buildRefundPlan's absolute total, applyRefundToLedger's increments).
THEOREM RefundsAreNeverOverstated == RefundSpec => []RefundsNeverOverstated
<1>1. Books => RefundsNeverOverstated
  BY DEF Books
<1> QED
  BY <1>1, BooksAlways, PTL

-----------------------------------------------------------------------------
(* The partner's lifetime total, against what the referrals let him keep. *)

KeptOf(row) == IF row.status \in {"CONFIRMED", "PAID"}
               THEN row.commission - row.reversed ELSE 0

\* Until the transaction that has read a referral ends, nobody else reverses it, and
\* it is not closed when it was confirmed.
ReadLasts(p) ==
  p.locked /\ p.seen.status # "NONE" =>
    /\ referral[p.ord].reversed = p.seen.reversed
    /\ p.seen.status \in {"CONFIRMED", "PAID"} => referral[p.ord].status \in {"CONFIRMED", "PAID"}

OneLockPerOrder ==
  \A a, b \in Admins :
    refund[a].locked /\ refund[b].locked /\ refund[a].ord = refund[b].ord => a = b

PartnerInv ==
  /\ OneLockPerOrder
  /\ \A a \in Admins : ReadLasts(refund[a])
  /\ PartnerNotShortChanged

\* What the partner keeps of a referral is a natural number of cents.
LEMMA KeptIsNat ==
  ASSUME NEW row \in ReferralRow, row.reversed <= row.commission
  PROVE  KeptOf(row) \in Nat /\ KeptOf(row) <= row.commission
<1>1. row.commission \in Nat /\ row.reversed \in Nat
  BY DEF ReferralRow
<1> QED
  BY <1>1 DEF KeptOf

\* A step that changes one referral is fair to the partner when his total follows it.
LEMMA KeptChanges ==
  ASSUME RefundInv, RefundInv', NEW o \in OrderIds,
         \A q \in OrderIds : q # o => referral'[q] = referral[q],
         partner'.total + KeptOf(referral[o]) >= partner.total + KeptOf(referral'[o]),
         PartnerNotShortChanged
  PROVE  PartnerNotShortChanged'
<1> DEFINE f == [q \in OrderIds |-> KeptOf(referral[q])]
           g == [q \in OrderIds |-> KeptOf(referral'[q])]
<1>1. /\ \A q \in OrderIds : f[q] \in Nat
      /\ \A q \in OrderIds : g[q] \in Nat
      /\ partner.total \in Int /\ partner'.total \in Int
  <2>1. /\ referral \in [OrderIds -> ReferralRow] /\ referral' \in [OrderIds -> ReferralRow]
        /\ partner \in [pending : Int, total : Int, usage : Nat]
        /\ partner' \in [pending : Int, total : Int, usage : Nat]
    BY DEF RefundInv, Inv, RowsInv, RowsTypeOK
  <2>2. \A q \in OrderIds : /\ referral[q].reversed <= referral[q].commission
                            /\ referral'[q].reversed <= referral'[q].commission
    BY DEF RefundInv, ReversedWithinCommission
  <2> QED
    BY <2>1, <2>2, KeptIsNat
<1>2. IsFiniteSet(OrderIds)
  BY FS_Interval, OrdersAssumption DEF OrderIds
<1>3. PartnerKeeps = SumFunctionOnSet(f, OrderIds)
  BY DEF PartnerKeeps, SumFunction, Kept, KeptOf
<1>4. PartnerKeeps' = SumFunctionOnSet(g, OrderIds)
  BY DEF PartnerKeeps, SumFunction, Kept, KeptOf
<1>5. f[o] = KeptOf(referral[o]) /\ g[o] = KeptOf(referral'[o])
  OBVIOUS
<1>6. \A q \in OrderIds : q # o => f[q] = g[q]
  OBVIOUS
<1> HIDE DEF f, g
<1>7. /\ SumFunctionOnSet(g, OrderIds) = SumFunctionOnSet(f, OrderIds) + g[o] - f[o]
      /\ SumFunctionOnSet(f, OrderIds) \in Nat
  <2>1. Summands(f, OrderIds) /\ Summands(g, OrderIds)
    BY <1>1, <1>2, SumIsNat
  <2> QED
    BY <1>1, <1>2, <1>6, <2>1, SumChangesOne, SumIsNat
<1>8. partner.total >= SumFunctionOnSet(f, OrderIds)
  BY <1>3 DEF PartnerNotShortChanged
<1>9. partner'.total >= SumFunctionOnSet(g, OrderIds)
  BY <1>1, <1>5, <1>7, <1>8
<1> QED
  BY <1>4, <1>9 DEF PartnerNotShortChanged

\* A reversal takes no more off the lifetime total than off the referral, as long as
\* the referral is still as it was read.
LEMMA ReverseCommissionKeeps ==
  ASSUME Inv, ReversedWithinCommission, NEW o \in OrderIds, NEW cents \in Nat,
         NEW seen \in ReferralRow, orders[o].total > 0,
         seen.status # "NONE" =>
           /\ referral[o].commission = seen.commission
           /\ referral[o].reversed = seen.reversed
           /\ seen.status \in {"CONFIRMED", "PAID"} => referral[o].status \in {"CONFIRMED", "PAID"},
         ReverseCommission(o, seen, cents)
  PROVE  /\ \A q \in OrderIds : q # o => referral'[q] = referral[q]
         /\ partner'.total + KeptOf(referral[o]) >= partner.total + KeptOf(referral'[o])
<1>1. /\ referral \in [OrderIds -> ReferralRow] /\ orders[o].total \in Nat
      /\ partner \in [pending : Int, total : Int, usage : Nat]
  BY DEF Inv, TypeOK, RowsTypeOK, OrderRow
<1>2. /\ seen.commission \in Nat /\ seen.reversed \in Nat /\ partner.total \in Int
      /\ referral[o] \in ReferralRow /\ referral[o].reversed <= referral[o].commission
  BY <1>1 DEF ReferralRow, ReversedWithinCommission
<1>3. PICK back \in Int : back = Reversal(seen, cents, orders[o].total)
  BY <1>1, ReversalBounded
<1>4. seen.reversed + back <= seen.commission
  BY <1>1, <1>3, ReversalBounded
<1>5. KeptOf(referral[o]) \in Nat
  BY <1>2, KeptIsNat
<1>6. CASE seen.status = "PENDING"
  <2>1. /\ referral' = [referral EXCEPT ![o].status = "REVERSED",
                                         ![o].reversed = seen.reversed]
        /\ UNCHANGED partner
    BY <1>6 DEF ReverseCommission
  <2>2. referral'[o].status = "REVERSED" /\ \A q \in OrderIds : q # o => referral'[q] = referral[q]
    BY <1>1, <2>1 DEF ReferralRow
  <2>3. KeptOf(referral'[o]) = 0
    BY <2>2 DEF KeptOf
  <2>4. partner'.total = partner.total
    BY <2>1
  <2>5. partner'.total + KeptOf(referral[o]) >= partner.total + KeptOf(referral'[o])
    BY <1>2, <1>5, <2>3, <2>4
  <2> QED
    BY <2>2, <2>5
<1>7. CASE seen.status \in {"CONFIRMED", "PAID"} /\ back > 0
  <2>1. PICK sofar \in Nat : sofar = seen.reversed + back
    BY <1>2, <1>7
  <2>2. PICK st : st = IF sofar >= seen.commission THEN "REVERSED" ELSE seen.status
    OBVIOUS
  <2>3. /\ referral' = [referral EXCEPT ![o].reversed = sofar, ![o].status = st]
        /\ partner' = [pending |-> partner.pending
                                     - (IF seen.status = "PAID" THEN 0 ELSE back),
                       total |-> partner.total - back, usage |-> partner.usage]
    BY <1>3, <1>7, <2>1, <2>2 DEF ReverseCommission
  <2>4. /\ referral'[o].status = st /\ referral'[o].reversed = sofar
        /\ referral'[o].commission = referral[o].commission
        /\ \A q \in OrderIds : q # o => referral'[q] = referral[q]
    BY <1>1, <2>3 DEF ReferralRow
  <2>5. partner'.total = partner.total - back
    BY <2>3
  <2>6. KeptOf(referral[o]) = seen.commission - seen.reversed
    BY <1>7 DEF KeptOf
  <2>7. KeptOf(referral'[o]) \in {0, seen.commission - sofar}
    BY <1>7, <2>4 DEF KeptOf
  <2> QED
    BY <1>2, <1>3, <1>4, <2>1, <2>4, <2>5, <2>6, <2>7
<1>8. CASE UNCHANGED <<referral, partner>>
  BY <1>2, <1>5, <1>8
<1>9. \/ seen.status = "PENDING"
      \/ seen.status \in {"CONFIRMED", "PAID"} /\ back > 0
      \/ UNCHANGED <<referral, partner>>
  BY <1>3 DEF ReverseCommission
<1> QED
  BY <1>6, <1>7, <1>8, <1>9

\* What was read of a referral survives the transactions of checkouts and payments,
\* and a confirmation credits at least what it lets the partner keep.
LEMMA TransactionIsFair ==
  ASSUME RefundInv, RefundInv', NEW o \in OrderIds, Transaction(o), PartnerNotShortChanged
  PROVE  /\ PartnerNotShortChanged'
         /\ \A q \in OrderIds : referral[q].status # "NONE" =>
              /\ referral'[q].reversed = referral[q].reversed
              /\ referral[q].status \in {"CONFIRMED", "PAID"}
                   => referral'[q].status \in {"CONFIRMED", "PAID"}
<1>1. /\ referral \in [OrderIds -> ReferralRow] /\ referral' \in [OrderIds -> ReferralRow]
      /\ partner \in [pending : Int, total : Int, usage : Nat]
  BY DEF RefundInv, Inv, RowsInv, RowsTypeOK
<1>2. /\ referral[o].reversed <= referral[o].commission
      /\ referral'[o].reversed <= referral'[o].commission
  BY DEF RefundInv, ReversedWithinCommission
<1>3. /\ KeptOf(referral[o]) \in Nat
      /\ KeptOf(referral'[o]) \in Nat /\ KeptOf(referral'[o]) <= referral'[o].commission
      /\ partner.total \in Int /\ referral[o].commission \in Nat
  BY <1>1, <1>2, KeptIsNat DEF ReferralRow
<1>4. CASE UNCHANGED <<referral, partner>>
  BY <1>3, <1>4, KeptChanges
<1>5. CASE CreateReferral(o)
  <2>1. UNCHANGED partner
    BY <1>5 DEF CreateReferral
  <2>2. \/ UNCHANGED referral
        \/ /\ referral[o].status = "NONE" /\ referral'[o].status = "PENDING"
           /\ \A q \in OrderIds : q # o => referral'[q] = referral[q]
    BY <1>1, <1>5 DEF CreateReferral
  <2>3. ASSUME referral[o].status = "NONE", referral'[o].status = "PENDING"
        PROVE  KeptOf(referral[o]) = 0 /\ KeptOf(referral'[o]) = 0
    BY <2>3 DEF KeptOf
  <2> QED
    BY <1>3, <1>4, <2>1, <2>2, <2>3, KeptChanges
<1>6. CASE ConfirmReferralTx(o)
  <2>1. /\ referral'[o].commission = referral[o].commission
        /\ referral'[o].reversed = referral[o].reversed
        /\ referral'[o].status = "CONFIRMED"
        /\ \A q \in OrderIds : q # o => referral'[q] = referral[q]
    BY <1>1, <1>6 DEF ConfirmReferralTx, ReferralRow
  <2>2. partner'.total = partner.total + referral[o].commission
    BY <1>6 DEF ConfirmReferralTx
  <2>3. partner'.total + KeptOf(referral[o]) >= partner.total + KeptOf(referral'[o])
    BY <1>3, <2>1, <2>2
  <2> QED
    BY <2>1, <2>3, KeptChanges
<1>7. UNCHANGED <<referral, partner>> \/ CreateReferral(o) \/ ConfirmReferralTx(o)
  BY DEF Transaction, MarkFailedIfPending, SaveProviderRef, FulfilTx, CreatePending
<1> QED
  BY <1>4, <1>5, <1>6, <1>7

LEMMA CheckoutIsFair ==
  ASSUME RefundInv, RefundInv', PartnerInv, CheckoutStep
  PROVE  PartnerInv'
<1>1. Next /\ Inv /\ UNCHANGED refund /\ refund \in [Admins -> RefundPlan]
  BY DEF CheckoutStep, RefundInv
<1>2. OneLockPerOrder'
  BY <1>1 DEF PartnerInv, OneLockPerOrder
<1>3. /\ PartnerNotShortChanged'
      /\ \A q \in OrderIds : referral[q].status # "NONE" =>
           /\ referral'[q].reversed = referral[q].reversed
           /\ referral[q].status \in {"CONFIRMED", "PAID"}
                => referral'[q].status \in {"CONFIRMED", "PAID"}
  <2>1. CASE UNCHANGED rows
    <3>1. UNCHANGED <<referral, partner>>
      BY <2>1 DEF rows
    <3> QED
      BY <3>1 DEF PartnerInv, PartnerNotShortChanged, PartnerKeeps, Kept
  <2>2. ASSUME NEW o \in OrderIds, Transaction(o)
        PROVE  /\ PartnerNotShortChanged'
               /\ \A q \in OrderIds : referral[q].status # "NONE" =>
                    /\ referral'[q].reversed = referral[q].reversed
                    /\ referral[q].status \in {"CONFIRMED", "PAID"}
                         => referral'[q].status \in {"CONFIRMED", "PAID"}
    BY <2>2, TransactionIsFair DEF PartnerInv
  <2> QED
    BY <1>1, <2>1, <2>2, StepIsTransaction
<1>4. ASSUME NEW a \in Admins PROVE ReadLasts(refund[a])'
  <2>1. PICK p : p = refund[a]
    OBVIOUS
  <2>2. refund'[a] = p /\ ReadLasts(p) /\ PlanSound(p) /\ ReadSound(p)
    BY <1>1, <2>1 DEF PartnerInv, RefundInv
  <2>3. p.locked => p.ord \in OrderIds
    BY <2>2 DEF PlanSound, NoPlan
  <2> QED
    BY <1>3, <2>2, <2>3 DEF ReadLasts, ReadSound
<1> QED
  BY <1>2, <1>3, <1>4 DEF PartnerInv

\* An admin's step that leaves the rows alone keeps the referrals it had read, when its
\* own plan is not locked, or is the only one locked for its order.
LEMMA PlanStepIsFair ==
  ASSUME RefundInv, PartnerInv, UNCHANGED vars, NEW a \in Admins, NEW p, ReadLasts(p),
         p.locked => \A b \in Admins : b # a /\ refund[b].locked => refund[b].ord # p.ord,
         refund' = [refund EXCEPT ![a] = p]
  PROVE  PartnerInv'
<1>1. UNCHANGED <<referral, partner>>
  BY DEF vars, rows
<1>2. \A b \in Admins : refund'[b] = IF b = a THEN p ELSE refund[b]
  BY DEF RefundInv
<1>3. PartnerNotShortChanged'
  BY <1>1 DEF PartnerInv, PartnerNotShortChanged, PartnerKeeps, Kept
<1>4. OneLockPerOrder'
  BY <1>2 DEF PartnerInv, OneLockPerOrder
<1>5. \A b \in Admins : ReadLasts(refund[b])'
  BY <1>1, <1>2 DEF PartnerInv, ReadLasts
<1> QED
  BY <1>3, <1>4, <1>5 DEF PartnerInv

LEMMA CommitRefundIsFair ==
  ASSUME RefundInv, RefundInv', PartnerInv, NEW a \in Admins, CommitRefund(a)
  PROVE  PartnerInv'
<1>1. PICK p : p = refund[a]
  OBVIOUS
<1>2. /\ p \in RefundPlan /\ p # NoPlan /\ p.ord \in OrderIds /\ p.locked
      /\ p.amount \in [Courses -> Nat]
      /\ refund' = [refund EXCEPT ![a] = NoPlan]
  BY <1>1, CommitBooks DEF CommitRefund
<1>3. PICK cents \in Nat : cents = CentsOf(p.amount)
  BY <1>2, CentsAreNat
<1>4. /\ \A q \in OrderIds : q # p.ord => referral'[q] = referral[q]
      /\ partner'.total + KeptOf(referral[p.ord]) >= partner.total + KeptOf(referral'[p.ord])
  <2>1. ReverseCommission(p.ord, p.seen, cents)
    BY <1>1, <1>3 DEF CommitRefund
  <2>2. /\ Inv /\ ReversedWithinCommission /\ p.seen \in ReferralRow
        /\ orders[p.ord].total > 0
    BY <1>1, <1>2 DEF RefundInv, PlanSound, RefundPlan
  <2>3. p.seen.status # "NONE" =>
          /\ referral[p.ord].commission = p.seen.commission
          /\ referral[p.ord].reversed = p.seen.reversed
          /\ p.seen.status \in {"CONFIRMED", "PAID"}
               => referral[p.ord].status \in {"CONFIRMED", "PAID"}
    BY <1>1, <1>2 DEF RefundInv, ReadSound, PartnerInv, ReadLasts
  <2> QED
    BY <1>2, <2>1, <2>2, <2>3, ReverseCommissionKeeps
<1>5. PartnerNotShortChanged'
  BY <1>2, <1>4, KeptChanges DEF PartnerInv
<1>6. \A b \in Admins : refund'[b] = IF b = a THEN NoPlan ELSE refund[b]
  BY <1>2 DEF RefundInv
<1>7. OneLockPerOrder'
  BY <1>6 DEF PartnerInv, OneLockPerOrder, NoPlan
<1>8. ASSUME NEW b \in Admins PROVE ReadLasts(refund[b])'
  <2>1. CASE b = a
    BY <1>6, <2>1 DEF ReadLasts, NoPlan
  <2>2. CASE b # a
    <3>1. PICK q : q = refund[b]
      OBVIOUS
    <3>2. refund'[b] = q /\ ReadLasts(q) /\ PlanSound(q)
      BY <1>6, <2>2, <3>1 DEF PartnerInv, RefundInv
    <3>3. q.locked => q.ord \in OrderIds /\ q.ord # p.ord
      BY <1>1, <1>2, <2>2, <3>1, <3>2 DEF PlanSound, NoPlan, PartnerInv, OneLockPerOrder
    <3> QED
      BY <1>4, <3>2, <3>3 DEF ReadLasts
  <2> QED
    BY <2>1, <2>2
<1> QED
  BY <1>5, <1>7, <1>8 DEF PartnerInv

LEMMA PartnerNext ==
  ASSUME RefundInv, RefundInv', PartnerInv, [RefundNext]_refundVars
  PROVE  PartnerInv'
<1>1. CASE CheckoutStep
  BY <1>1, CheckoutIsFair
<1>2. ASSUME NEW a \in Admins, NEW o \in OrderIds, NEW amount \in Requested,
             MakePlan(a, o, amount)
      PROVE  PartnerInv'
  <2>1. PICK p : p = PlanOf(o, amount)
    OBVIOUS
  <2>2. ~ p.locked
    BY <2>1 DEF PlanOf, PlanUpTo
  <2>3. UNCHANGED vars /\ refund' = [refund EXCEPT ![a] = p]
    BY <1>2, <2>1 DEF MakePlan
  <2> QED
    BY <2>2, <2>3, PlanStepIsFair DEF ReadLasts
<1>3. ASSUME NEW a \in Admins, BeginRefundTx(a) PROVE PartnerInv'
  <2>1. PICK o : o = refund[a].ord
    OBVIOUS
  <2>2. PICK p : p = [refund[a] EXCEPT !.locked = TRUE, !.seen = referral[o]]
    OBVIOUS
  <2>3. refund[a] \in RefundPlan
    BY DEF RefundInv
  <2>4. p.ord = o /\ p.seen = referral[o]
    BY <2>1, <2>2, <2>3 DEF RefundPlan
  <2>5. UNCHANGED vars /\ refund' = [refund EXCEPT ![a] = p]
    BY <1>3, <2>1, <2>2 DEF BeginRefundTx, RefundInv
  <2>6. \A b \in Admins : b # a /\ refund[b].locked => refund[b].ord # p.ord
    BY <1>3, <2>1, <2>4 DEF BeginRefundTx
  <2>7. ReadLasts(p)
    BY <2>4 DEF ReadLasts
  <2> QED
    BY <2>5, <2>6, <2>7, PlanStepIsFair
<1>4. ASSUME NEW a \in Admins, DropRefund(a) PROVE PartnerInv'
  <2>1. ReadLasts(NoPlan) /\ ~ NoPlan.locked
    BY DEF ReadLasts, NoPlan
  <2> QED
    BY <1>4, <2>1, PlanStepIsFair DEF DropRefund
<1>5. CASE \E a \in Admins : RefundStep(a)
  BY <1>2, <1>3, <1>4, <1>5, CommitRefundIsFair DEF RefundStep
<1>6. CASE UNCHANGED refundVars
  <2>1. UNCHANGED <<refund, referral, partner>>
    BY <1>6 DEF refundVars, vars, rows
  <2> QED
    BY <2>1 DEF PartnerInv, OneLockPerOrder, ReadLasts, PartnerNotShortChanged,
                PartnerKeeps, Kept
<1> QED
  BY <1>1, <1>5, <1>6 DEF RefundNext

LEMMA PartnerInit == RefundInit => PartnerInv
<1> SUFFICES ASSUME RefundInit PROVE PartnerInv
  OBVIOUS
<1>1. /\ \A a \in Admins : refund[a] = NoPlan
      /\ partner.total = 0
      /\ \A o \in OrderIds : referral[o].status = "NONE"
  BY DEF RefundInit, Init, RowsInit, NoReferral
<1>2. OneLockPerOrder /\ \A a \in Admins : ReadLasts(refund[a])
  BY <1>1 DEF OneLockPerOrder, ReadLasts, NoPlan
<1>3. PartnerKeeps = 0
  <2> DEFINE f == [o \in OrderIds |-> Kept(o)]
             z == [o \in OrderIds |-> 0]
  <2>1. f = z
    BY <1>1 DEF Kept
  <2>2. IsFiniteSet(OrderIds)
    BY FS_Interval, OrdersAssumption DEF OrderIds
  <2>3. \A o \in OrderIds : z[o] = 0
    OBVIOUS
  <2>4. PartnerKeeps = SumFunctionOnSet(f, OrderIds)
    BY DEF PartnerKeeps, SumFunction
  <2> HIDE DEF f, z
  <2>5. SumFunctionOnSet(z, OrderIds) = 0
    BY <2>2, <2>3, SumOfZeros
  <2> QED
    BY <2>1, <2>4, <2>5
<1> QED
  BY <1>1, <1>2, <1>3 DEF PartnerInv, PartnerNotShortChanged

THEOREM PartnerInvAlways == RefundSpec => []PartnerInv
BY PartnerInit, PartnerNext, RefundInvAlways, PTL DEF RefundSpec

\* The partner's lifetime total always covers what his confirmed referrals earned less
\* what refunds recorded as reversed, wherever refunds fall between fulfilments and
\* confirmations, doubled ones included (confirmReferralTx,
\* reversePartnerCommissionOnRefund).
THEOREM PartnerIsNeverShortChanged == RefundSpec => []PartnerNotShortChanged
<1>1. PartnerInv => PartnerNotShortChanged
  BY DEF PartnerInv
<1> QED
  BY <1>1, PartnerInvAlways, PTL

-----------------------------------------------------------------------------
(* One refund at a time. *)

\* A plan that nobody has overtaken: it was made on the rows as they are.
Current(p) ==
  p # NoPlan =>
    /\ p.refunded = CentsOf(itemRefunded[p.ord]) + CentsOf(p.amount)
    /\ \A c \in Courses :
         p.amount[c] > 0 => itemRefunded[p.ord][c] + p.amount[c] <= Price[c]

OneAtATime ==
  /\ \A a, b \in InFlight : a = b
  /\ \A a \in Admins : Current(refund[a])
  /\ NothingRefundedTwice
  /\ RefundsAddUp

SinglyInv == singly => OneAtATime

\* An admin's step that leaves the rows alone only has to leave its own plan current.
LEMMA PlanStepSingly ==
  ASSUME RefundInv, OneAtATime, UNCHANGED vars, NEW a \in Admins, NEW p, Current(p),
         refund' = [refund EXCEPT ![a] = p], \A b, c \in InFlight' : b = c
  PROVE  OneAtATime'
<1>1. UNCHANGED <<orders, itemRefunded>>
  BY DEF vars, rows
<1>2. \A b \in Admins : refund'[b] = IF b = a THEN p ELSE refund[b]
  BY DEF RefundInv
<1>3. \A b \in Admins : Current(refund[b])'
  BY <1>1, <1>2 DEF OneAtATime, Current, CentsOf
<1>4. NothingRefundedTwice' /\ RefundsAddUp'
  BY <1>1 DEF OneAtATime, NothingRefundedTwice, RefundsAddUp, CentsOf
<1> QED
  BY <1>3, <1>4 DEF OneAtATime

LEMMA MakePlanSingly ==
  ASSUME RefundInv, OneAtATime, NEW a \in Admins, NEW o \in OrderIds,
         NEW amount \in Requested, MakePlan(a, o, amount), \A b, c \in InFlight' : b = c
  PROVE  OneAtATime'
<1>1. PICK p : p = PlanOf(o, amount)
  OBVIOUS
<1>2. /\ p.ord = o /\ p.amount = amount
      /\ p.refunded = orders[o].refunded + CentsOf(amount)
  BY <1>1 DEF PlanOf, PlanUpTo
<1>3. orders[o].refunded = CentsOf(itemRefunded[o])
  BY DEF OneAtATime, RefundsAddUp
<1>4. ASSUME NEW c \in Courses, amount[c] > 0
      PROVE  itemRefunded[o][c] + amount[c] <= Price[c]
  <2>1. amount[c] <= Price[c] - itemRefunded[o][c]
    BY <1>4 DEF MakePlan, WithinItems, Remaining
  <2>2. itemRefunded[o][c] \in Nat /\ Price[c] \in Nat /\ amount[c] \in Nat
    BY RecordedAreNat, OrdersAssumption, RefundsAssumption DEF Requested
  <2> QED
    BY <2>1, <2>2
<1>5. Current(p)
  BY <1>2, <1>3, <1>4 DEF Current
<1> QED
  BY <1>1, <1>5, PlanStepSingly DEF MakePlan

LEMMA CommitRefundSingly ==
  ASSUME RefundInv, OneAtATime, NEW a \in Admins, CommitRefund(a),
         \A b, c \in InFlight' : b = c
  PROVE  OneAtATime'
<1>1. PICK p : p = refund[a]
  OBVIOUS
<1>2. /\ p \in RefundPlan /\ p # NoPlan /\ p.ord \in OrderIds
      /\ p.amount \in [Courses -> Nat]
      /\ \A o \in OrderIds :
           IF o = p.ord
           THEN /\ orders'[o].refunded = p.refunded
                /\ \A c \in Courses :
                     itemRefunded'[o][c] = itemRefunded[o][c] + p.amount[c]
                /\ CentsOf(itemRefunded'[o]) = CentsOf(itemRefunded[o]) + CentsOf(p.amount)
           ELSE orders'[o] = orders[o] /\ itemRefunded'[o] = itemRefunded[o]
      /\ refund' = [refund EXCEPT ![a] = NoPlan]
  BY <1>1, CommitBooks
<1>3. Current(p)
  BY <1>1 DEF OneAtATime
<1>4. \A b \in Admins : refund'[b] = NoPlan
  BY <1>1, <1>2 DEF OneAtATime, InFlight, RefundInv
<1>5. \A b \in Admins : Current(refund[b])'
  BY <1>4 DEF Current
<1>6. ASSUME NEW o \in OrderIds, NEW c \in Courses
      PROVE  itemRefunded'[o][c] <= Price[c]
  <2>1. itemRefunded[o][c] <= Price[c]
    BY DEF OneAtATime, NothingRefundedTwice
  <2>2. itemRefunded[o][c] \in Nat /\ p.amount[c] \in Nat
    BY <1>2, RecordedAreNat
  <2>3. CASE o # p.ord \/ p.amount[c] = 0
    BY <1>2, <2>1, <2>2, <2>3
  <2>4. CASE o = p.ord /\ p.amount[c] > 0
    BY <1>2, <1>3, <2>4 DEF Current
  <2> QED
    BY <2>2, <2>3, <2>4
<1>7. ASSUME NEW o \in OrderIds
      PROVE  orders'[o].refunded = CentsOf(itemRefunded'[o])
  BY <1>2, <1>3 DEF Current, OneAtATime, RefundsAddUp
<1>8. NothingRefundedTwice' /\ RefundsAddUp'
  BY <1>6, <1>7 DEF NothingRefundedTwice, RefundsAddUp, CentsOf
<1> QED
  BY <1>5, <1>8 DEF OneAtATime

LEMMA SinglyNext ==
  ASSUME RefundInv, Books, SinglyInv, [MCRefundNext]_<<refundVars, singly>>
  PROVE  SinglyInv'
<1> SUFFICES ASSUME singly, singly' PROVE OneAtATime'
  BY DEF SinglyInv, MCRefundNext
<1>1. OneAtATime
  BY DEF SinglyInv
<1>2. CASE UNCHANGED <<refundVars, singly>>
  <2>1. UNCHANGED <<orders, itemRefunded, refund>>
    BY <1>2 DEF refundVars, vars, rows
  <2> QED
    BY <1>1, <2>1 DEF OneAtATime, Current, NothingRefundedTwice, RefundsAddUp, InFlight, CentsOf
<1> SUFFICES ASSUME RefundNext, \A b, c \in InFlight' : b = c
             PROVE  OneAtATime'
  BY <1>2 DEF MCRefundNext
<1>3. CASE CheckoutStep
  <2>1. /\ UNCHANGED <<itemRefunded, refund>>
        /\ \A o \in OrderIds : orders'[o].refunded = orders[o].refunded
    BY <1>3, CheckoutKeepsBooks DEF Books
  <2> QED
    BY <1>1, <2>1 DEF OneAtATime, Current, NothingRefundedTwice, RefundsAddUp, CentsOf
<1>4. ASSUME NEW a \in Admins, BeginRefundTx(a) PROVE OneAtATime'
  <2>1. PICK o : o = refund[a].ord
    OBVIOUS
  <2>2. PICK p : p = [refund[a] EXCEPT !.locked = TRUE, !.seen = referral[o]]
    OBVIOUS
  <2>3. refund[a] \in RefundPlan /\ refund[a] # NoPlan /\ Current(refund[a])
    BY <1>1, <1>4 DEF RefundInv, OneAtATime, BeginRefundTx
  <2>4. /\ p.ord = refund[a].ord /\ p.amount = refund[a].amount
        /\ p.refunded = refund[a].refunded
    BY <2>2, <2>3 DEF RefundPlan
  <2>5. Current(p)
    BY <2>3, <2>4 DEF Current
  <2>6. UNCHANGED vars /\ refund' = [refund EXCEPT ![a] = p]
    BY <1>4, <2>1, <2>2 DEF BeginRefundTx, RefundInv
  <2> QED
    BY <1>1, <2>5, <2>6, PlanStepSingly
<1>5. ASSUME NEW a \in Admins, DropRefund(a) PROVE OneAtATime'
  <2>1. Current(NoPlan)
    BY DEF Current
  <2> QED
    BY <1>1, <1>5, <2>1, PlanStepSingly DEF DropRefund
<1>6. CASE \E a \in Admins : RefundStep(a)
  BY <1>1, <1>4, <1>5, <1>6, MakePlanSingly, CommitRefundSingly DEF RefundStep
<1> QED
  BY <1>3, <1>6 DEF RefundNext

LEMMA SinglyInit == MCRefundInit => SinglyInv
<1> SUFFICES ASSUME MCRefundInit PROVE OneAtATime
  BY DEF SinglyInv
<1>1. /\ \A a \in Admins : refund[a] = NoPlan
      /\ \A o \in OrderIds : /\ orders[o].refunded = 0
                             /\ itemRefunded[o] = [c \in Courses |-> 0]
  BY DEF MCRefundInit, RefundInit, Init, RowsInit, NoOrder
<1>2. \A a \in Admins : a \notin InFlight /\ Current(refund[a])
  BY <1>1 DEF InFlight, Current
<1>3. NothingRefundedTwice
  BY <1>1, OrdersAssumption DEF NothingRefundedTwice
<1>4. RefundsAddUp
  <2>1. CentsOf([c \in Courses |-> 0]) = 0
    <3> DEFINE z == [c \in Courses |-> 0]
    <3>1. \A c \in Courses : z[c] = 0
      OBVIOUS
    <3> HIDE DEF z
    <3>2. SumFunctionOnSet(z, Courses) = 0
      BY <3>1, OrdersAssumption, SumOfZeros
    <3> QED
      BY <3>2 DEF z, CentsOf
  <2> QED
    BY <1>1, <2>1 DEF RefundsAddUp
<1> QED
  BY <1>2, <1>3, <1>4 DEF OneAtATime, InFlight

\* What the singly behaviours do, refunds do.
LEMMA SinglyAreRefunds == MCRefundSpec => RefundSpec
<1>1. MCRefundInit => RefundInit
  BY DEF MCRefundInit
<1>2. [MCRefundNext]_<<refundVars, singly>> => [RefundNext]_refundVars
  BY DEF MCRefundNext
<1> QED
  BY <1>1, <1>2, PTL DEF MCRefundSpec, RefundSpec

THEOREM SinglyInvAlways == MCRefundSpec => []SinglyInv
BY SinglyInit, SinglyNext, SinglyAreRefunds, RefundInvAlways, BooksAlways, PTL
DEF MCRefundSpec

\* docs/FEATURE_FLOWS.md, 7.10, of refunds made one at a time: whatever partial refunds,
\* dropped requests, fulfilments and late payments precede it, no item gives back more
\* than its price (buildRefundPlan's remaining amount).
THEOREM NothingIsRefundedTwiceSingly == MCRefundSpec => []NothingRefundedTwiceSingly
<1>1. SinglyInv => NothingRefundedTwiceSingly
  BY DEF SinglyInv, OneAtATime, NothingRefundedTwiceSingly
<1> QED
  BY <1>1, SinglyInvAlways, PTL

\* schema.prisma, Order.refundedCents, of refunds made one at a time: the total that
\* buildRefundPlan writes absolutely is what the items' increments add up to.
THEOREM RefundsAlwaysAddUpSingly == MCRefundSpec => []RefundsAddUpSingly
<1>1. SinglyInv => RefundsAddUpSingly
  BY DEF SinglyInv, OneAtATime, RefundsAddUpSingly
<1> QED
  BY <1>1, SinglyInvAlways, PTL
=============================================================================
