---------------------------- MODULE PayoutProofs ----------------------------
(***************************************************************************)
(* Payouts proved for any number of orders, confirmations, payouts,        *)
(* requests and admins.  The balance a request reads and the order in which         *)
(* referrals are settled are sums over the rows; SumLemmas says how a step *)
(* that changes one row changes them.                                      *)
(***************************************************************************)
EXTENDS Payouts, SumLemmas, TLAPS

-----------------------------------------------------------------------------
(* The invariant. *)

\* A refund in flight is of an order that was charged something.
ReversalOK ==
  reversal # NoReversal => reversal.ord \in OrderIds /\ orders[reversal.ord].total > 0

\* Nothing is sent for a payout before it exists, and admins act on existing ones.
Transfers ==
  /\ \A p \in PayoutIds : payouts[p].status = "NONE" => sent[p] = 0
  /\ \A a \in PayoutAdmins : admin[a].doing # "idle" => payouts[admin[a].payout].status # "NONE"
  /\ SentAtMostOnce

Ledger == ReversalOK /\ BucketsCoverTotal /\ PaidOutIsSettled

PayoutInv == PayoutTypeOK /\ Transfers /\ Ledger

\* The columns that only a checkout or a refund of items moves.
elsewhere == <<itemRefunded, enrolled, students, revenue, spent, balance, redeemed>>

-----------------------------------------------------------------------------
(* The sums. *)

PaidAmounts == [p \in PayoutIds |-> payouts[p].amount]

LEMMA AmountsAreNat ==
  ASSUME payouts \in [PayoutIds -> PayoutRow], NEW S
  PROVE  /\ Summands(PaidAmounts, {p \in PayoutIds : payouts[p].status \in S})
         /\ AmountIn(S) \in Nat
<1> DEFINE T == {p \in PayoutIds : payouts[p].status \in S}
<1>1. IsFiniteSet(PayoutIds)
  BY FS_Interval, PayoutsAssumption DEF PayoutIds
<1>2. IsFiniteSet(T) /\ \A p \in T : PaidAmounts[p] \in Nat
  BY <1>1, FS_Subset DEF PaidAmounts, PayoutRow
<1> HIDE DEF T
<1>3. Summands(PaidAmounts, T) /\ SumFunctionOnSet(PaidAmounts, T) \in Nat
  BY <1>2, SumIsNat
<1> QED
  BY <1>3 DEF T, AmountIn, PaidAmounts

\* A step that changes one payout's row changes the amount in a status by what the
\* row counted for before and counts for after it.
LEMMA AmountInChanges ==
  ASSUME payouts \in [PayoutIds -> PayoutRow], payouts' \in [PayoutIds -> PayoutRow],
         NEW S, NEW p \in PayoutIds, \A q \in PayoutIds : q # p => payouts'[q] = payouts[q]
  PROVE  AmountIn(S)' = AmountIn(S)
                          - (IF payouts[p].status \in S THEN payouts[p].amount ELSE 0)
                          + (IF payouts'[p].status \in S THEN payouts'[p].amount ELSE 0)
<1> DEFINE T == {q \in PayoutIds : payouts[q].status \in S}
           U == {q \in PayoutIds : payouts'[q].status \in S}
           f == PaidAmounts
           g == PaidAmounts'
<1>1. Summands(f, T) /\ Summands(g, U)
  <2>1. Summands(f, T)
    BY AmountsAreNat
  <2>2. IsFiniteSet(PayoutIds)
    BY FS_Interval, PayoutsAssumption DEF PayoutIds
  <2>3. IsFiniteSet(U) /\ \A q \in U : g[q] \in Nat
    BY <2>2, FS_Subset DEF PaidAmounts, PayoutRow
  <2> HIDE DEF T, U, f, g
  <2> QED
    BY <2>1, <2>3, SumIsNat
<1>2. T \ {p} = U \ {p} /\ \A q \in T \ {p} : f[q] = g[q]
  BY DEF PaidAmounts
<1>3. /\ p \in T <=> payouts[p].status \in S
      /\ p \in U <=> payouts'[p].status \in S
      /\ f[p] = payouts[p].amount /\ g[p] = payouts'[p].amount
  BY DEF PaidAmounts
<1>4. AmountIn(S) = SumFunctionOnSet(f, T) /\ AmountIn(S)' = SumFunctionOnSet(g, U)
  BY DEF AmountIn, PaidAmounts
<1> HIDE DEF T, U, f, g
<1>5. SumFunctionOnSet(g, U) = SumFunctionOnSet(f, T) - (IF p \in T THEN f[p] ELSE 0)
                                                      + (IF p \in U THEN g[p] ELSE 0)
  BY <1>1, <1>2, SumChangesAt
<1> QED
  BY <1>3, <1>4, <1>5

\* Counting more referrals owes no less.
LEMMA PayableGrows ==
  ASSUME referral \in [OrderIds -> ReferralRow], NEW o \in OrderIds, NEW q \in 1..o
  PROVE  PayableUpTo(q) <= PayableUpTo(o) /\ PayableUpTo(q) \in Nat /\ PayableUpTo(o) \in Nat
<1> DEFINE f == [r \in OrderIds |-> Owed(r)]
           T(n) == {r \in 1..n : Payable(r)}
<1>1. /\ IsFiniteSet(T(o)) /\ IsFiniteSet(T(q))
      /\ T(q) \in SUBSET T(o) /\ T(o) \in SUBSET OrderIds
  <2>1. o \in Nat /\ q \in Nat /\ 1..q \subseteq 1..o /\ 1..o \subseteq OrderIds
    BY OrdersAssumption DEF OrderIds
  <2>2. IsFiniteSet(1..o) /\ IsFiniteSet(1..q)
    BY <2>1, FS_Interval
  <2> QED
    BY <2>1, <2>2, FS_Subset
<1>2. \A r \in OrderIds : f[r] \in Nat
  BY DEF Owed, AtLeastZero, ReferralRow
<1>3. /\ PayableUpTo(q) = SumFunctionOnSet(f, T(q))
      /\ PayableUpTo(o) = SumFunctionOnSet(f, T(o))
  BY DEF PayableUpTo, OwedIn
<1> HIDE DEF f, T
<1>4. \A r \in T(o) : f[r] \in Nat
  BY <1>1, <1>2
<1> QED
  BY <1>1, <1>3, <1>4, SumGrows, SumIsNat

-----------------------------------------------------------------------------
(* Initial states. *)

LEMMA CommissionIsNat == ASSUME NEW total \in Nat PROVE Commission(total) \in Nat
<1>1. CommissionPercent \in Nat
  BY OrdersAssumption
<1>2. total * CommissionPercent \in Nat
  BY <1>1
<1> QED
  BY <1>2 DEF Commission

LEMMA Idle_Lemma == AdminIdle \in AdminState /\ AdminIdle.doing = "idle"
  BY PayoutsAssumption DEF AdminIdle, AdminState, PayoutIds

LEMMA NoPayout_Lemma == NoPayout \in PayoutRow /\ NoPayout.status = "NONE"
  BY DEF NoPayout, PayoutRow, OpenStatuses

LEMMA NoReversal_Lemma == NoReversal \in ReversalState
  BY DEF NoReversal, ReversalState, NoReferral, ReferralRow

LEMMA NothingRead_Lemma == NothingRead \in ReadSoFar
  BY DEF NothingRead, ReadSoFar, Unread

LEMMA PayoutInit_Inv == PayoutInit => PayoutInv
<1> SUFFICES ASSUME PayoutInit PROVE PayoutInv
  OBVIOUS
<1> DEFINE due == Commission(Sale[1])
<1>0. Sale \in [OrderIds -> Nat] /\ 1 \in OrderIds /\ 1 \in PayoutIds
  BY OrdersAssumption, PayoutsAssumption DEF OrderIds, PayoutIds
<1>1. due \in Nat /\ \A o \in OrderIds : Commission(Sale[o]) \in Nat
  BY <1>0, CommissionIsNat
<1>2. /\ paidEarnings = 0 /\ reversal = NoReversal
      /\ partner = [pending |-> due, total |-> due, usage |-> 1]
      /\ sent = [p \in PayoutIds |-> 0] /\ admin = [a \in PayoutAdmins |-> AdminIdle]
      /\ requester = [r \in Requesters |-> NothingRead] /\ account = "none"
      /\ confirming \in [Confirmers -> {0, 1}]
  BY DEF PayoutInit
<1>3. PICK legacy \in {NoPayout, [status |-> "REQUESTED", amount |-> due, net |-> due,
                                  method |-> "BANK"]} :
        payouts = [p \in PayoutIds |-> IF p = 1 THEN legacy ELSE NoPayout]
  BY DEF PayoutInit
<1> HIDE DEF due
<1>4. legacy \in PayoutRow /\ legacy.status # "PAID"
  BY <1>1, <1>3, NoPayout_Lemma DEF PayoutRow, OpenStatuses
<1>5. payouts \in [PayoutIds -> PayoutRow] /\ \A p \in PayoutIds : payouts[p].status # "PAID"
  BY <1>3, <1>4, NoPayout_Lemma
<1>6. orders \in [OrderIds -> OrderRow]
  BY <1>0 DEF PayoutInit, NoOrder, OrderRow, Status, Codes
<1>7. referral \in [OrderIds -> ReferralRow]
  <2> DEFINE row(o) == [status |-> IF o = 1 THEN "CONFIRMED" ELSE "PENDING",
                        commission |-> Commission(Sale[o]), reversed |-> 0]
  <2>1. referral = [o \in OrderIds |-> row(o)]
    BY DEF PayoutInit
  <2>2. ASSUME NEW o \in OrderIds PROVE row(o) \in ReferralRow
    BY <1>1 DEF ReferralRow
  <2> HIDE DEF row
  <2> QED
    BY <2>1, <2>2
<1>8. RowsTypeOK
  <2>1. /\ itemRefunded = [o \in OrderIds |-> [c \in Courses |-> 0]]
        /\ enrolled = {} /\ spent = 0 /\ balance = OpeningBalance /\ redeemed = {}
        /\ students = [c \in Courses |-> 0] /\ revenue = [c \in Courses |-> 0]
    BY DEF PayoutInit
  <2>2. partner \in [pending : Int, total : Int, usage : Nat]
    BY <1>1, <1>2
  <2> QED
    BY <1>6, <1>7, <2>1, <2>2, OrdersAssumption DEF RowsTypeOK
<1>9. PayoutTypeOK
  BY <1>0, <1>2, <1>5, <1>8, Idle_Lemma, NoReversal_Lemma, NothingRead_Lemma DEF PayoutTypeOK
<1>10. Transfers
  BY <1>2, Idle_Lemma DEF Transfers, SentAtMostOnce
<1>11. BucketsCoverTotal
  BY <1>1, <1>2 DEF BucketsCoverTotal
<1>12. PaidOutIsSettled
  <2>1. {p \in PayoutIds : payouts[p].status \in {"PAID"}} = {}
    BY <1>5
  <2>2. AmountIn({"PAID"}) = 0
    BY <2>1, SumOfNone DEF AmountIn
  <2> QED
    BY <1>2, <2>2 DEF PaidOutIsSettled
<1> QED
  BY <1>2, <1>9, <1>10, <1>11, <1>12 DEF PayoutInv, Ledger, ReversalOK

-----------------------------------------------------------------------------
(* The ledger: confirmations and refunds. *)

\* The steps of the ledger leave the payouts and what they sum up to alone.
LEMMA PaidStays ==
  ASSUME PaidOutIsSettled, UNCHANGED <<payouts, paidEarnings>>
  PROVE  PaidOutIsSettled'
  BY DEF PaidOutIsSettled, AmountIn

\* What PayoutTypeOK asks of a step that writes only rows of the ledger.
LEMMA LedgerTypes ==
  ASSUME PayoutTypeOK, orders' \in [OrderIds -> OrderRow],
         referral' \in [OrderIds -> ReferralRow],
         partner' \in [pending : Int, total : Int, usage : Nat],
         confirming' \in [Confirmers -> OrderIds \cup {0}], reversal' \in ReversalState,
         UNCHANGED <<elsewhere, payouts, paidEarnings, sent, account, requester, admin>>
  PROVE  PayoutTypeOK'
  BY DEF PayoutTypeOK, RowsTypeOK, elsewhere

LEMMA BeginConfirm_Inv ==
  ASSUME PayoutInv, NEW f \in Confirmers, NEW o \in OrderIds, BeginConfirm(f, o)
  PROVE  PayoutInv'
<1>1. PayoutTypeOK /\ Ledger /\ Transfers
  BY DEF PayoutInv
<1>2. UNCHANGED <<rows, payouts, paidEarnings, sent, account, requester, admin, reversal>>
  BY DEF BeginConfirm
<1>3. confirming' \in [Confirmers -> OrderIds \cup {0}]
  BY <1>1 DEF BeginConfirm, PayoutTypeOK
<1>4. PayoutTypeOK'
  BY <1>1, <1>2, <1>3 DEF PayoutTypeOK, RowsTypeOK, rows
<1> QED
  BY <1>1, <1>2, <1>4, PaidStays
  DEF PayoutInv, Ledger, ReversalOK, BucketsCoverTotal, Transfers, SentAtMostOnce, rows

\* The commission is credited in full, whatever became of the referral since it was
\* read: the pending bucket and the lifetime total move together.
LEMMA CommitConfirm_Inv ==
  ASSUME PayoutInv, NEW f \in Confirmers, CommitConfirm(f)
  PROVE  PayoutInv'
<1> DEFINE o == confirming[f]
           due == referral[o].commission
<1>1. /\ PayoutTypeOK /\ Ledger /\ Transfers /\ o \in OrderIds
      /\ referral \in [OrderIds -> ReferralRow] /\ referral[o] \in ReferralRow
      /\ partner \in [pending : Int, total : Int, usage : Nat]
      /\ orders \in [OrderIds -> OrderRow] /\ reversal \in ReversalState
      /\ paidEarnings \in Nat /\ confirming \in [Confirmers -> OrderIds \cup {0}]
  BY DEF PayoutInv, PayoutTypeOK, RowsTypeOK, CommitConfirm
<1>2. /\ referral' = [referral EXCEPT ![o].status = "CONFIRMED"]
      /\ partner' = [pending |-> partner.pending + due, total |-> partner.total + due,
                     usage |-> partner.usage + 1]
      /\ confirming' = [confirming EXCEPT ![f] = 0]
      /\ UNCHANGED <<orders, elsewhere, payouts, paidEarnings, sent, account, requester, admin,
                     reversal>>
  BY DEF CommitConfirm, ConfirmReferralTx, elsewhere
<1>3. due \in Nat
  BY <1>1 DEF ReferralRow
<1> HIDE DEF o
<1>4. referral' \in [OrderIds -> ReferralRow]
  BY <1>1, <1>2 DEF ReferralRow
<1> HIDE DEF due
<1>5. /\ partner' \in [pending : Int, total : Int, usage : Nat]
      /\ partner'.pending + paidEarnings >= partner'.total
  BY <1>1, <1>2, <1>3 DEF Ledger, BucketsCoverTotal
<1>6. confirming' \in [Confirmers -> OrderIds \cup {0}]
  BY <1>1, <1>2
<1>7. PayoutTypeOK'
  BY <1>1, <1>2, <1>4, <1>5, <1>6, LedgerTypes
<1>8. PaidOutIsSettled'
  BY <1>1, <1>2, PaidStays DEF Ledger
<1> QED
  BY <1>1, <1>2, <1>5, <1>7, <1>8
  DEF PayoutInv, Ledger, ReversalOK, BucketsCoverTotal, Transfers, SentAtMostOnce

LEMMA BeginReversal_Inv ==
  ASSUME PayoutInv, NEW o \in OrderIds, NEW cents \in 1..MaxReversal, BeginReversal(o, cents)
  PROVE  PayoutInv'
<1>1. /\ PayoutTypeOK /\ Ledger /\ Transfers /\ orders[o] \in OrderRow
      /\ referral[o] \in ReferralRow
  BY DEF PayoutInv, PayoutTypeOK, RowsTypeOK
<1>2. cents \in Nat /\ orders[o].total > 0
  BY <1>1, PayoutsAssumption DEF BeginReversal, OrderRow
<1>3. UNCHANGED <<rows, payouts, paidEarnings, sent, account, requester, admin, confirming>>
  BY DEF BeginReversal
<1>4. reversal' = [ord |-> o, cents |-> cents, seen |-> referral[o]]
  BY DEF BeginReversal
<1>5. reversal' \in ReversalState
  BY <1>1, <1>2, <1>4 DEF ReversalState
<1>6. PayoutTypeOK'
  BY <1>1, <1>3, <1>5 DEF PayoutTypeOK, RowsTypeOK, rows
<1>7. ReversalOK'
  BY <1>2, <1>3, <1>4 DEF ReversalOK, rows
<1>8. PaidOutIsSettled'
  BY <1>1, <1>3, PaidStays DEF Ledger
<1> QED
  BY <1>1, <1>3, <1>6, <1>7, <1>8
  DEF PayoutInv, Ledger, BucketsCoverTotal, Transfers, SentAtMostOnce, rows

LEMMA CommitReversal_Inv ==
  ASSUME PayoutInv, CommitReversal
  PROVE  PayoutInv'
<1> DEFINE o == reversal.ord
           seen == reversal.seen
           cents == reversal.cents
           total == orders[o].total
           back == Reversal(seen, cents, total)
<1>0. /\ o \in OrderIds /\ cents \in Nat /\ seen \in ReferralRow /\ total > 0
      /\ orders \in [OrderIds -> OrderRow] /\ orders[o] \in OrderRow
      /\ PayoutTypeOK /\ Transfers /\ Ledger
  BY DEF PayoutInv, PayoutTypeOK, RowsTypeOK, ReversalState, Ledger, ReversalOK, CommitReversal
<1>1. ReverseCommission(o, seen, cents)
  BY DEF CommitReversal
<1>2. /\ reversal' = NoReversal /\ orders' = [orders EXCEPT ![o].refunded = @ + cents]
      /\ UNCHANGED <<elsewhere, payouts, paidEarnings, sent, account, requester, admin,
                     confirming>>
  BY DEF CommitReversal, elsewhere
<1>3. orders' \in [OrderIds -> OrderRow]
  <2> DEFINE row == [orders[o] EXCEPT !.refunded = @ + cents]
  <2>1. row \in OrderRow
    BY <1>0 DEF OrderRow
  <2>2. orders' = [orders EXCEPT ![o] = row]
    BY <1>2
  <2> HIDE DEF row
  <2> QED
    BY <1>0, <2>1, <2>2
<1>4. total \in Nat
  BY <1>0 DEF OrderRow
<1>5. /\ referral \in [OrderIds -> ReferralRow] /\ referral[o] \in ReferralRow
      /\ partner \in [pending : Int, total : Int, usage : Nat] /\ paidEarnings \in Nat
      /\ partner.pending + paidEarnings >= partner.total
  BY <1>0 DEF PayoutTypeOK, RowsTypeOK, Ledger, BucketsCoverTotal
<1> HIDE DEF total
<1>6. seen.commission \in Nat /\ seen.reversed \in Nat
  BY <1>0 DEF ReferralRow
<1>7. back \in Int
  <2> DEFINE share == (2 * cents * seen.commission + total) \div (2 * total)
  <2>1. total \in Nat /\ total > 0
    BY <1>0, <1>4 DEF total
  <2>2. share \in Int
    BY <1>0, <1>6, <2>1
  <2> HIDE DEF share
  <2> QED
    BY <1>6, <2>2 DEF Reversal, AtMost, share
<1>8. \* The rows of the ledger after the step.
      /\ referral' \in [OrderIds -> ReferralRow]
      /\ partner' \in [pending : Int, total : Int, usage : Nat]
      /\ partner'.pending + paidEarnings >= partner'.total
  <2>1. CASE seen.status = "PENDING"
    <3>1. /\ referral' = [referral EXCEPT ![o].status = "REVERSED", ![o].reversed = seen.reversed]
          /\ UNCHANGED partner
      BY <1>1, <2>1 DEF ReverseCommission
    <3> DEFINE row == [referral[o] EXCEPT !.status = "REVERSED", !.reversed = seen.reversed]
    <3>2. row \in ReferralRow
      BY <1>5, <1>6 DEF ReferralRow
    <3>3. referral' = [referral EXCEPT ![o] = row]
      BY <1>5, <3>1
    <3> HIDE DEF row
    <3> QED
      BY <1>5, <3>1, <3>2, <3>3
  <2>2. CASE seen.status \in {"CONFIRMED", "PAID"} /\ back > 0
    <3> DEFINE sofar == seen.reversed + back
               to == IF sofar >= seen.commission THEN "REVERSED" ELSE seen.status
               row == [referral[o] EXCEPT !.reversed = sofar, !.status = to]
    <3>1. /\ referral' = [referral EXCEPT ![o].reversed = sofar, ![o].status = to]
          /\ partner' = [pending |-> partner.pending - (IF seen.status = "PAID" THEN 0 ELSE back),
                         total |-> partner.total - back, usage |-> partner.usage]
      BY <1>1, <2>2 DEF ReverseCommission, total
    <3>2. to \in {"CONFIRMED", "PAID", "REVERSED"}
      BY <2>2
    <3> HIDE DEF back
    <3>3. sofar \in Nat
      BY <1>6, <1>7, <2>2
    <3> HIDE DEF to, sofar
    <3>4. row \in ReferralRow
      <4> DEFINE old == referral[o]
      <4>1. old \in ReferralRow
        BY <1>5
      <4> HIDE DEF old
      <4>2. [old EXCEPT !.reversed = sofar, !.status = to] \in ReferralRow
        BY <3>2, <3>3, <4>1 DEF ReferralRow
      <4> QED
        BY <4>2 DEF old
    <3>5. referral' = [referral EXCEPT ![o] = row]
      BY <1>5, <3>1
    <3> HIDE DEF row
    <3>6. referral' \in [OrderIds -> ReferralRow]
      BY <1>5, <3>4, <3>5
    <3> QED
      BY <1>5, <1>7, <2>2, <3>1, <3>6
  <2>3. CASE UNCHANGED <<referral, partner>>
    BY <1>5, <2>3
  <2> QED
    BY <1>1, <2>1, <2>2, <2>3 DEF ReverseCommission, total
<1>9. PayoutTypeOK'
  <2>1. confirming' \in [Confirmers -> OrderIds \cup {0}]
    BY <1>0, <1>2 DEF PayoutTypeOK
  <2> QED
    BY <1>0, <1>2, <1>3, <1>8, <2>1, NoReversal_Lemma, LedgerTypes
<1>10. PaidOutIsSettled'
  BY <1>0, <1>2, PaidStays DEF Ledger
<1> QED
  BY <1>0, <1>2, <1>8, <1>9, <1>10
  DEF PayoutInv, Ledger, ReversalOK, BucketsCoverTotal, Transfers, SentAtMostOnce

-----------------------------------------------------------------------------
(* The handlers of payouts. *)

\* What a handler of an admin remembers.
LEMMA Step_Lemma ==
  ASSUME PayoutTypeOK, NEW a \in PayoutAdmins, NEW p \in PayoutIds,
         NEW what \in {"transfer", "settle", "approve", "mark", "reject"}, Step(a, what, p)
  PROVE  /\ admin' \in [PayoutAdmins -> AdminState] /\ admin'[a].payout = p
         /\ \A b \in PayoutAdmins : b # a => admin'[b] = admin[b]
<1> DEFINE state == [doing |-> what, payout |-> p]
<1>1. state \in AdminState /\ state.payout = p
  BY DEF AdminState
<1>2. admin' = [admin EXCEPT ![a] = state] /\ admin \in [PayoutAdmins -> AdminState]
  BY DEF Step, PayoutTypeOK
<1> HIDE DEF state
<1> QED
  BY <1>1, <1>2

LEMMA Rest_Lemma ==
  ASSUME PayoutTypeOK, NEW a \in PayoutAdmins, Rest(a)
  PROVE  /\ admin' \in [PayoutAdmins -> AdminState] /\ admin'[a].doing = "idle"
         /\ \A b \in PayoutAdmins : b # a => admin'[b] = admin[b]
  BY Idle_Lemma DEF Rest, PayoutTypeOK

Statuses == {"NONE", "PAID", "REJECTED"} \cup OpenStatuses

LEMMA SetPayout_Lemma ==
  ASSUME PayoutTypeOK, NEW p \in PayoutIds, NEW status \in Statuses, SetPayout(p, status)
  PROVE  /\ payouts' \in [PayoutIds -> PayoutRow]
         /\ payouts'[p].status = status /\ payouts'[p].net = payouts[p].net
         /\ payouts'[p].amount = payouts[p].amount
         /\ \A q \in PayoutIds : q # p => payouts'[q] = payouts[q]
<1> DEFINE row == [payouts[p] EXCEPT !.status = status]
<1>1. payouts[p] \in PayoutRow /\ payouts \in [PayoutIds -> PayoutRow]
  BY DEF PayoutTypeOK
<1>2. /\ row \in PayoutRow /\ row.status = status /\ row.net = payouts[p].net
      /\ row.amount = payouts[p].amount
  BY <1>1 DEF PayoutRow, Statuses
<1>3. payouts' = [payouts EXCEPT ![p] = row]
  BY DEF SetPayout
<1> HIDE DEF row
<1> QED
  BY <1>1, <1>2, <1>3

\* What the ledger's invariants need of a step that touches no referral and no order.
LEMMA LedgerStays ==
  ASSUME Ledger, UNCHANGED <<orders, referral, partner, paidEarnings, reversal>>,
         AmountIn({"PAID"})' <= AmountIn({"PAID"}),
         AmountIn({"PAID"}) \in Nat, AmountIn({"PAID"})' \in Nat, paidEarnings \in Nat
  PROVE  Ledger'
  BY DEF Ledger, ReversalOK, BucketsCoverTotal, PaidOutIsSettled

LEMMA NetOf_Lemma == ASSUME NEW amount \in Int PROVE NetOf(amount) \in Nat
<1>1. \A bps \in Nat : BpsCents(amount, bps) \in Int
  BY DEF BpsCents
<1> QED
  BY <1>1, PayoutsAssumption DEF NetOf, AtLeastZero

LEMMA Requests_Inv ==
  ASSUME PayoutInv, NEW r \in Requesters,
         ReadEarned(r) \/ ReadPaid(r) \/ ReadOpen(r) \/ GiveUpRequest(r)
  PROVE  PayoutInv'
<1>1. /\ PayoutTypeOK /\ requester \in [Requesters -> ReadSoFar]
      /\ payouts \in [PayoutIds -> PayoutRow] /\ partner.total \in Int
  BY DEF PayoutInv, PayoutTypeOK, RowsTypeOK
<1>2. UNCHANGED <<rows, payouts, paidEarnings, sent, account, admin, confirming, reversal>>
  BY DEF ReadEarned, ReadPaid, ReadOpen, GiveUpRequest
<1>3. \A S : AmountIn(S) \in Nat
  BY <1>1, AmountsAreNat
<1>4. requester' \in [Requesters -> ReadSoFar]
  <2>1. requester[r] \in ReadSoFar
    BY <1>1
  <2>2. ASSUME NEW row \in ReadSoFar, requester' = [requester EXCEPT ![r] = row]
        PROVE  requester' \in [Requesters -> ReadSoFar]
    BY <1>1, <2>2
  <2>3. CASE ReadEarned(r)
    BY <1>1, <2>1, <2>2, <2>3 DEF ReadEarned, ReadSoFar
  <2>4. CASE ReadPaid(r)
    <3>1. PICK n \in Nat : n = AmountIn({"PAID"})
      BY <1>3
    <3> QED
      BY <1>1, <2>1, <2>2, <2>4, <3>1 DEF ReadPaid, ReadSoFar
  <2>5. CASE ReadOpen(r)
    <3>1. PICK n \in Nat : n = AmountIn(OpenStatuses)
      BY <1>3
    <3> QED
      BY <1>1, <2>1, <2>2, <2>5, <3>1 DEF ReadOpen, ReadSoFar
  <2>6. CASE GiveUpRequest(r)
    BY <2>2, <2>6, NothingRead_Lemma DEF GiveUpRequest
  <2> QED
    BY <2>3, <2>4, <2>5, <2>6
<1>5. PayoutTypeOK'
  BY <1>1, <1>2, <1>4 DEF PayoutTypeOK, RowsTypeOK, rows
<1> QED
  BY <1>2, <1>5, PaidStays
  DEF PayoutInv, Ledger, ReversalOK, BucketsCoverTotal, Transfers, SentAtMostOnce, rows

\* A payout is created from what the request has read, whatever that was.
LEMMA CreatePayout_Inv ==
  ASSUME PayoutInv, NEW r \in Requesters, NEW p \in PayoutIds,
         NEW amount \in MinPayout..Available(r), CreatePayout(r, p, amount)
  PROVE  PayoutInv'
<1> DEFINE row == [status |-> "REQUESTED", amount |-> amount, net |-> NetOf(amount),
                   method |-> "STRIPE"]
<1>1. amount \in Nat
  <2>1. MinPayout \in Nat /\ amount \in Int /\ amount >= MinPayout
    BY PayoutsAssumption
  <2> QED
    BY <2>1
<1>2. row \in PayoutRow /\ row.status = "REQUESTED"
  BY <1>1, NetOf_Lemma DEF PayoutRow, OpenStatuses
<1>3. /\ payouts' = [payouts EXCEPT ![p] = row] /\ payouts[p].status = "NONE"
      /\ requester' = [requester EXCEPT ![r] = NothingRead]
      /\ UNCHANGED <<rows, paidEarnings, sent, account, admin, confirming, reversal>>
  BY DEF CreatePayout
<1> HIDE DEF row
<1>4. /\ PayoutTypeOK /\ Transfers /\ Ledger /\ payouts \in [PayoutIds -> PayoutRow]
      /\ paidEarnings \in Nat
  BY DEF PayoutInv, PayoutTypeOK
<1>5. /\ payouts' \in [PayoutIds -> PayoutRow] /\ payouts'[p] = row
      /\ \A q \in PayoutIds : q # p => payouts'[q] = payouts[q]
  BY <1>2, <1>3, <1>4
<1>6. PayoutTypeOK'
  BY <1>3, <1>4, <1>5, NothingRead_Lemma DEF PayoutTypeOK, RowsTypeOK, rows
<1>7. Transfers'
  BY <1>2, <1>3, <1>4, <1>5 DEF Transfers, SentAtMostOnce, PayoutTypeOK, AdminState
<1>8. Ledger'
  <2>1. AmountIn({"PAID"})' = AmountIn({"PAID"})
              - (IF payouts[p].status \in {"PAID"} THEN payouts[p].amount ELSE 0)
              + (IF payouts'[p].status \in {"PAID"} THEN payouts'[p].amount ELSE 0)
    BY <1>4, <1>5, AmountInChanges
  <2>2. payouts[p].status \notin {"PAID"} /\ payouts'[p].status \notin {"PAID"}
    BY <1>2, <1>3, <1>5
  <2>3. AmountIn({"PAID"}) \in Nat
    BY <1>4, AmountsAreNat
  <2>4. AmountIn({"PAID"})' = AmountIn({"PAID"})
    BY <2>1, <2>2, <2>3
  <2> QED
    BY <1>3, <1>4, <2>3, <2>4, LedgerStays DEF rows
<1> QED
  BY <1>6, <1>7, <1>8 DEF PayoutInv

\* A handler begins, transfers or ends without touching a row of the database.
LEMMA AdminMoves_Inv ==
  ASSUME PayoutInv, NEW a \in PayoutAdmins,
         \/ \E p \in PayoutIds : BeginApprove(a, p) \/ BeginMarkPaid(a, p) \/ BeginReject(a, p)
         \/ Abandon(a)
  PROVE  PayoutInv'
<1>0. PayoutTypeOK /\ Transfers /\ Ledger
  BY DEF PayoutInv
<1>1. UNCHANGED <<rows, payouts, paidEarnings, sent, account, requester, confirming, reversal>>
  BY DEF BeginApprove, BeginMarkPaid, BeginReject, Abandon
<1>2. Ledger'
  BY <1>0, <1>1, PaidStays DEF Ledger, rows, ReversalOK, BucketsCoverTotal
<1>3. Transfers' /\ admin' \in [PayoutAdmins -> AdminState]
  <2>1. ASSUME NEW p \in PayoutIds, BeginApprove(a, p) \/ BeginMarkPaid(a, p) \/ BeginReject(a, p)
        PROVE  Transfers' /\ admin' \in [PayoutAdmins -> AdminState]
    <3>1. PICK what \in {"transfer", "settle", "approve", "mark", "reject"} : Step(a, what, p)
      BY <2>1 DEF BeginApprove, BeginMarkPaid, BeginReject
    <3>2. payouts[p].status # "NONE"
      BY <2>1 DEF BeginApprove, BeginMarkPaid, BeginReject, OpenStatuses
    <3> QED
      BY <1>0, <1>1, <3>1, <3>2, Step_Lemma DEF Transfers, SentAtMostOnce
  <2>2. CASE Abandon(a)
    BY <1>0, <1>1, <2>2, Rest_Lemma DEF Abandon, Transfers, SentAtMostOnce
  <2> QED
    BY <2>1, <2>2
<1>4. PayoutTypeOK'
  BY <1>0, <1>1, <1>3 DEF PayoutTypeOK, RowsTypeOK, rows
<1> QED
  BY <1>2, <1>3, <1>4 DEF PayoutInv

\* Stripe's idempotency key is what keeps a second approval from sending again.
LEMMA Transfer_Inv ==
  ASSUME PayoutInv, NEW a \in PayoutAdmins, Transfer(a)
  PROVE  PayoutInv'
<1> DEFINE p == admin[a].payout
<1>0. /\ PayoutTypeOK /\ Transfers /\ Ledger /\ p \in PayoutIds /\ payouts[p].status # "NONE"
      /\ payouts[p] \in PayoutRow /\ sent \in [PayoutIds -> Nat]
  BY DEF PayoutInv, Transfers, AdminState, Transfer, PayoutTypeOK
<1>1. UNCHANGED <<rows, payouts, paidEarnings, account, requester, confirming, reversal>>
  BY DEF Transfer
<1>2. /\ Step(a, "settle", p)
      /\ sent' = IF sent[p] = 0 THEN [sent EXCEPT ![p] = payouts[p].net] ELSE sent
  BY DEF Transfer
<1> HIDE DEF p
<1>3. /\ admin' \in [PayoutAdmins -> AdminState] /\ admin'[a].payout = p
      /\ \A b \in PayoutAdmins : b # a => admin'[b] = admin[b]
  BY <1>0, <1>2, Step_Lemma
<1>4. /\ sent' \in [PayoutIds -> Nat] /\ sent'[p] \in {0, payouts[p].net}
      /\ \A q \in PayoutIds : q # p => sent'[q] = sent[q]
  BY <1>0, <1>2 DEF Transfers, SentAtMostOnce, PayoutRow
<1>5. Transfers'
  BY <1>0, <1>1, <1>3, <1>4 DEF Transfers, SentAtMostOnce
<1>6. Ledger'
  BY <1>0, <1>1, PaidStays DEF Ledger, rows, ReversalOK, BucketsCoverTotal
<1>7. PayoutTypeOK'
  BY <1>0, <1>1, <1>3, <1>4 DEF PayoutTypeOK, RowsTypeOK, rows
<1> QED
  BY <1>5, <1>6, <1>7 DEF PayoutInv

\* A settlement moves its amount from pending to paid out, and marks referrals paid.
LEMMA SettlePayee_Rows ==
  ASSUME PayoutTypeOK, Ledger, NEW p \in PayoutIds, SettlePayee(p)
  PROVE  /\ paidEarnings' = paidEarnings + payouts[p].amount
         /\ paidEarnings' \in Nat
         /\ partner' \in [pending : Int, total : Int, usage : Nat]
         /\ partner'.pending + paidEarnings' >= partner'.total
         /\ referral' \in [OrderIds -> ReferralRow]
         /\ \A o \in OrderIds : referral'[o].status =
              IF o \in CoveredByPayouts(paidEarnings + payouts[p].amount) THEN "PAID"
              ELSE referral[o].status
<1> DEFINE amount == payouts[p].amount
           covered == CoveredByPayouts(paidEarnings + amount)
<1>1. /\ amount \in Nat /\ paidEarnings \in Nat
      /\ partner \in [pending : Int, total : Int, usage : Nat]
      /\ referral \in [OrderIds -> ReferralRow]
      /\ partner.pending + paidEarnings >= partner.total
  BY DEF Ledger, BucketsCoverTotal, PayoutTypeOK, RowsTypeOK, PayoutRow
<1>2. /\ paidEarnings' = paidEarnings + amount
      /\ partner' = [partner EXCEPT !.pending = @ - amount]
      /\ referral' = [o \in OrderIds |-> IF o \in covered
                        THEN [referral[o] EXCEPT !.status = "PAID"] ELSE referral[o]]
  BY DEF SettlePayee
<1> HIDE DEF amount, covered
<1>3. /\ partner' \in [pending : Int, total : Int, usage : Nat]
      /\ partner'.pending = partner.pending - amount
      /\ partner'.total = partner.total
  BY <1>1, <1>2
<1>4. /\ referral' \in [OrderIds -> ReferralRow]
      /\ \A o \in OrderIds :
            referral'[o].status = IF o \in covered THEN "PAID" ELSE referral[o].status
  <2> DEFINE paid(o) == [referral[o] EXCEPT !.status = "PAID"]
  <2>1. ASSUME NEW o \in OrderIds PROVE paid(o) \in ReferralRow /\ paid(o).status = "PAID"
    <3> DEFINE old == referral[o]
    <3>1. old \in ReferralRow
      BY <1>1
    <3> HIDE DEF old
    <3>2. LET new == [old EXCEPT !.status = "PAID"] IN new \in ReferralRow /\ new.status = "PAID"
      BY <3>1 DEF ReferralRow
    <3> QED
      BY <3>2 DEF old
  <2>2. referral' = [o \in OrderIds |-> IF o \in covered THEN paid(o) ELSE referral[o]]
    BY <1>2
  <2> HIDE DEF paid
  <2> QED
    BY <1>1, <2>1, <2>2
<1> QED
  BY <1>1, <1>2, <1>3, <1>4 DEF covered, amount

\* The settlement counts a payout that becomes PAID as paid out; it may count one
\* that was PAID already a second time.
LEMMA CommitPaid_Inv ==
  ASSUME PayoutInv, NEW a \in PayoutAdmins, CommitPaid(a)
  PROVE  PayoutInv'
<1> DEFINE p == admin[a].payout
<1>0. /\ PayoutTypeOK /\ Transfers /\ Ledger /\ p \in PayoutIds
      /\ payouts \in [PayoutIds -> PayoutRow] /\ payouts[p] \in PayoutRow
      /\ paidEarnings \in Nat
  BY DEF PayoutInv, PayoutTypeOK, AdminState
<1>1. /\ SettlePayee(p) /\ SetPayout(p, "PAID") /\ Rest(a)
      /\ UNCHANGED <<orders, elsewhere, sent, account, requester, confirming, reversal>>
  BY DEF CommitPaid, elsewhere
<1> HIDE DEF p
<1>2. /\ payouts' \in [PayoutIds -> PayoutRow]
      /\ payouts'[p].status = "PAID" /\ payouts'[p].net = payouts[p].net
      /\ payouts'[p].amount = payouts[p].amount
      /\ \A q \in PayoutIds : q # p => payouts'[q] = payouts[q]
  <2>1. "PAID" \in Statuses
    BY DEF Statuses
  <2> QED
    BY <1>0, <1>1, <2>1, SetPayout_Lemma
<1>3. /\ admin' \in [PayoutAdmins -> AdminState] /\ admin'[a].doing = "idle"
      /\ \A b \in PayoutAdmins : b # a => admin'[b] = admin[b]
  BY <1>0, <1>1, Rest_Lemma
<1>4. /\ paidEarnings' = paidEarnings + payouts[p].amount /\ paidEarnings' \in Nat
      /\ partner' \in [pending : Int, total : Int, usage : Nat]
      /\ partner'.pending + paidEarnings' >= partner'.total
      /\ referral' \in [OrderIds -> ReferralRow]
      /\ \A o \in OrderIds : referral[o].status = "PAID" => referral'[o].status = "PAID"
  BY <1>0, <1>1, SettlePayee_Rows
<1>5. PayoutTypeOK'
  BY <1>0, <1>1, <1>2, <1>3, <1>4 DEF PayoutTypeOK, RowsTypeOK, elsewhere
<1>6. Transfers'
  BY <1>0, <1>1, <1>2, <1>3 DEF Transfers, SentAtMostOnce, PayoutTypeOK, AdminState
<1>7. PaidOutIsSettled'
  <2>1. /\ payouts[p].amount \in Nat /\ AmountIn({"PAID"}) \in Nat
        /\ paidEarnings >= AmountIn({"PAID"})
    BY <1>0, AmountsAreNat DEF PayoutRow, Ledger, PaidOutIsSettled
  <2>2. AmountIn({"PAID"})' = AmountIn({"PAID"})
                                - (IF payouts[p].status \in {"PAID"} THEN payouts[p].amount ELSE 0)
                                + (IF payouts'[p].status \in {"PAID"} THEN payouts'[p].amount ELSE 0)
    BY <1>0, <1>2, AmountInChanges
  <2>3. AmountIn({"PAID"})' <= AmountIn({"PAID"}) + payouts[p].amount
    BY <1>2, <2>1, <2>2
  <2>4. AmountIn({"PAID"})' \in Int
    BY <1>2, <2>1, <2>2
  <2> QED
    BY <1>0, <1>4, <2>1, <2>3, <2>4 DEF PaidOutIsSettled
<1>8. ReversalOK' /\ BucketsCoverTotal'
  BY <1>0, <1>1, <1>4 DEF Ledger, ReversalOK, BucketsCoverTotal, PayoutTypeOK, ReversalState
<1> QED
  BY <1>5, <1>6, <1>7, <1>8 DEF PayoutInv, Ledger

\* An approval or a rejection commits the payout's status alone.
LEMMA CommitStatus_Inv ==
  ASSUME PayoutInv, NEW a \in PayoutAdmins, CommitApprove(a) \/ CommitReject(a)
  PROVE  PayoutInv'
<1> DEFINE p == admin[a].payout
<1>0. /\ PayoutTypeOK /\ Transfers /\ Ledger /\ p \in PayoutIds
      /\ payouts \in [PayoutIds -> PayoutRow] /\ payouts[p] \in PayoutRow
      /\ paidEarnings \in Nat
  BY DEF PayoutInv, PayoutTypeOK, AdminState
<1>1. /\ Rest(a) /\ UNCHANGED <<rows, paidEarnings, sent, account, requester, confirming, reversal>>
      /\ \E status \in {"APPROVED", "REJECTED"} : SetPayout(p, status)
  BY DEF CommitApprove, CommitReject
<1> HIDE DEF p
<1>2. PICK status \in {"APPROVED", "REJECTED"} : SetPayout(p, status)
  BY <1>1
<1>3. status \in Statuses /\ status \notin {"NONE", "PAID"}
  BY DEF Statuses, OpenStatuses
<1>4. /\ payouts' \in [PayoutIds -> PayoutRow]
      /\ payouts'[p].status = status /\ payouts'[p].net = payouts[p].net
      /\ payouts'[p].amount = payouts[p].amount
      /\ \A q \in PayoutIds : q # p => payouts'[q] = payouts[q]
  BY <1>0, <1>2, <1>3, SetPayout_Lemma
<1>5. /\ admin' \in [PayoutAdmins -> AdminState] /\ admin'[a].doing = "idle"
      /\ \A b \in PayoutAdmins : b # a => admin'[b] = admin[b]
  BY <1>0, <1>1, Rest_Lemma
<1>6. PayoutTypeOK'
  BY <1>0, <1>1, <1>4, <1>5 DEF PayoutTypeOK, RowsTypeOK, rows
<1>7. Transfers'
  BY <1>0, <1>1, <1>3, <1>4, <1>5 DEF Transfers, SentAtMostOnce, PayoutTypeOK, AdminState
<1>8. Ledger'
  <2>1. payouts[p].amount \in Nat /\ AmountIn({"PAID"}) \in Nat
    BY <1>0, AmountsAreNat DEF PayoutRow
  <2>2. AmountIn({"PAID"})' = AmountIn({"PAID"})
                                - (IF payouts[p].status \in {"PAID"} THEN payouts[p].amount ELSE 0)
                                + (IF payouts'[p].status \in {"PAID"} THEN payouts'[p].amount ELSE 0)
    BY <1>0, <1>4, AmountInChanges
  <2>3. AmountIn({"PAID"})' <= AmountIn({"PAID"})
    BY <1>3, <1>4, <2>1, <2>2
  <2>4. AmountIn({"PAID"})' \in Int
    BY <1>3, <1>4, <2>1, <2>2
  <2> QED
    BY <1>0, <1>1, <2>1, <2>3, <2>4 DEF Ledger, ReversalOK, BucketsCoverTotal, PaidOutIsSettled, rows
<1> QED
  BY <1>6, <1>7, <1>8 DEF PayoutInv

-----------------------------------------------------------------------------
(* The theorems. *)

LEMMA PayoutNext_Inv == PayoutInv /\ [PayoutNext]_payoutVars => PayoutInv'
<1> SUFFICES ASSUME PayoutInv, [PayoutNext]_payoutVars PROVE PayoutInv'
  OBVIOUS
<1>1. CASE LedgerStep
  BY <1>1, BeginConfirm_Inv, CommitConfirm_Inv, BeginReversal_Inv, CommitReversal_Inv
  DEF LedgerStep
<1>2. CASE /\ UNCHANGED <<rows, payouts, paidEarnings, sent, requester, admin, confirming, reversal>>
           /\ account' \in {"none", "onboarding", "ready"}
  BY <1>2, PaidStays
  DEF rows, PayoutInv, PayoutTypeOK, RowsTypeOK, Transfers, Ledger, ReversalOK, SentAtMostOnce,
      BucketsCoverTotal
<1>3. CASE Onboard \/ FinishOnboarding
  BY <1>2, <1>3 DEF Onboard, FinishOnboarding
<1>4. ASSUME NEW r \in Requesters, PartnerStep(r) PROVE PayoutInv'
  BY <1>4, Requests_Inv, CreatePayout_Inv DEF PartnerStep
<1>5. ASSUME NEW a \in PayoutAdmins, AdminStep(a) PROVE PayoutInv'
  BY <1>5, AdminMoves_Inv, Transfer_Inv, CommitPaid_Inv, CommitStatus_Inv DEF AdminStep
<1>6. CASE UNCHANGED payoutVars
  BY <1>2, <1>6 DEF payoutVars, PayoutInv, PayoutTypeOK
<1> QED
  BY <1>1, <1>3, <1>4, <1>5, <1>6 DEF PayoutNext

\* The inductive invariant: nothing is sent for a payout before it exists, admins
\* act on existing payouts only, a refund in flight is of an order that was charged
\* something, and the counters are those of the ledger.
THEOREM PayoutInvAlways == PayoutSpec => []PayoutInv
<1> QED
  BY PayoutInit_Inv, PayoutNext_Inv, PTL DEF PayoutSpec

\* Types: the balances that requests read, sums over the payouts, and the counters
\* that settlements move by them are natural numbers.
THEOREM PayoutTypeCorrect == PayoutSpec => []PayoutTypeOK
<1>1. PayoutInv => PayoutTypeOK
  BY DEF PayoutInv
<1> QED
  BY <1>1, PayoutInvAlways, PTL

\* However many admins approve a payout at once, die and approve it again, Stripe
\* sends its net amount at most once (executeTransfer's idempotency key).
THEOREM PayoutsAreSentOnce == PayoutSpec => []SentAtMostOnce
<1>1. PayoutInv => SentAtMostOnce
  BY DEF PayoutInv, Transfers
<1> QED
  BY <1>1, PayoutInvAlways, PTL

\* What the partner is shown as pending and as paid out always covers the lifetime
\* total, through confirmations, refunds that overlap settlements, and payouts
\* settled twice (settlePayee, reversePartnerCommissionOnRefund).
THEOREM BucketsAlwaysCoverTotal == PayoutSpec => []BucketsCoverTotal
<1>1. PayoutInv => BucketsCoverTotal
  BY DEF PayoutInv, Ledger
<1> QED
  BY <1>1, PayoutInvAlways, PTL

\* What the partner is shown as paid out is never less than the payouts that are
\* PAID add up to, also when two admins settle, reject and approve one payout at
\* once (settlePayee, against the aggregates of myBalance).
THEOREM PaidOutIsAlwaysSettled == PayoutSpec => []PaidOutIsSettled
<1>1. PayoutInv => PaidOutIsSettled
  BY DEF PayoutInv, Ledger
<1> QED
  BY <1>1, PayoutInvAlways, PTL

-----------------------------------------------------------------------------
(* The order in which referrals are settled. *)

\* A settlement pays referrals from the oldest on.
OldestFirst ==
  \A o \in OrderIds :
    /\ paidEarnings' # paidEarnings
    /\ referral[o].status = "CONFIRMED" /\ referral'[o].status = "PAID"
    => \A q \in 1..(o - 1) : referral'[q].status # "CONFIRMED"

LEMMA Unpaid_Oldest == UNCHANGED referral \/ UNCHANGED paidEarnings => OldestFirst
BY DEF OldestFirst

LEMMA SettlePayee_Oldest ==
  ASSUME PayoutInv, NEW p \in PayoutIds, SettlePayee(p)
  PROVE  OldestFirst
<1> DEFINE paidOut == paidEarnings + payouts[p].amount
<1>1. /\ \A o \in OrderIds : referral'[o].status =
            IF o \in CoveredByPayouts(paidOut) THEN "PAID" ELSE referral[o].status
      /\ referral \in [OrderIds -> ReferralRow] /\ paidOut \in Nat
  BY SettlePayee_Rows DEF PayoutInv, PayoutTypeOK, RowsTypeOK
<1> HIDE DEF paidOut
<1> SUFFICES ASSUME NEW o \in OrderIds, referral[o].status = "CONFIRMED",
                    referral'[o].status = "PAID", NEW q \in 1..(o - 1),
                    referral'[q].status = "CONFIRMED"
             PROVE  FALSE
  BY DEF OldestFirst
<1>2. q \in OrderIds /\ q \in 1..o
  BY OrdersAssumption DEF OrderIds
<1>3. o \in CoveredByPayouts(paidOut) /\ q \notin CoveredByPayouts(paidOut)
  BY <1>1, <1>2
<1>4. PayableUpTo(q) <= paidOut
  <2>1. PayableUpTo(o) <= paidOut
    BY <1>3 DEF CoveredByPayouts
  <2>2. /\ PayableUpTo(q) <= PayableUpTo(o)
        /\ PayableUpTo(q) \in Nat /\ PayableUpTo(o) \in Nat
    BY <1>1, <1>2, PayableGrows
  <2> QED
    BY <1>1, <2>1, <2>2
<1>5. referral[q].status = "CONFIRMED"
  BY <1>1, <1>2, <1>3
<1> QED
  BY <1>2, <1>3, <1>4, <1>5 DEF CoveredByPayouts

\* Settlements pay referrals oldest first (referralIdsCoveredByPayouts): a settlement
\* that pays a referral leaves no older one CONFIRMED, whatever doubled confirmations
\* and stale refunds have made of the referrals before it.
THEOREM ReferralsAreSettledOldestFirst == PayoutSpec => SettledOldestFirst
<1>1. PayoutInv /\ [PayoutNext]_payoutVars => [OldestFirst]_payoutVars
  <2> SUFFICES ASSUME PayoutInv, PayoutNext PROVE OldestFirst \/ UNCHANGED payoutVars
    OBVIOUS
  <2>1. UNCHANGED referral \/ UNCHANGED paidEarnings => OldestFirst
    BY Unpaid_Oldest
  <2>2. CASE LedgerStep
    BY <2>1, <2>2 DEF LedgerStep, BeginConfirm, CommitConfirm, BeginReversal, CommitReversal
  <2>3. CASE Onboard \/ FinishOnboarding
    BY <2>1, <2>3 DEF Onboard, FinishOnboarding, rows
  <2>4. ASSUME NEW r \in Requesters, PartnerStep(r) PROVE OldestFirst
    <3>1. UNCHANGED rows
      BY <2>4
      DEF PartnerStep, ReadEarned, ReadPaid, ReadOpen, CreatePayout, GiveUpRequest
    <3>2. UNCHANGED referral
      BY <3>1 DEF rows
    <3> QED
      BY <2>1, <3>2
  <2>5. ASSUME NEW a \in PayoutAdmins, CommitPaid(a) PROVE OldestFirst
    <3>1. admin[a].payout \in PayoutIds /\ SettlePayee(admin[a].payout)
      BY <2>5 DEF PayoutInv, PayoutTypeOK, AdminState, CommitPaid
    <3> QED
      BY <3>1, SettlePayee_Oldest
  <2>6. ASSUME NEW a \in PayoutAdmins, AdminStep(a) PROVE OldestFirst
    <3>1. CommitPaid(a) \/ UNCHANGED rows
      BY <2>6
      DEF AdminStep, BeginApprove, Transfer, CommitApprove, BeginMarkPaid, BeginReject,
          CommitReject, Abandon
    <3>2. CommitPaid(a) \/ UNCHANGED referral
      BY <3>1 DEF rows
    <3> QED
      BY <2>1, <2>5, <3>2
  <2> QED
    BY <2>2, <2>3, <2>4, <2>6 DEF PayoutNext
<1> QED
  BY <1>1, PayoutInvAlways, PTL DEF PayoutSpec, SettledOldestFirst, OldestFirst
=============================================================================
