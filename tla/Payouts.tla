------------------------------ MODULE Payouts -------------------------------
(***************************************************************************)
(* Payouts of a delivery partner's commission (PayoutsService), over the   *)
(* referral rows of Orders: the partner's requests, the admins that        *)
(* approve, attest or reject them, the Stripe transfers, and the           *)
(* settlement that moves the partner's counters.  The partner stays        *)
(* APPROVED.  An instructor's payouts differ only in that SettlePayee does *)
(* nothing for them.                                                       *)
(*                                                                         *)
(* Every handler is cut at its awaits; a settlement is one transaction.    *)
(* While it holds the partner's row neither a confirmation nor a refund    *)
(* can commit, so nothing it read changes under it.  A confirmation and a  *)
(* refund write what an earlier read told them, however stale it is.       *)
(***************************************************************************)
EXTENDS Orders

CONSTANTS
  Sale,           \* Sale[o]: what order o was charged
  MaxPayouts,     \* bound: how many Payout rows may ever be created
  Confirmers,     \* fulfilments that confirm a referral at the same time
  Requesters,     \* the partner's payout requests in flight together
  PayoutAdmins,   \* admins acting on payouts at the same time
  MaxReversal,    \* bound: the most cents refunded of one order, 0 = no refunds
  MinPayout,      \* MIN_PAYOUT_CENTS
  MinNet,         \* PAYOUT_MIN_NET_CENTS
  PlatformFeeBps, StripeFeeBps, StripeFeeFlat

PayoutIds == 1..MaxPayouts

ASSUME PayoutsAssumption ==
  /\ Sale \in [OrderIds -> Nat]
  /\ MaxOrders > 0 /\ MaxPayouts \in Nat \ {0}
  /\ MaxReversal \in Nat /\ MinPayout \in Nat \ {0} /\ MinNet \in Nat \ {0}
  /\ PlatformFeeBps \in Nat /\ StripeFeeBps \in Nat /\ StripeFeeFlat \in Nat

VARIABLES
  payouts,        \* PayoutIds -> Payout row ("NONE": not created yet)
  paidEarnings,   \* DeliveryPartner.paidEarningsCents
  sent,           \* PayoutIds -> cents that Stripe transferred under its key
  account,        \* the PayoutAccount and its state at Stripe
  requester,      \* Requesters -> what the request has read so far
  admin,          \* PayoutAdmins -> the handler between its awaits
  confirming,     \* Confirmers -> the order whose referral it has read PENDING (0: none)
  reversal        \* a refund between its read of a referral and its write

payoutVars == <<rows, payouts, paidEarnings, sent, account, requester, admin,
                confirming, reversal>>

OpenStatuses == {"REQUESTED", "APPROVED"}

PayoutRow == [status : {"NONE", "PAID", "REJECTED"} \cup OpenStatuses,
              amount : Nat, net : Nat, method : {"STRIPE", "BANK"}]

NoPayout == [status |-> "NONE", amount |-> 0, net |-> 0, method |-> "STRIPE"]

Unread == -1
ReadSoFar == [earned : Int, paid : Nat \cup {Unread}, open : Nat \cup {Unread}]
NothingRead == [earned |-> Unread, paid |-> Unread, open |-> Unread]

AdminState == [doing : {"idle", "transfer", "settle", "approve", "mark", "reject"},
               payout : PayoutIds]
AdminIdle == [doing |-> "idle", payout |-> 1]

ReversalState == [ord : OrderIds \cup {0}, cents : Nat, seen : ReferralRow]
NoReversal == [ord |-> 0, cents |-> 0, seen |-> NoReferral]

PayoutTypeOK ==
  /\ RowsTypeOK
  /\ payouts \in [PayoutIds -> PayoutRow]
  /\ paidEarnings \in Nat
  /\ sent \in [PayoutIds -> Nat]
  /\ account \in {"none", "onboarding", "ready"}
  /\ requester \in [Requesters -> ReadSoFar]
  /\ admin \in [PayoutAdmins -> AdminState]
  /\ confirming \in [Confirmers -> OrderIds \cup {0}]
  /\ reversal \in ReversalState

-----------------------------------------------------------------------------
\* bpsCents: Math.round.
BpsCents(amount, bps) == (amount * bps + 5000) \div 10000

\* calculatePayoutBreakdown: what is left for the payee after the fees.
NetOf(amount) ==
  AtLeastZero(amount - BpsCents(amount, PlatformFeeBps)
                     - (BpsCents(amount, StripeFeeBps) + StripeFeeFlat))

\* The orders are paid and their referrals wait for their confirmation, but for
\* the oldest: it is confirmed, other fulfilments of its order may have read it
\* before that, and the partner may have an open request for it from the time when
\* payouts went to bank accounts.
PayoutInit ==
  /\ orders = [o \in OrderIds |->
                 [NoOrder EXCEPT !.status = "PAID", !.code = "campaign", !.total = Sale[o]]]
  /\ referral = [o \in OrderIds |->
                   [status |-> IF o = 1 THEN "CONFIRMED" ELSE "PENDING",
                    commission |-> Commission(Sale[o]), reversed |-> 0]]
  /\ partner = [pending |-> Commission(Sale[1]), total |-> Commission(Sale[1]), usage |-> 1]
  /\ itemRefunded = [o \in OrderIds |-> [c \in Courses |-> 0]]
  /\ enrolled = {} /\ spent = 0 /\ balance = OpeningBalance /\ redeemed = {}
  /\ students = [c \in Courses |-> 0] /\ revenue = [c \in Courses |-> 0]
  /\ \E legacy \in {NoPayout, [status |-> "REQUESTED", amount |-> Commission(Sale[1]),
                               net |-> Commission(Sale[1]), method |-> "BANK"]} :
       payouts = [p \in PayoutIds |-> IF p = 1 THEN legacy ELSE NoPayout]
  /\ paidEarnings = 0
  /\ sent = [p \in PayoutIds |-> 0]
  /\ account = "none"
  /\ requester = [r \in Requesters |-> NothingRead]
  /\ admin = [a \in PayoutAdmins |-> AdminIdle]
  /\ confirming \in [Confirmers -> {0, 1}]
  /\ reversal = NoReversal

-----------------------------------------------------------------------------
(* The ledger beneath: confirmations and refunds. *)

\* confirmReferral reads a referral that is PENDING ...
BeginConfirm(f, o) ==
  /\ confirming[f] = 0 /\ referral[o].status = "PENDING"
  /\ confirming' = [confirming EXCEPT ![f] = o]
  /\ UNCHANGED <<rows, payouts, paidEarnings, sent, account, requester, admin, reversal>>

\* ... and confirms it without asking again, also when another fulfilment of the
\* order has confirmed it, a settlement paid it or a refund reversed it meanwhile.
\* (A fulfilment that dies here is one that never takes this step.)
CommitConfirm(f) ==
  /\ confirming[f] # 0
  /\ ConfirmReferralTx(confirming[f])
  /\ confirming' = [confirming EXCEPT ![f] = 0]
  /\ UNCHANGED <<payouts, paidEarnings, sent, account, requester, admin, reversal>>

\* reversePartnerCommissionOnRefund reads the referral ...
BeginReversal(o, cents) ==
  /\ reversal = NoReversal
  /\ orders[o].refunded + cents <= orders[o].total
  /\ orders[o].refunded + cents <= MaxReversal
  /\ reversal' = [ord |-> o, cents |-> cents, seen |-> referral[o]]
  /\ UNCHANGED <<rows, payouts, paidEarnings, sent, account, requester, admin, confirming>>

\* ... and writes what it computed, whatever a settlement made of it meanwhile.
CommitReversal ==
  /\ reversal # NoReversal
  /\ ReverseCommission(reversal.ord, reversal.seen, reversal.cents)
  /\ orders' = [orders EXCEPT ![reversal.ord].refunded = @ + reversal.cents]
  /\ reversal' = NoReversal
  /\ UNCHANGED <<itemRefunded, enrolled, students, revenue, spent, balance, redeemed,
                 payouts, paidEarnings, sent, account, requester, admin, confirming>>

-----------------------------------------------------------------------------
(* Settlement. *)

Owed(o) == AtLeastZero(referral[o].commission - referral[o].reversed)

\* findPayableReferrals, oldest first.
Payable(o) == referral[o].status \in {"CONFIRMED", "PAID"}
OwedIn(S) == SumFunctionOnSet([o \in OrderIds |-> Owed(o)], {q \in S : Payable(q)})
PayableUpTo(o) == OwedIn(1..o)

\* Mutant: the newest referrals are paid first.
CoveredNewestFirst(paidOut) ==
  {o \in OrderIds : /\ referral[o].status = "CONFIRMED"
                    /\ OwedIn(o..MaxOrders) <= paidOut}

\* referralIdsCoveredByPayouts: the loop stops at the first referral that does
\* not fit; no summand is negative, so these are the ones before it.
CoveredByPayouts(paidOut) ==
  {o \in OrderIds : referral[o].status = "CONFIRMED" /\ PayableUpTo(o) <= paidOut}

\* Mutant: the counters move by what reached the payee.
SettleNet(p) ==
  LET paidOut == paidEarnings + payouts[p].net IN
  /\ paidEarnings' = paidOut
  /\ partner' = [partner EXCEPT !.pending = @ - payouts[p].net]
  /\ referral' = [o \in OrderIds |-> IF o \in CoveredByPayouts(paidOut)
                    THEN [referral[o] EXCEPT !.status = "PAID"] ELSE referral[o]]

\* Mutant: the two counters move the wrong way.
SettleSwapped(p) ==
  LET paidOut == paidEarnings - payouts[p].amount IN
  /\ paidEarnings' = paidOut
  /\ partner' = [partner EXCEPT !.pending = @ + payouts[p].amount]
  /\ referral' = [o \in OrderIds |-> IF o \in CoveredByPayouts(paidOut)
                    THEN [referral[o] EXCEPT !.status = "PAID"] ELSE referral[o]]

SettlePayee(p) ==
  LET paidOut == paidEarnings + payouts[p].amount IN
  /\ paidEarnings' = paidOut
  /\ partner' = [partner EXCEPT !.pending = @ - payouts[p].amount]
  /\ referral' = [o \in OrderIds |-> IF o \in CoveredByPayouts(paidOut)
                    THEN [referral[o] EXCEPT !.status = "PAID"] ELSE referral[o]]

-----------------------------------------------------------------------------
(* The partner. *)

\* createStripeOnboardLink.
Onboard ==
  /\ account = "none"
  /\ account' = "onboarding"
  /\ UNCHANGED <<rows, payouts, paidEarnings, sent, requester, admin, confirming, reversal>>

FinishOnboarding ==
  /\ account = "onboarding"
  /\ account' = "ready"
  /\ UNCHANGED <<rows, payouts, paidEarnings, sent, requester, admin, confirming, reversal>>

AmountIn(S) == SumFunctionOnSet([p \in PayoutIds |-> payouts[p].amount],
                                {p \in PayoutIds : payouts[p].status \in S})

\* myBalance: the lifetime total first, then two aggregates that are queries of
\* their own and may be answered in either order.
ReadEarned(r) ==
  /\ requester[r] = NothingRead /\ account # "none"
  /\ requester' = [requester EXCEPT ![r].earned = partner.total]
  /\ UNCHANGED <<rows, payouts, paidEarnings, sent, account, admin, confirming, reversal>>

ReadPaid(r) ==
  /\ requester[r].earned # Unread /\ requester[r].paid = Unread
  /\ requester' = [requester EXCEPT ![r].paid = AmountIn({"PAID"})]
  /\ UNCHANGED <<rows, payouts, paidEarnings, sent, account, admin, confirming, reversal>>

ReadOpen(r) ==
  /\ requester[r].earned # Unread /\ requester[r].open = Unread
  /\ requester' = [requester EXCEPT ![r].open = AmountIn(OpenStatuses)]
  /\ UNCHANGED <<rows, payouts, paidEarnings, sent, account, admin, confirming, reversal>>

\* computeBalance, from what was read.
Available(r) == AtLeastZero(requester[r].earned - requester[r].paid - requester[r].open)
HasOpenRequest(r) == requester[r].open > 0

AllRead(r) == Unread \notin {requester[r].paid, requester[r].open}

CanRequest(r, amount) ==
  /\ ~ HasOpenRequest(r)
  /\ amount \in MinPayout..Available(r)
  /\ account = "ready"
  /\ NetOf(amount) >= MinNet

\* request, from its checks to createPayout: they use what was read only.
CreatePayout(r, p, amount) ==
  /\ AllRead(r) /\ CanRequest(r, amount)
  /\ payouts[p].status = "NONE" /\ \A q \in 1..(p - 1) : payouts[q].status # "NONE"
  /\ payouts' = [payouts EXCEPT ![p] = [status |-> "REQUESTED", amount |-> amount,
                                        net |-> NetOf(amount), method |-> "STRIPE"]]
  /\ requester' = [requester EXCEPT ![r] = NothingRead]
  /\ UNCHANGED <<rows, paidEarnings, sent, account, admin, confirming, reversal>>

\* A check fails, or the request dies.
GiveUpRequest(r) ==
  /\ requester[r] # NothingRead
  /\ requester' = [requester EXCEPT ![r] = NothingRead]
  /\ UNCHANGED <<rows, payouts, paidEarnings, sent, account, admin, confirming, reversal>>

-----------------------------------------------------------------------------
(* The admins. *)

Step(a, what, p) == admin' = [admin EXCEPT ![a] = [doing |-> what, payout |-> p]]
Rest(a) == admin' = [admin EXCEPT ![a] = AdminIdle]

SetPayout(p, status) == payouts' = [payouts EXCEPT ![p].status = status]

BeginApprove(a, p) ==
  /\ admin[a] = AdminIdle /\ payouts[p].status = "REQUESTED"
  /\ Step(a, IF payouts[p].method = "STRIPE" THEN "transfer" ELSE "approve", p)
  /\ UNCHANGED <<rows, payouts, paidEarnings, sent, account, requester, confirming,
                 reversal>>

\* Mutant: a transfer is created without an idempotency key.
TransferAgain(a) ==
  LET p == admin[a].payout IN
  /\ admin[a].doing = "transfer"
  /\ sent' = [sent EXCEPT ![p] = @ + payouts[p].net]
  /\ Step(a, "settle", p)
  /\ UNCHANGED <<rows, payouts, paidEarnings, account, requester, confirming, reversal>>

\* executeTransfer: Stripe answers a key it has seen with the transfer it has.
Transfer(a) ==
  LET p == admin[a].payout IN
  /\ admin[a].doing = "transfer"
  /\ sent' = IF sent[p] = 0 THEN [sent EXCEPT ![p] = payouts[p].net] ELSE sent
  /\ Step(a, "settle", p)
  /\ UNCHANGED <<rows, payouts, paidEarnings, account, requester, confirming, reversal>>

\* The transactions that end approve and markPaid.
CommitPaid(a) ==
  /\ admin[a].doing \in {"settle", "mark"}
  /\ SettlePayee(admin[a].payout)
  /\ SetPayout(admin[a].payout, "PAID")
  /\ Rest(a)
  /\ UNCHANGED <<orders, itemRefunded, enrolled, students, revenue, spent, balance,
                 redeemed, sent, account, requester, confirming, reversal>>

CommitApprove(a) ==
  /\ admin[a].doing = "approve"
  /\ SetPayout(admin[a].payout, "APPROVED")
  /\ Rest(a)
  /\ UNCHANGED <<rows, paidEarnings, sent, account, requester, confirming, reversal>>

\* markPaid asks for an open payout, whatever its method.
BeginMarkPaid(a, p) ==
  /\ admin[a] = AdminIdle /\ payouts[p].status \in OpenStatuses
  /\ Step(a, "mark", p)
  /\ UNCHANGED <<rows, payouts, paidEarnings, sent, account, requester, confirming,
                 reversal>>

BeginReject(a, p) ==
  /\ admin[a] = AdminIdle /\ payouts[p].status \notin {"NONE", "PAID"}
  /\ Step(a, "reject", p)
  /\ UNCHANGED <<rows, payouts, paidEarnings, sent, account, requester, confirming,
                 reversal>>

CommitReject(a) ==
  /\ admin[a].doing = "reject"
  /\ SetPayout(admin[a].payout, "REJECTED")
  /\ Rest(a)
  /\ UNCHANGED <<rows, paidEarnings, sent, account, requester, confirming, reversal>>

\* Stripe refuses the transfer, a transaction rolls back, or the process dies.
Abandon(a) ==
  /\ admin[a] # AdminIdle
  /\ Rest(a)
  /\ UNCHANGED <<rows, payouts, paidEarnings, sent, account, requester, confirming,
                 reversal>>

-----------------------------------------------------------------------------
LedgerStep ==
  \/ \E f \in Confirmers, o \in OrderIds : BeginConfirm(f, o)
  \/ \E f \in Confirmers : CommitConfirm(f)
  \/ \E o \in OrderIds, cents \in 1..MaxReversal : BeginReversal(o, cents)
  \/ CommitReversal

PartnerStep(r) ==
  \/ ReadEarned(r)
  \/ ReadPaid(r)
  \/ ReadOpen(r)
  \/ \E p \in PayoutIds : \E amount \in MinPayout..Available(r) : CreatePayout(r, p, amount)
  \/ GiveUpRequest(r)

AdminStep(a) ==
  \/ \E p \in PayoutIds : BeginApprove(a, p)
  \/ Transfer(a)
  \/ CommitPaid(a)
  \/ CommitApprove(a)
  \/ \E p \in PayoutIds : BeginMarkPaid(a, p)
  \/ \E p \in PayoutIds : BeginReject(a, p)
  \/ CommitReject(a)
  \/ Abandon(a)

PayoutNext ==
  \/ LedgerStep
  \/ Onboard \/ FinishOnboarding
  \/ \E r \in Requesters : PartnerStep(r)
  \/ \E a \in PayoutAdmins : AdminStep(a)

PayoutSpec == PayoutInit /\ [][PayoutNext]_payoutVars

-----------------------------------------------------------------------------
(* Properties. *)

\* stripe-payout.service.ts, executeTransfer: "a retried request ... returns the
\* same Transfer instead of creating a second one".  However many admins approve
\* a payout, crash and approve again, its net amount is sent at most once.
SentAtMostOnce == \A p \in PayoutIds : sent[p] \in {0, payouts[p].net}

\* settlePayee, "so the partner ledger and the payout ledger never disagree".
\* With two admins they may, but in one direction only: what the partner is shown
\* as paid out is never less than the payouts that are PAID.
PaidOutIsSettled == paidEarnings >= AmountIn({"PAID"})

\* Confirmations, settlements and refunds each move several counters; a refund
\* even works on a referral that a settlement has changed since.  The pending
\* and the paid part always cover the lifetime total.
BucketsCoverTotal == partner.pending + paidEarnings >= partner.total

\* referralIdsCoveredByPayouts, "oldest first": a settlement that pays a referral
\* leaves none that is older and payable behind, whatever confirmations and refunds
\* made of the referrals before it.  (A refund that has read a referral PAID writes
\* PAID again, past older ones, when a second confirmation came between.)
SettledOldestFirst ==
  [][\A o \in OrderIds :
       /\ paidEarnings' # paidEarnings
       /\ referral[o].status = "CONFIRMED" /\ referral'[o].status = "PAID"
       => \A q \in 1..(o - 1) : referral'[q].status # "CONFIRMED"]_payoutVars

\* payouts.service.ts, reject: "Paid payouts cannot be rejected".  False of the
\* code: an approval that dies after its transfer leaves the payout REQUESTED.
SentIsNotRejected == \A p \in PayoutIds : sent[p] > 0 => payouts[p].status # "REJECTED"
=============================================================================
