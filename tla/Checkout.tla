------------------------------ MODULE Checkout ------------------------------
(***************************************************************************)
(* Checkout, payment and fulfilment: the request handlers of              *)
(* CheckoutService, PaymentsService and OrdersService, each advancing one *)
(* await at a time over the rows of Orders, beside the payment providers. *)
(*                                                                        *)
(* A handler is a member of Requests (a buyer's HTTP request in flight)   *)
(* or of Events: the webhook handler of a payment event.  What a handler  *)
(* read before an await it keeps in its record, however stale it becomes. *)
(***************************************************************************)
EXTENDS Orders

CONSTANTS
  Requests,     \* HTTP requests of the buyer that may be in flight together
  Bodies,       \* the checkout requests the buyer may send
  MaxCleared,   \* bound: how many delayed payments may arrive
  MayCrash      \* whether a handler may die between two awaits

CheckoutBody ==
  [cart : (SUBSET Courses) \ {{}}, gateway : Gateways, key : Keys \cup {NoKey},
   code : Codes, useCredit : BOOLEAN]

\* The payment events of order o's session: o says that it is completed (at PayPal,
\* that its capture is), and -o that a delayed payment method has paid since.
Events == OrderIds \cup {-o : o \in OrderIds}
OrderOf(e) == IF e \in OrderIds THEN e ELSE -e

ASSUME CheckoutAssumption ==
  /\ Requests \cap Events = {}
  /\ Bodies \subseteq CheckoutBody
  /\ MaxCleared \in Nat
  /\ MayCrash \in BOOLEAN

Handlers == Requests \cup Events

VARIABLES
  session,      \* provider side: OrderIds -> state of the order's session
  recorded,     \* the payment events that have a WebhookEvent row
  handler       \* Handlers -> what the handler holds across its awaits

vars == <<rows, session, recorded, handler>>

\* "approved" is PayPal's, before the capture.  "unpaid" and "cleared" are Stripe's: the
\* session is complete, but its payment method is a delayed one that may never pay
\* (payment_status "unpaid"), and one that has paid after all.
SessionState == {"none", "open", "approved", "unpaid", "paid", "cleared", "expired"}

Paid(s) == s \in {"paid", "cleared"}

\* job: the handler that still has work after what pc does ("none": it returns).
\* pc: the next await.  cart, gateway, key, code, useCredit: the request body,
\* cart shrinking to the courses still for sale.  todo: orders to visit.  refs:
\* those of the orders read whose row held a providerRef when it was read.  ord:
\* the order being handled (0: none).
HandlerState ==
  [job : {"none", "checkout", "settle", "resume"},
   pc : {"idle", "scan", "reconcile", "expire", "capture", "abandon", "open",
         "drop", "quote", "create", "attribute", "start", "saveRef", "fulfil",
         "commit", "confirm", "credit"},
   cart : SUBSET Courses, gateway : Gateways \cup {"none"},
   key : Keys \cup {NoKey}, code : Codes, useCredit : BOOLEAN,
   quoted : [code : Codes, credit : Nat, total : Nat],
   todo : SUBSET OrderIds, refs : SUBSET OrderIds, ord : OrderIds \cup {0}]

NoQuote == [code |-> "none", credit |-> 0, total |-> 0]

Idle == [job |-> "none", pc |-> "idle", cart |-> {},
         gateway |-> "none", key |-> NoKey, code |-> "none", useCredit |-> FALSE,
         quoted |-> NoQuote, todo |-> {}, refs |-> {}, ord |-> 0]

TypeOK ==
  /\ RowsTypeOK
  /\ session \in [OrderIds -> SessionState]
  /\ recorded \subseteq Events
  /\ handler \in [Handlers -> HandlerState]

Init ==
  /\ RowsInit
  /\ session = [o \in OrderIds |-> "none"]
  /\ recorded = {}
  /\ handler = [h \in Handlers |-> Idle]

-----------------------------------------------------------------------------
(* How a handler moves. *)

external == <<session, recorded>>

Become(h, s) == handler' = [handler EXCEPT ![h] = s]
Return(h) == Become(h, Idle)
GoTo(h, pc) == Become(h, [handler[h] EXCEPT !.pc = pc])

\* All that is left to do concerns the order o.
AtOrder(pc, o) == [Idle EXCEPT !.pc = pc, !.ord = o]

RowsWithRef(S) == {o \in S : orders[o].ref}
IsLatest(o, S) == o \in S /\ \A q \in S : q <= o

\* CheckoutService.resurrectSession for a row read as PENDING: a cached URL
\* answers the request, otherwise the payment is started (again).
Resurrect(h, o, refs) ==
  IF o \in refs THEN Return(h)
  ELSE Become(h, AtOrder("start", o))

\* What a handler does with a PendingPaymentResolution of order o.
Resolve(h, o, res) ==
  LET me == [handler[h] EXCEPT !.todo = @ \ {o}, !.ord = o]
  IN CASE res = "PAID" -> Become(h, IF me.job = "checkout"
                                    THEN [me EXCEPT !.pc = "fulfil"]
                                    ELSE AtOrder("fulfil", o))
       [] res = "ABANDONED" -> IF me.job = "settle" THEN Return(h)
                               ELSE Become(h, [me EXCEPT !.pc = "abandon"])
       [] res = "RESUME" -> CASE me.job = "checkout" ->
                                   Become(h, [me EXCEPT !.pc = "reconcile"])
                              [] me.job = "resume" -> Resurrect(h, o, me.refs)
                              [] OTHER -> Return(h)

-----------------------------------------------------------------------------
(* The providers and the buyer's browser at the provider's pages. *)

\* At PayPal the buyer only approves; capturing moves the money.
AfterCheckout(gateway) == CASE gateway = "PAYPAL" -> {"approved"}
                            [] gateway = "STRIPE" -> {"paid", "unpaid"}
                            [] OTHER              -> {"paid"}

BuyerPays(o) ==
  /\ session[o] = "open"
  /\ \E s \in AfterCheckout(orders[o].gateway) : session' = [session EXCEPT ![o] = s]
  /\ UNCHANGED <<rows, recorded, handler>>

\* One that never pays leaves the session complete and unpaid.
PaymentClears(o) ==
  /\ session[o] = "unpaid"
  /\ Cardinality({q \in OrderIds : session[q] = "cleared"}) < MaxCleared
  /\ session' = [session EXCEPT ![o] = "cleared"]
  /\ UNCHANGED <<rows, recorded, handler>>

SessionTimesOut(o) ==
  /\ session[o] \in {"open", "approved"}
  /\ session' = [session EXCEPT ![o] = "expired"]
  /\ UNCHANGED <<rows, recorded, handler>>

-----------------------------------------------------------------------------
(* POST /checkout/session: CheckoutService.createSession. *)

\* Looks the Idempotency-Key up.  A replay with the same cart and gateway gets
\* the stored order's session; any other payload is refused.
BeginCheckout(r, body) ==
  /\ handler[r].pc = "idle"
  /\ IF WithKey(body.key) = {}
     THEN Become(r, [Idle EXCEPT !.job = "checkout", !.pc = "scan",
                                 !.cart = body.cart, !.gateway = body.gateway,
                                 !.key = body.key, !.code = body.code,
                                 !.useCredit = body.useCredit])
     ELSE \E o \in WithKey(body.key) :
            /\ orders[o].gateway = body.gateway
            /\ orders[o].items = body.cart
            /\ orders[o].code = body.code
            /\ orders[o].status = "PENDING"
            /\ ~ orders[o].ref
            /\ Become(r, AtOrder("start", o))
  /\ UNCHANGED <<rows, external>>

\* Drops the courses already owned and lists the pending orders that overlap.
ScanPending(r) ==
  /\ handler[r].pc = "scan"
  /\ LET want == handler[r].cart \ enrolled IN
     IF want = {} THEN Return(r)
     ELSE Become(r, [handler[r] EXCEPT !.pc = "reconcile", !.cart = want,
                                       !.todo = Pending(want),
                                       !.refs = RowsWithRef(Pending(want))])
  /\ UNCHANGED <<rows, external>>

\* reconcilePendingPayment of the next listed order, up to its first answer.
\* A failed lookup resolves to RESUME; SSLCommerz cannot be asked.
StripeSays(s) == CASE Paid(s)       -> "PAID"
                   [] s = "expired" -> "ABANDONED"
                   [] OTHER         -> "RESUME"

AskStripe(r, o) ==
  IF session[o] = "open"
  THEN Become(r, [handler[r] EXCEPT !.pc = "expire", !.ord = o])
  ELSE Resolve(r, o, StripeSays(session[o]))

\* Mutant: an approval taken for a payment.
AskPaypalApproved(r, o) ==
  /\ session[o] \in {"approved", "paid"}
  /\ Resolve(r, o, "PAID")

\* An unanswered PayPal call aborts the request.
AskPaypal(r, o) ==
  \/ /\ session[o] = "approved"
     /\ Become(r, [handler[r] EXCEPT !.pc = "capture", !.ord = o])
  \/ /\ session[o] = "paid"
     /\ Resolve(r, o, "PAID")
  \/ Return(r)

Reconcile(r) ==
  /\ handler[r].pc = "reconcile" /\ handler[r].todo # {}
  /\ \E o \in handler[r].todo :
       /\ IsLatest(o, handler[r].todo)
       /\ \/ Resolve(r, o, "RESUME")
          \/ o \in handler[r].refs /\ orders[o].gateway = "STRIPE" /\ AskStripe(r, o)
          \/ o \in handler[r].refs /\ orders[o].gateway = "PAYPAL" /\ AskPaypal(r, o)
  /\ UNCHANGED <<rows, external>>

\* Mutant: the order is abandoned whether or not the session could be expired.
ExpireSessionBlindly(r) ==
  /\ handler[r].pc = "expire"
  /\ LET o == handler[r].ord IN
     \E s \in {session[o]} \cup (IF session[o] = "open" THEN {"expired"} ELSE {}) :
       /\ session' = [session EXCEPT ![o] = s]
       /\ Resolve(r, o, "ABANDONED")
  /\ UNCHANGED <<rows, recorded>>

\* Stripe: expire the open session.  When the call fails the session is read
\* again, and when that fails too the order stays resumable.
ExpireSession(r) ==
  /\ handler[r].pc = "expire"
  /\ LET o == handler[r].ord IN
     \E s \in {session[o]} \cup (IF session[o] = "open" THEN {"expired"} ELSE {}) :
       /\ session' = [session EXCEPT ![o] = s]
       /\ \E res \in {StripeSays(s), "RESUME"} : Resolve(r, o, res)
  /\ UNCHANGED <<rows, recorded>>

\* PayPal: capture the approved order, idempotent at the provider.  A failed or
\* unanswered call aborts the request, whatever happened at the provider; an
\* answer without a completed capture leaves the order resumable.
CapturePayment(r) ==
  /\ handler[r].pc = "capture"
  /\ LET o == handler[r].ord IN
     \/ /\ session[o] \in {"approved", "paid"}
        /\ session' = [session EXCEPT ![o] = "paid"]
        /\ Resolve(r, o, "PAID") \/ Return(r)
     \/ /\ UNCHANGED session
        /\ Resolve(r, o, "RESUME") \/ Return(r)
  /\ UNCHANGED <<rows, recorded>>

\* The order was found abandoned, or the buyer cancelled it.
Abandon(r) ==
  /\ handler[r].pc = "abandon"
  /\ MarkFailedIfPending(handler[r].ord)
  /\ IF handler[r].job = "checkout" THEN GoTo(r, "reconcile") ELSE Return(r)
  /\ UNCHANGED external

\* Every listed order is reconciled: drop the courses that are owned by now.
FilterOwned(r) ==
  /\ handler[r].pc = "reconcile" /\ handler[r].todo = {}
  /\ LET want == handler[r].cart \ enrolled IN
     IF want = {} THEN Return(r)
     ELSE Become(r, [handler[r] EXCEPT !.pc = "open", !.cart = want, !.ord = 0])
  /\ UNCHANGED <<rows, external>>

\* Where createSession goes once no order of another gateway is left to drop.
Proceed(r, me) ==
  IF me.cart = {} THEN Resurrect(r, me.ord, me.refs)
  ELSE Become(r, [me EXCEPT !.pc = "quote", !.ord = 0, !.todo = {}, !.refs = {}])

\* The pending orders again: those of another gateway will be dropped, and the
\* courses of those of this gateway are not sold a second time.
ListOpen(r) ==
  /\ handler[r].pc = "open"
  /\ LET open == Pending(handler[r].cart)
         same == {o \in open : orders[o].gateway = handler[r].gateway}
     IN \E first \in OrderIds \cup {0} :
          /\ IF same = {} THEN first = 0 ELSE IsLatest(first, same)
          /\ LET me == [handler[r] EXCEPT
                          !.cart = @ \ UNION {orders[o].items : o \in same},
                          !.ord = first, !.todo = open \ same,
                          !.refs = RowsWithRef(same), !.pc = "drop"]
             IN IF me.todo = {} THEN Proceed(r, me) ELSE Become(r, me)
  /\ UNCHANGED <<rows, external>>

DropOther(r) ==
  /\ handler[r].pc = "drop"
  /\ \E o \in handler[r].todo :
       /\ MarkFailedIfPending(o)
       /\ LET me == [handler[r] EXCEPT !.todo = @ \ {o}] IN
          IF me.todo = {} THEN Proceed(r, me) ELSE Become(r, me)
  /\ UNCHANGED external

MakeQuote(r) ==
  /\ handler[r].pc = "quote"
  /\ Become(r, [handler[r] EXCEPT
                  !.pc = "create",
                  !.quoted = Quote(handler[r].cart, handler[r].code,
                                   handler[r].useCredit)])
  /\ UNCHANGED <<rows, external>>

\* What follows the order row (and its referral): free orders are fulfilled.
AfterCreate(r, o, total) ==
  Become(r, AtOrder(IF total = 0 THEN "fulfil" ELSE "start", o))

\* Mutant: no unique index, only the lookup at the start of the request.
KeyNeverTaken(key) == FALSE

\* The unique index on (userId, idempotencyKey) refuses the second row of a key.
KeyTaken(key) == WithKey(key) # {}

CreateOrder(r) ==
  /\ handler[r].pc = "create"
  /\ LET me     == handler[r]
         unused == {o \in OrderIds : orders[o].status = "NONE"}
     IN IF KeyTaken(me.key) \/ unused = {}
        THEN Return(r) /\ UNCHANGED rows
        ELSE \E o \in unused :
               /\ \A q \in unused : o <= q
               /\ CreatePending(o, me.cart, me.gateway, me.key, me.quoted)
               /\ IF me.quoted.code = "campaign"
                  THEN Become(r, AtOrder("attribute", o))
                  ELSE AfterCreate(r, o, me.quoted.total)
  /\ UNCHANGED external

Attribute(r) ==
  /\ handler[r].pc = "attribute"
  /\ CreateReferral(handler[r].ord)
  /\ AfterCreate(r, handler[r].ord, orders[handler[r].ord].total)
  /\ UNCHANGED external

\* PaymentsService.startPayment at the provider: a call repeated for the same
\* order finds the session it opened.  A refused or unanswered call aborts the
\* request.
StartPayment(r) ==
  /\ handler[r].pc = "start"
  /\ LET o == handler[r].ord IN
     \/ /\ session' = [session EXCEPT ![o] = IF @ = "none" THEN "open" ELSE @]
        /\ GoTo(r, "saveRef") \/ Return(r)
     \/ UNCHANGED session /\ Return(r)
  /\ UNCHANGED <<rows, recorded>>

StoreRef(r) ==
  /\ handler[r].pc = "saveRef"
  /\ SaveProviderRef(handler[r].ord)
  /\ Return(r)
  /\ UNCHANGED external

-----------------------------------------------------------------------------
(* The requests about one order: settle, resume, cancel.  Each reads the   *)
(* row first; one that is not PENDING ends there without a change.         *)

BeginOn(r, o, me) ==
  /\ handler[r].pc = "idle"
  /\ orders[o].status = "PENDING"
  /\ Become(r, me)
  /\ UNCHANGED <<rows, external>>

ReconcileOne(job, o) ==
  [Idle EXCEPT !.job = job, !.pc = "reconcile", !.todo = {o}, !.refs = RowsWithRef({o})]

BeginSettle(r, o) == BeginOn(r, o, ReconcileOne("settle", o))
BeginResume(r, o) == BeginOn(r, o, ReconcileOne("resume", o))
BeginCancel(r, o) == BeginOn(r, o, AtOrder("abandon", o))

-----------------------------------------------------------------------------
(* Webhooks and fulfilment. *)

\* Mutant: the provider's approval event is taken for the payment.
ReceiveApproval(e) ==
  /\ e \in OrderIds /\ session[e] \in {"approved", "paid"} /\ e \notin recorded
  /\ handler[e].pc = "idle"
  /\ recorded' = recorded \cup {e}
  /\ Become(e, AtOrder("fulfil", e))
  /\ UNCHANGED <<rows, session>>

\* checkout.session.completed comes whatever payment_status is, and
\* async_payment_succeeded after it; PayPal reports the completed capture.
Sent(e) ==
  IF e \in OrderIds THEN session[e] \in {"unpaid", "paid", "cleared"}
  ELSE session[OrderOf(e)] = "cleared"

\* processWebhook: recordOnce inserts the event row, and only the insert that
\* succeeds goes on to fulfil.  Nothing looks at payment_status.
ReceiveWebhook(e) ==
  /\ Sent(e) /\ e \notin recorded
  /\ handler[e].pc = "idle"
  /\ recorded' = recorded \cup {e}
  /\ Become(e, AtOrder("fulfil", OrderOf(e)))
  /\ UNCHANGED <<rows, session>>

\* Where a handler goes when the fulfilment it called has returned.
Fulfilled(h) ==
  IF handler[h].job = "checkout" THEN GoTo(h, "reconcile") ELSE Return(h)

\* Mutant: a payment for an order that was abandoned meanwhile is ignored.
BeginFulfilPending(h) ==
  /\ handler[h].pc = "fulfil"
  /\ IF orders[handler[h].ord].status # "PENDING" THEN Fulfilled(h)
     ELSE GoTo(h, "commit")
  /\ UNCHANGED <<rows, external>>

\* OrdersService.fulfill reads the order: only a PAID one is left alone.
BeginFulfil(h) ==
  /\ handler[h].pc = "fulfil"
  /\ IF orders[handler[h].ord].status = "PAID" THEN Fulfilled(h)
     ELSE GoTo(h, "commit")
  /\ UNCHANGED <<rows, external>>

\* Mutant: a fulfilment ends with its transaction.
CommitFulfilAlone(h) ==
  /\ handler[h].pc = "commit"
  /\ IF FulfilRollsBack(handler[h].ord)
     THEN Return(h) /\ UNCHANGED rows
     ELSE FulfilTx(handler[h].ord) /\ Fulfilled(h)
  /\ UNCHANGED external

CommitFulfil(h) ==
  /\ handler[h].pc = "commit"
  /\ IF FulfilRollsBack(handler[h].ord)
     THEN Return(h) /\ UNCHANGED rows
     ELSE FulfilTx(handler[h].ord) /\ GoTo(h, "confirm")
  /\ UNCHANGED external

\* confirmReferral after the commit: one read, then its own transaction.
ReadReferral(h) ==
  /\ handler[h].pc = "confirm"
  /\ IF referral[handler[h].ord].status = "PENDING" THEN GoTo(h, "credit")
     ELSE Fulfilled(h)
  /\ UNCHANGED <<rows, external>>

CreditPartner(h) ==
  /\ handler[h].pc = "credit"
  /\ ConfirmReferralTx(handler[h].ord)
  /\ Fulfilled(h)
  /\ UNCHANGED external

\* The process dies (or a database call fails) between two awaits.
Crash(h) ==
  /\ MayCrash /\ handler[h].pc # "idle"
  /\ Return(h)
  /\ UNCHANGED <<rows, external>>

-----------------------------------------------------------------------------
Begin(r) ==
  \/ \E body \in Bodies : BeginCheckout(r, body)
  \/ \E o \in OrderIds : BeginSettle(r, o) \/ BeginResume(r, o) \/ BeginCancel(r, o)

Step(h) ==
  \/ ScanPending(h) \/ Reconcile(h) \/ ExpireSession(h) \/ CapturePayment(h)
  \/ Abandon(h) \/ FilterOwned(h) \/ ListOpen(h) \/ DropOther(h)
  \/ MakeQuote(h) \/ CreateOrder(h) \/ Attribute(h) \/ StartPayment(h) \/ StoreRef(h)
  \/ BeginFulfil(h) \/ CommitFulfil(h) \/ ReadReferral(h) \/ CreditPartner(h)

Next ==
  \/ \E r \in Requests : Begin(r)
  \/ \E o \in OrderIds : BuyerPays(o) \/ PaymentClears(o) \/ SessionTimesOut(o)
  \/ \E e \in Events : ReceiveWebhook(e)
  \/ \E h \in Handlers : Step(h) \/ Crash(h)

Spec == Init /\ [][Next]_vars

\* A handler that runs takes its next step (Node's event loop), and a provider
\* redelivers an event until a handler has accepted it.  Buyers, delayed methods,
\* timeouts and crashes are not fair.
FairSpec ==
  /\ Spec
  /\ \A h \in Handlers : WF_vars(Step(h))
  /\ \A e \in Events : WF_vars(ReceiveWebhook(e))

-----------------------------------------------------------------------------
(* Properties. *)

Owing(o) == orders[o].status # "NONE" /\ orders[o].total > 0
Captured(o) == Paid(session[o]) \/ (orders[o].status # "NONE" /\ ~ Owing(o))

\* The buyer completed the session (a Stripe one), and its money may never come.
Outstanding(o) == session[o] = "unpaid"

Completed(o) == Captured(o) \/ Outstanding(o)

\* Checkout keeps the promise of Purchase: its rows and the provider's sessions
\* map to stages and payments, and every step of a handler to one of its steps
\* or to none (OrdersService.fulfill as the one choke point to access).
Stage(o) == CASE orders[o].status = "NONE"    -> "none"
              [] orders[o].status = "PENDING" -> "open"
              [] orders[o].status = "FAILED"  -> "closed"
              [] OTHER                        -> "granted"

Payment(o) == IF Captured(o) THEN "held"
              ELSE IF Outstanding(o) THEN "outstanding" ELSE "none"

Promise == INSTANCE Purchase WITH
             Ids <- OrderIds,
             stage <- [o \in OrderIds |-> Stage(o)],
             payment <- [o \in OrderIds |-> Payment(o)]

ImplementsPurchase == Promise!PurchaseSpec

Settled(o) == orders[o].status \in {"PAID", "PARTIALLY_REFUNDED", "REFUNDED"}

\* Behind every course the buyer can open is an order that was fulfilled, whatever
\* admins have refunded of it since, with its money captured or outstanding.
AccessIsBacked ==
  \A c \in enrolled : \E o \in OrderIds :
    c \in orders[o].items /\ Settled(o) /\ Completed(o)

\* Every course the buyer can open belongs to a PAID order that owed nothing, whose
\* money the provider holds, or whose Stripe session was completed with a payment
\* method that has yet to pay: no interleaving of webhooks, reconciliations,
\* cancellations and crashes hands out access on a PayPal approval, or on a session
\* that is open or expired.
AccessIsCompleted ==
  \A c \in enrolled : \E o \in OrderIds :
    c \in orders[o].items /\ orders[o].status = "PAID" /\ Completed(o)

\* orders.service.ts, fulfill, of the partner's commission: "now that payment
\* succeeded".  False of the code: a Stripe session completed with a delayed method
\* is fulfilled on its checkout.session.completed, before any money, and for good.
FulfilledIsCaptured ==
  \A o \in OrderIds : orders[o].status = "PAID" => Captured(o)

\* An order that reconciliation is about to abandon has an expired session, so
\* it can never be charged after createSession or resumeSession failed it
\* (StripeGateway.reconcilePendingPayment: lookups that fail, a completion
\* that wins the race with the expiry).
AbandonedIsUnchargeable ==
  \A r \in Requests :
    handler[r].pc = "abandon" /\ handler[r].job # "none"
      => session[handler[r].ord] = "expired"

\* Two requests with the same Idempotency-Key, however they interleave, leave
\* one Order row between them.
OneOrderPerKey ==
  \A o, q \in OrderIds :
    /\ orders[o].status # "NONE" /\ orders[q].status # "NONE"
    /\ orders[o].key = orders[q].key /\ orders[o].key # NoKey
    => o = q

\* While the buyer sends one checkout request at a time, no course awaits payment
\* in two orders: createSession excludes or drops the pending orders it finds,
\* however its reconciliations, the webhooks and the provider's timeouts fall.
OnePendingPerCourse ==
  \A o, q \in OrderIds :
    /\ orders[o].status = "PENDING" /\ orders[q].status = "PENDING"
    /\ orders[o].items \cap orders[q].items # {}
    => o = q

\* The credit ledger never sums below zero, although orders are quoted against
\* the same balance and debit it only when their payments arrive.
CreditNeverOverdrawn == balance >= 0

\* Money the provider captured ends in a PAID order, from whichever status the
\* order had when the payment arrived, as long as no handler dies.
CapturedIsSettled ==
  \A o \in OrderIds : Paid(session[o]) ~> orders[o].status = "PAID"

\* A campaign's partner is credited for every paid order it brought: the referral
\* is confirmed outside the fulfilment transaction and re-fulfilling a PAID order
\* does nothing, so no handler that completes may leave one unconfirmed.
NoReferralLeftPending ==
  (\A h \in Handlers : handler[h] = Idle)
    => \A o \in OrderIds : orders[o].status = "PAID" => referral[o].status # "PENDING"

\* orders.service.ts, fulfill: "Idempotent: re-running on an already-PAID order
\* is a no-op".  Each course's revenue is what its PAID orders sold it for.
RevenueMatchesOrders ==
  \A c \in Courses :
    revenue[c] = Price[c] * Cardinality({o \in OrderIds :
                              orders[o].status = "PAID" /\ c \in orders[o].items})
=============================================================================
