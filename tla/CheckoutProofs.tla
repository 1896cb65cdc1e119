--------------------------- MODULE CheckoutProofs ---------------------------
(***************************************************************************)
(* Checkout proved for every number of requests, orders, courses, bodies   *)
(* and prices: type correctness, access only for completed payments, the   *)
(* abandonment rule, the idempotency key and the credit ledger.            *)
(*                                                                         *)
(* The properties are not inductive: whether a fulfilment may commit       *)
(* depends on what its handler read many awaits ago.  The invariant        *)
(* therefore says, handler by handler, what its record still guarantees    *)
(* (Sound); Monotone says what no step ever takes back, and is what keeps  *)
(* every other handler's record sound.                                     *)
(*                                                                         *)
(* The last sections prove that checkout implements Purchase, and what     *)
(* holds of it while a buyer keeps to one tab: one pending order a course  *)
(* (PendingInv) and, when no process dies, no referral left pending        *)
(* (ReferralInv), both over WebhookInv, which places every handler that    *)
(* acts for an order without having opened it in this request.             *)
(***************************************************************************)
EXTENDS Checkout, SumLemmas, TLAPS

Exists(o) == orders[o].status # "NONE"

\* The states of a session that the buyer has completed.
Done == {"unpaid", "paid", "cleared"}

AboutOrder == {"expire", "capture", "abandon", "attribute", "start", "saveRef",
               "fulfil", "commit", "confirm", "credit"}

\* What a handler's record s guarantees about the rows and sessions.
Sound(s) ==
  /\ s \in HandlerState
  /\ \A o \in s.todo : Exists(o)
  /\ s.ord # 0 => Exists(s.ord)
  /\ s.pc \in AboutOrder => s.ord # 0
  /\ s.pc = "open" => s.cart # {}
  /\ s.pc = "drop" /\ s.cart = {} => s.ord # 0
  /\ s.pc \in {"fulfil", "commit"} => Completed(s.ord)
  /\ s.pc = "abandon" /\ s.job # "none" => session[s.ord] = "expired"

OnlyForOrders == \A o \in OrderIds : session[o] # "none" => Exists(o)

RowsInv ==
  /\ RowsTypeOK
  /\ AccessIsBacked
  /\ OneOrderPerKey
  /\ CreditNeverOverdrawn

Inv ==
  /\ TypeOK
  /\ OnlyForOrders
  /\ RowsInv
  /\ \A h \in Handlers : Sound(handler[h])

\* No step deletes an order, undoes a completed payment or reopens an expired session.
Monotone ==
  \A o \in OrderIds :
    /\ Exists(o) => Exists(o)'
    /\ Completed(o) => Completed(o)'
    /\ session[o] = "expired" => session'[o] = "expired"

\* Handler h moves to a record that is sound in the new state.
SoundMove(h) == \E s : Become(h, s) /\ Sound(s)'

-----------------------------------------------------------------------------
(* Lemmas. *)

\* The quote of any cart is a natural amount of credit and a natural total.
LEMMA QuoteType ==
  ASSUME TypeOK, NEW S \in SUBSET Courses, NEW k \in Codes, NEW u \in BOOLEAN
  PROVE  Quote(S, k, u) \in [code : Codes, credit : Nat, total : Nat]
<1>1. Subtotal(S) \in Nat
  BY SumIsNat, FS_Subset, OrdersAssumption DEF Subtotal
<1>2. Discount[k] \in Nat /\ "none" \in Codes
  BY OrdersAssumption DEF Codes
<1>3. balance \in Int
  BY DEF TypeOK, RowsTypeOK
<1> QED
  BY <1>1, <1>2, <1>3 DEF Quote, AtMost, AtLeastZero

LEMMA CommissionType ==
  ASSUME NEW n \in Nat
  PROVE  Commission(n) \in Nat
<1>1. CommissionPercent \in Nat
  BY OrdersAssumption
<1>2. n * CommissionPercent \in Nat
  BY <1>1
<1> QED
  BY <1>2 DEF Commission

\* What is sound stays sound while nothing is taken back.
LEMMA SoundStays ==
  ASSUME Monotone, NEW s, Sound(s)
  PROVE  Sound(s)'
<1>1. s \in HandlerState /\ s.todo \subseteq OrderIds
      /\ (s.ord # 0 => s.ord \in OrderIds)
  BY DEF Sound, HandlerState
<1>2. "fulfil" \in AboutOrder /\ "commit" \in AboutOrder /\ "abandon" \in AboutOrder
  BY DEF AboutOrder
<1>3. s.ord # 0 => /\ Exists(s.ord) => Exists(s.ord)'
                   /\ Completed(s.ord) => Completed(s.ord)'
                   /\ session[s.ord] = "expired" => session'[s.ord] = "expired"
  BY <1>1 DEF Monotone
<1>4. \A o \in s.todo : Exists(o) => Exists(o)'
  BY <1>1 DEF Monotone
<1> QED
  BY <1>1, <1>2, <1>3, <1>4 DEF Sound

\* A sound move of one handler leaves every handler sound.
LEMMA HandlersStaySound ==
  ASSUME Inv, Monotone, NEW h \in Handlers, SoundMove(h)
  PROVE  /\ handler' \in [Handlers -> HandlerState]
         /\ \A g \in Handlers : Sound(handler[g])'
<1>1. PICK s : Become(h, s) /\ Sound(s)'
  BY DEF SoundMove
<1>2. s \in HandlerState
  BY <1>1 DEF Sound
<1>3. handler \in [Handlers -> HandlerState]
  BY DEF Inv, TypeOK
<1>4. handler' = [handler EXCEPT ![h] = s]
  BY <1>1 DEF Become
<1>5. handler' \in [Handlers -> HandlerState]
  BY <1>2, <1>3, <1>4
<1>6. ASSUME NEW g \in Handlers
      PROVE  Sound(handler[g])'
  <2>1. CASE g = h
    <3>1. handler'[g] = s
      BY <1>3, <1>4, <2>1
    <3> QED
      BY <1>1, <3>1 DEF Sound, Exists, Completed, Captured, Outstanding, Paid, Owing
  <2>2. CASE g # h
    <3>1. handler'[g] = handler[g]
      BY <1>3, <1>4, <2>2
    <3>2. PICK t : t = handler[g]
      OBVIOUS
    <3>3. Sound(t)
      BY <3>2 DEF Inv
    <3>4. Sound(t)'
      BY <3>3, SoundStays
    <3> QED
      BY <3>1, <3>2, <3>4 DEF Sound, Exists, Completed, Captured, Outstanding, Paid, Owing
  <2> QED
    BY <2>1, <2>2
<1> QED
  BY <1>5, <1>6

\* A handler that returns, and one left with a single order, are sound.
LEMMA IdleSound == Sound(Idle)'
<1>1. Idle \in HandlerState
  BY OrdersAssumption DEF Idle, HandlerState, NoQuote, Codes
<1> QED
  BY <1>1 DEF Idle, Sound, AboutOrder

LEMMA AtOrderSound ==
  ASSUME NEW o \in OrderIds, Exists(o)', NEW pc \in AboutOrder,
         pc \in {"fulfil", "commit"} => Completed(o)'
  PROVE  Sound(AtOrder(pc, o))'
<1>1. AtOrder(pc, o) \in HandlerState
  BY OrdersAssumption DEF AtOrder, Idle, HandlerState, NoQuote, AboutOrder, Codes
<1>2. o # 0
  BY OrdersAssumption DEF OrderIds
<1> QED
  BY <1>1, <1>2 DEF AtOrder, Idle, Sound, AboutOrder, Exists, Completed, Captured,
                    Outstanding, Paid, Owing

LEMMA ReturnMoves ==
  ASSUME NEW h \in Handlers, Return(h)
  PROVE  SoundMove(h)
BY IdleSound DEF Return, SoundMove

LEMMA AtOrderMoves ==
  ASSUME NEW h \in Handlers, NEW o \in OrderIds, Exists(o)', NEW pc \in AboutOrder,
         pc \in {"fulfil", "commit"} => Completed(o)',
         Become(h, AtOrder(pc, o))
  PROVE  SoundMove(h)
BY AtOrderSound DEF SoundMove

-----------------------------------------------------------------------------
(* Steps that change only what a handler holds, or only rows, or a session. *)

LEMMA StillSound ==
  ASSUME Inv, Monotone, UNCHANGED handler, NEW h \in Handlers
  PROVE  Sound(handler[h])'
<1>1. PICK t : t = handler[h]
  OBVIOUS
<1>2. Sound(t)'
  BY <1>1, SoundStays DEF Inv
<1> QED
  BY <1>1, <1>2 DEF Sound, Exists, Completed, Captured, Outstanding, Paid, Owing

LEMMA QuietMonotone ==
  ASSUME UNCHANGED <<rows, external>>
  PROVE  Monotone
BY DEF Monotone, Exists, Completed, Captured, Outstanding, Paid, Owing, rows, external

LEMMA QuietStep ==
  ASSUME Inv, UNCHANGED <<rows, external>>, NEW h \in Handlers, SoundMove(h)
  PROVE  Inv'
<1>1. /\ handler' \in [Handlers -> HandlerState]
      /\ \A g \in Handlers : Sound(handler[g])'
  BY QuietMonotone, HandlersStaySound
<1>2. TypeOK'
  BY <1>1 DEF Inv, TypeOK, RowsTypeOK, rows, external
<1>3. OnlyForOrders'
  BY DEF Inv, OnlyForOrders, Exists, rows, external
<1>4. RowsInv'
  BY DEF Inv, RowsInv, RowsTypeOK, AccessIsBacked, Settled, Completed, Captured,
         Outstanding, Paid, Owing, OneOrderPerKey,
         CreditNeverOverdrawn, rows, external
<1> QED
  BY <1>1, <1>2, <1>3, <1>4 DEF Inv

LEMMA RowStep ==
  ASSUME Inv, UNCHANGED external, RowsInv', Monotone, NEW h \in Handlers, SoundMove(h)
  PROVE  Inv'
<1>1. /\ handler' \in [Handlers -> HandlerState]
      /\ \A g \in Handlers : Sound(handler[g])'
  BY HandlersStaySound
<1>2. TypeOK'
  BY <1>1 DEF Inv, TypeOK, RowsInv, external
<1>3. OnlyForOrders'
  BY DEF Inv, OnlyForOrders, Monotone, external
<1> QED
  BY <1>1, <1>2, <1>3 DEF Inv

\* A step that changes the session of one existing order, the way sessions move.
LEMMA SessionMonotone ==
  ASSUME Inv, UNCHANGED rows, NEW o \in OrderIds, NEW x \in SessionState,
         Exists(o), session' = [session EXCEPT ![o] = x],
         session[o] = "expired" => x = "expired", session[o] \in Done => x \in Done
  PROVE  /\ Monotone /\ OnlyForOrders' /\ RowsInv'
         /\ session' \in [OrderIds -> SessionState]
<1>1. session \in [OrderIds -> SessionState]
  BY DEF Inv, TypeOK
<1>2. Monotone
  BY <1>1 DEF Monotone, Exists, Completed, Captured, Outstanding, Paid, Done, Owing, rows
<1>3. OnlyForOrders'
  BY <1>1 DEF Inv, OnlyForOrders, Exists, rows
<1>4. AccessIsBacked'
  BY <1>2 DEF Inv, RowsInv, AccessIsBacked, Settled, Monotone, rows
<1>5. RowsInv'
  BY <1>4 DEF Inv, RowsInv, RowsTypeOK, OneOrderPerKey, CreditNeverOverdrawn, rows
<1> QED
  BY <1>1, <1>2, <1>3, <1>5

-----------------------------------------------------------------------------
(* The resolution of a pending payment. *)

\* Whatever the gateway resolved, the handler goes on soundly: PAID only with
\* the payment completed, ABANDONED only with the session expired.
LEMMA ResolveMoves ==
  ASSUME Inv, Monotone, NEW h \in Handlers, NEW o \in OrderIds, Exists(o),
         NEW res \in {"PAID", "ABANDONED", "RESUME"}, Resolve(h, o, res),
         res = "PAID" => Completed(o)',
         res = "ABANDONED" => session'[o] = "expired"
  PROVE  SoundMove(h)
<1> DEFINE me == [handler[h] EXCEPT !.todo = @ \ {o}, !.ord = o]
<1>1. handler[h] \in HandlerState /\ \A q \in handler[h].todo : Exists(q)
  BY DEF Inv, Sound
<1>2. Exists(o)' /\ \A q \in OrderIds : Exists(q) => Exists(q)'
  BY DEF Monotone
<1>3. o # 0
  BY OrdersAssumption DEF OrderIds
<1>4. ASSUME NEW pc \in {"fulfil", "abandon", "reconcile"},
             Become(h, [me EXCEPT !.pc = pc]),
             pc = "fulfil" => Completed(o)',
             pc = "abandon" => session'[o] = "expired"
      PROVE  SoundMove(h)
  <2>1. PICK s : s = [me EXCEPT !.pc = pc]
    OBVIOUS
  <2>2. s \in HandlerState /\ s.ord = o /\ s.pc = pc /\ s.todo \subseteq handler[h].todo
    BY <1>1, <2>1 DEF HandlerState
  <2>3. s.todo \subseteq OrderIds
    BY <2>2 DEF HandlerState
  <2>4. \A q \in s.todo : Exists(q)'
    BY <1>1, <1>2, <2>2, <2>3
  <2>5. Sound(s)'
    BY <1>2, <1>3, <1>4, <2>2, <2>4 DEF Sound, AboutOrder, Exists, Completed, Captured,
                                        Outstanding, Paid, Owing
  <2> QED
    BY <1>4, <2>1, <2>5 DEF SoundMove
<1>5. CASE res = "PAID"
  <2>1. Become(h, IF me.job = "checkout" THEN [me EXCEPT !.pc = "fulfil"]
                                         ELSE AtOrder("fulfil", o))
    BY <1>5 DEF Resolve
  <2>2. ASSUME Become(h, AtOrder("fulfil", o)) PROVE SoundMove(h)
    BY <1>2, <1>5, <2>2, AtOrderMoves DEF AboutOrder
  <2>3. CASE me.job = "checkout"
    BY <1>4, <1>5, <2>1, <2>3
  <2>4. CASE me.job # "checkout"
    BY <2>1, <2>2, <2>4
  <2> QED
    BY <2>3, <2>4
<1>6. CASE res = "ABANDONED"
  <2>1. Return(h) \/ Become(h, [me EXCEPT !.pc = "abandon"])
    BY <1>6 DEF Resolve
  <2> QED
    BY <1>4, <1>6, <2>1, ReturnMoves
<1>7. CASE res = "RESUME"
  <2>1. \/ Return(h)
        \/ Become(h, AtOrder("start", o))
        \/ Become(h, [me EXCEPT !.pc = "reconcile"])
    BY <1>7 DEF Resolve, Resurrect
  <2>2. ASSUME Become(h, AtOrder("start", o)) PROVE SoundMove(h)
    BY <1>2, <2>2, AtOrderMoves DEF AboutOrder
  <2> QED
    BY <1>4, <2>1, <2>2, ReturnMoves
<1> QED
  BY <1>5, <1>6, <1>7

\* What Stripe says is PAID only for a paid session, ABANDONED for an expired.
LEMMA StripeSaysRightly ==
  ASSUME NEW x \in SessionState
  PROVE  /\ StripeSays(x) \in {"PAID", "ABANDONED", "RESUME"}
         /\ StripeSays(x) = "PAID" => Paid(x)
         /\ StripeSays(x) = "ABANDONED" => x = "expired"
BY DEF StripeSays, Paid, SessionState

-----------------------------------------------------------------------------
(* The handlers that only read: one lemma per action. *)

LEMMA BeginCheckoutInv ==
  ASSUME Inv, NEW r \in Requests, NEW body \in Bodies, BeginCheckout(r, body)
  PROVE  Inv'
<1>1. UNCHANGED <<rows, external>> /\ r \in Handlers /\ Monotone
  BY QuietMonotone DEF BeginCheckout, Handlers
<1>2. CASE WithKey(body.key) = {}
  <2>1. PICK s : s = [Idle EXCEPT !.job = "checkout", !.pc = "scan",
                                  !.cart = body.cart, !.gateway = body.gateway,
                                  !.key = body.key, !.code = body.code,
                                  !.useCredit = body.useCredit]
    OBVIOUS
  <2>2. body \in CheckoutBody
    BY CheckoutAssumption
  <2>3. s \in HandlerState /\ s.pc = "scan" /\ s.todo = {} /\ s.ord = 0
    BY <2>1, <2>2, OrdersAssumption DEF CheckoutBody, Idle, HandlerState, NoQuote, Codes
  <2>4. Sound(s)'
    BY <2>3 DEF Sound, AboutOrder
  <2>5. SoundMove(r)
    BY <1>2, <2>1, <2>4 DEF BeginCheckout, SoundMove
  <2> QED
    BY <1>1, <2>5, QuietStep
<1>3. CASE WithKey(body.key) # {}
  <2>1. PICK o \in WithKey(body.key) : Become(r, AtOrder("start", o))
    BY <1>3 DEF BeginCheckout
  <2>2. o \in OrderIds /\ Exists(o)'
    BY <1>1, <2>1 DEF WithKey, Exists, rows
  <2>3. SoundMove(r)
    BY <1>1, <2>1, <2>2, AtOrderMoves DEF AboutOrder
  <2> QED
    BY <1>1, <2>3, QuietStep
<1> QED
  BY <1>2, <1>3

LEMMA ScanPendingInv ==
  ASSUME Inv, NEW r \in Handlers, ScanPending(r)
  PROVE  Inv'
<1> DEFINE want == handler[r].cart \ enrolled
<1>1. UNCHANGED <<rows, external>>
  BY DEF ScanPending
<1>2. PICK s : s = [handler[r] EXCEPT !.pc = "reconcile", !.cart = want,
                                      !.todo = Pending(want),
                                      !.refs = RowsWithRef(Pending(want))]
  OBVIOUS
<1>3. handler[r] \in HandlerState /\ Sound(handler[r])
  BY DEF Inv, Sound
<1>4. Pending(want) \subseteq OrderIds /\ RowsWithRef(Pending(want)) \subseteq OrderIds
  BY DEF Pending, RowsWithRef
<1>5. s \in HandlerState /\ s.pc = "reconcile" /\ s.todo = Pending(want)
      /\ s.ord = handler[r].ord
  BY <1>2, <1>3, <1>4 DEF HandlerState
<1>6. \A o \in s.todo : Exists(o)'
  BY <1>1, <1>5 DEF Pending, Exists, rows
<1>7. Sound(s)'
  BY <1>1, <1>3, <1>5, <1>6 DEF Sound, AboutOrder, Exists, rows
<1>8. Return(r) \/ Become(r, s)
  BY <1>2 DEF ScanPending
<1>9. SoundMove(r)
  BY <1>7, <1>8, ReturnMoves DEF SoundMove
<1> QED
  BY <1>1, <1>9, QuietStep

LEMMA FilterOwnedInv ==
  ASSUME Inv, NEW r \in Handlers, FilterOwned(r)
  PROVE  Inv'
<1> DEFINE want == handler[r].cart \ enrolled
<1>1. UNCHANGED <<rows, external>> /\ handler[r].todo = {}
  BY DEF FilterOwned
<1>2. PICK s : s = [handler[r] EXCEPT !.pc = "open", !.cart = want, !.ord = 0]
  OBVIOUS
<1>3. handler[r] \in HandlerState
  BY DEF Inv, Sound
<1>4. s \in HandlerState /\ s.pc = "open" /\ s.todo = {} /\ s.ord = 0 /\ s.cart = want
  BY <1>1, <1>2, <1>3 DEF HandlerState
<1>5. Return(r) \/ (want # {} /\ Become(r, s))
  BY <1>2 DEF FilterOwned
<1>6. want # {} => Sound(s)'
  BY <1>4 DEF Sound, AboutOrder
<1>7. SoundMove(r)
  BY <1>5, <1>6, ReturnMoves DEF SoundMove
<1> QED
  BY <1>1, <1>7, QuietStep

LEMMA ReconcileInv ==
  ASSUME Inv, NEW r \in Handlers, Reconcile(r)
  PROVE  Inv'
<1>1. UNCHANGED <<rows, external>> /\ Monotone
  BY QuietMonotone DEF Reconcile
<1> SUFFICES SoundMove(r)
  BY <1>1, QuietStep
<1>2. PICK o \in handler[r].todo :
        \/ Resolve(r, o, "RESUME")
        \/ AskStripe(r, o)
        \/ AskPaypal(r, o)
  BY DEF Reconcile
<1>3. handler[r] \in HandlerState /\ Sound(handler[r])
  BY DEF Inv, Sound
<1>4. o \in OrderIds /\ Exists(o) /\ o # 0 /\ session[o] \in SessionState
  BY <1>2, <1>3, OrdersAssumption DEF Sound, HandlerState, OrderIds, Inv, TypeOK
<1>5. session' = session
  BY <1>1 DEF external
<1>6. Paid(session[o]) => Completed(o)'
  BY <1>5 DEF Completed, Captured, Outstanding, Paid
<1>7. ASSUME NEW pc \in {"expire", "capture"},
             Become(r, [handler[r] EXCEPT !.pc = pc, !.ord = o])
      PROVE  SoundMove(r)
  <2>1. PICK s : s = [handler[r] EXCEPT !.pc = pc, !.ord = o]
    OBVIOUS
  <2>2. s \in HandlerState /\ s.ord = o /\ s.pc = pc /\ s.todo = handler[r].todo
    BY <1>3, <1>4, <2>1 DEF HandlerState
  <2>3. Sound(s)'
    BY <1>1, <1>3, <1>4, <2>2 DEF Sound, AboutOrder, Exists, rows
  <2> QED
    BY <1>7, <2>1, <2>3 DEF SoundMove
<1>8. CASE Resolve(r, o, "RESUME")
  BY <1>1, <1>4, <1>8, ResolveMoves
<1>9. CASE AskStripe(r, o)
  <2>1. CASE Resolve(r, o, StripeSays(session[o]))
    BY <1>1, <1>4, <1>5, <1>6, <2>1, StripeSaysRightly, ResolveMoves
  <2> QED
    BY <1>7, <1>9, <2>1 DEF AskStripe
<1>10. CASE AskPaypal(r, o)
  <2>1. CASE session[o] = "paid" /\ Resolve(r, o, "PAID")
    BY <1>1, <1>4, <1>6, <2>1, ResolveMoves DEF Paid
  <2> QED
    BY <1>7, <1>10, <2>1, ReturnMoves DEF AskPaypal
<1> QED
  BY <1>2, <1>8, <1>9, <1>10

\* Both ways to leave the pending orders behind keep the record sound: with
\* nothing left to sell there is an order to resume.
LEMMA ProceedMoves ==
  ASSUME NEW r \in Handlers, NEW me \in HandlerState, Proceed(r, me),
         me.cart = {} => me.ord \in OrderIds /\ Exists(me.ord)'
  PROVE  SoundMove(r)
<1>1. CASE me.cart = {}
  <2>1. Return(r) \/ Become(r, AtOrder("start", me.ord))
    BY <1>1 DEF Proceed, Resurrect
  <2>2. PICK o \in OrderIds : o = me.ord /\ Exists(o)'
    BY <1>1 DEF Exists
  <2>3. CASE Become(r, AtOrder("start", me.ord))
    <3>1. Become(r, AtOrder("start", o))
      BY <2>2, <2>3
    <3> QED
      BY <2>2, <3>1, AtOrderMoves DEF AboutOrder
  <2> QED
    BY <2>1, <2>3, ReturnMoves
<1>2. CASE me.cart # {}
  <2>1. PICK s : s = [me EXCEPT !.pc = "quote", !.ord = 0, !.todo = {}, !.refs = {}]
    OBVIOUS
  <2>2. s \in HandlerState /\ s.pc = "quote" /\ s.ord = 0 /\ s.todo = {}
    BY <2>1 DEF HandlerState
  <2>3. Sound(s)'
    BY <2>2 DEF Sound, AboutOrder
  <2> QED
    BY <1>2, <2>1, <2>3 DEF Proceed, SoundMove
<1> QED
  BY <1>1, <1>2

LEMMA ListOpenInv ==
  ASSUME Inv, NEW r \in Handlers, ListOpen(r)
  PROVE  Inv'
<1> DEFINE open == Pending(handler[r].cart)
           same == {o \in open : orders[o].gateway = handler[r].gateway}
           unsold == handler[r].cart \ UNION {orders[o].items : o \in same}
<1>1. UNCHANGED <<rows, external>>
  BY DEF ListOpen
<1> SUFFICES SoundMove(r)
  BY <1>1, QuietStep
<1>2. handler[r] \in HandlerState /\ handler[r].cart # {}
  BY DEF Inv, Sound, ListOpen
<1>3. open \subseteq OrderIds /\ same \subseteq open /\ RowsWithRef(same) \subseteq OrderIds
  BY DEF Pending, RowsWithRef
<1>4. \A o \in open : Exists(o)'
  BY <1>1 DEF Pending, Exists, rows
<1>5. PICK first \in OrderIds \cup {0} :
        /\ IF same = {} THEN first = 0 ELSE IsLatest(first, same)
        /\ LET me == [handler[r] EXCEPT !.cart = unsold,
                        !.ord = first, !.todo = open \ same,
                        !.refs = RowsWithRef(same), !.pc = "drop"]
           IN IF me.todo = {} THEN Proceed(r, me) ELSE Become(r, me)
  BY DEF ListOpen
<1>6. PICK me : me = [handler[r] EXCEPT !.cart = unsold,
                        !.ord = first, !.todo = open \ same,
                        !.refs = RowsWithRef(same), !.pc = "drop"]
  OBVIOUS
<1>7. /\ me \in HandlerState /\ me.cart = unsold /\ me.ord = first
      /\ me.todo = open \ same /\ me.pc = "drop"
  BY <1>2, <1>3, <1>5, <1>6 DEF HandlerState
<1>8. first # 0 => first \in same
  BY <1>5 DEF IsLatest
<1>9. unsold = {} => same # {}
  BY <1>2
<1>10. unsold = {} => first \in same
  BY <1>5, <1>9 DEF IsLatest
<1>11. \A o \in OrderIds : o # 0
  BY OrdersAssumption DEF OrderIds
<1>12. IF me.todo = {} THEN Proceed(r, me) ELSE Become(r, me)
  BY <1>5, <1>6
<1>13. CASE me.todo = {}
  <2>1. me.cart = {} => me.ord \in OrderIds /\ Exists(me.ord)'
    BY <1>3, <1>4, <1>7, <1>10
  <2> QED
    BY <1>7, <1>12, <1>13, <2>1, ProceedMoves
<1>14. CASE me.todo # {}
  <2>1. me.ord # 0 => Exists(me.ord)'
    BY <1>3, <1>4, <1>7, <1>8
  <2>2. me.cart = {} => me.ord # 0
    BY <1>3, <1>7, <1>10, <1>11
  <2>3. \A o \in me.todo : Exists(o)'
    BY <1>4, <1>7
  <2>4. Sound(me)'
    BY <1>7, <2>1, <2>2, <2>3 DEF Sound, AboutOrder, Exists
  <2> QED
    BY <1>12, <1>14, <2>4 DEF SoundMove
<1> QED
  BY <1>13, <1>14

LEMMA MakeQuoteInv ==
  ASSUME Inv, NEW r \in Handlers, MakeQuote(r)
  PROVE  Inv'
<1> DEFINE q == Quote(handler[r].cart, handler[r].code, handler[r].useCredit)
<1>1. UNCHANGED <<rows, external>>
  BY DEF MakeQuote
<1>2. handler[r] \in HandlerState /\ Sound(handler[r])
  BY DEF Inv, Sound
<1>3. q \in [code : Codes, credit : Nat, total : Nat]
  <2>1. /\ handler[r].cart \in SUBSET Courses /\ handler[r].code \in Codes
        /\ handler[r].useCredit \in BOOLEAN
    BY <1>2 DEF HandlerState
  <2> QED
    BY <2>1, QuoteType DEF Inv
<1>4. PICK s : s = [handler[r] EXCEPT !.pc = "create", !.quoted = q]
  OBVIOUS
<1>5. s \in HandlerState /\ s.pc = "create" /\ s.todo = handler[r].todo
      /\ s.ord = handler[r].ord
  BY <1>2, <1>3, <1>4 DEF HandlerState
<1>6. Sound(s)'
  BY <1>1, <1>2, <1>5 DEF Sound, AboutOrder, Exists, rows
<1>7. SoundMove(r)
  BY <1>4, <1>6 DEF MakeQuote, SoundMove
<1> QED
  BY <1>1, <1>7, QuietStep

LEMMA BeginOnInv ==
  ASSUME Inv, NEW r \in Requests, NEW o \in OrderIds,
         BeginSettle(r, o) \/ BeginResume(r, o) \/ BeginCancel(r, o)
  PROVE  Inv'
<1>1. UNCHANGED <<rows, external>> /\ Exists(o)' /\ r \in Handlers
  BY DEF BeginSettle, BeginResume, BeginCancel, BeginOn, Exists, rows, Handlers
<1> SUFFICES SoundMove(r)
  BY <1>1, QuietStep
<1>2. ASSUME NEW job \in {"settle", "resume"}, Become(r, ReconcileOne(job, o))
      PROVE  SoundMove(r)
  <2>1. PICK s : s = ReconcileOne(job, o)
    OBVIOUS
  <2>2. s \in HandlerState /\ s.pc = "reconcile" /\ s.todo = {o} /\ s.ord = 0
    BY <2>1, OrdersAssumption
    DEF ReconcileOne, RowsWithRef, Idle, HandlerState, NoQuote, Codes
  <2>3. Sound(s)'
    BY <1>1, <2>2 DEF Sound, AboutOrder, Exists
  <2> QED
    BY <1>2, <2>1, <2>3 DEF SoundMove
<1>3. ASSUME Become(r, AtOrder("abandon", o))
      PROVE  SoundMove(r)
  BY <1>1, <1>3, AtOrderMoves DEF AboutOrder
<1> QED
  BY <1>2, <1>3 DEF BeginSettle, BeginResume, BeginCancel, BeginOn

\* A handler that only moves its pc on about the same order.
LEMMA GoToMoves ==
  ASSUME Inv, Monotone, NEW h \in Handlers, NEW pc \in AboutOrder \cup {"reconcile"},
         GoTo(h, pc), handler[h].pc \in AboutOrder,
         pc \in {"fulfil", "commit"} => handler[h].pc \in {"fulfil", "commit"},
         pc # "abandon"
  PROVE  SoundMove(h)
<1>1. handler[h] \in HandlerState /\ Sound(handler[h])
  BY DEF Inv, Sound
<1>2. PICK t : t = handler[h]
  OBVIOUS
<1>3. Sound(t)'
  BY <1>1, <1>2, SoundStays
<1>4. PICK s : s = [t EXCEPT !.pc = pc]
  OBVIOUS
<1>5. s \in HandlerState /\ s.pc = pc /\ s.todo = t.todo /\ s.ord = t.ord
  BY <1>1, <1>2, <1>4 DEF HandlerState, AboutOrder
<1>6. t.pc \in AboutOrder /\ (pc \in {"fulfil", "commit"} => t.pc \in {"fulfil", "commit"})
  BY <1>2
<1>7. Sound(s)'
  BY <1>3, <1>5, <1>6 DEF Sound, AboutOrder
<1> QED
  BY <1>2, <1>4, <1>7 DEF GoTo, SoundMove

LEMMA FulfilledMoves ==
  ASSUME Inv, Monotone, NEW h \in Handlers, handler[h].pc \in AboutOrder, Fulfilled(h)
  PROVE  SoundMove(h)
<1>1. CASE GoTo(h, "reconcile")
  BY <1>1, GoToMoves
<1> QED
  BY <1>1, ReturnMoves DEF Fulfilled

LEMMA ReadingFulfilmentInv ==
  ASSUME Inv, NEW h \in Handlers, BeginFulfil(h) \/ ReadReferral(h)
  PROVE  Inv'
<1>1. UNCHANGED <<rows, external>> /\ Monotone /\ handler[h].pc \in AboutOrder
  BY QuietMonotone DEF BeginFulfil, ReadReferral, AboutOrder
<1> SUFFICES SoundMove(h)
  BY <1>1, QuietStep
<1>2. \/ Fulfilled(h)
      \/ handler[h].pc = "fulfil" /\ GoTo(h, "commit")
      \/ GoTo(h, "credit")
  BY DEF BeginFulfil, ReadReferral
<1>3. CASE handler[h].pc = "fulfil" /\ GoTo(h, "commit")
  BY <1>1, <1>3, GoToMoves DEF AboutOrder
<1>4. CASE GoTo(h, "credit")
  BY <1>1, <1>4, GoToMoves DEF AboutOrder
<1> QED
  BY <1>1, <1>2, <1>3, <1>4, FulfilledMoves

LEMMA CrashInv ==
  ASSUME Inv, NEW h \in Handlers, Crash(h)
  PROVE  Inv'
BY ReturnMoves, QuietStep DEF Crash

-----------------------------------------------------------------------------
(* The steps at a provider, and the webhook that reports one. *)

\* The session of an existing order moves, and one handler with it.
LEMMA SessionStep ==
  ASSUME Inv, UNCHANGED <<rows, recorded>>, Monotone, OnlyForOrders', RowsInv',
         session' \in [OrderIds -> SessionState], NEW h \in Handlers, SoundMove(h)
  PROVE  Inv'
<1>1. /\ handler' \in [Handlers -> HandlerState]
      /\ \A g \in Handlers : Sound(handler[g])'
  BY HandlersStaySound
<1>2. TypeOK'
  BY <1>1 DEF Inv, TypeOK, RowsInv
<1> QED
  BY <1>1, <1>2 DEF Inv

LEMMA ProviderInv ==
  ASSUME Inv, NEW o \in OrderIds, BuyerPays(o) \/ PaymentClears(o) \/ SessionTimesOut(o)
  PROVE  Inv'
<1>1. /\ UNCHANGED <<rows, recorded, handler>>
      /\ session[o] \in {"open", "approved", "unpaid"}
  BY DEF BuyerPays, PaymentClears, SessionTimesOut
<1>2. PICK x \in SessionState : /\ session' = [session EXCEPT ![o] = x]
                                /\ session[o] \in Done => x \in Done
  BY DEF BuyerPays, AfterCheckout, PaymentClears, SessionTimesOut, SessionState, Done
<1>3. Exists(o)
  BY <1>1 DEF Inv, OnlyForOrders
<1>4. /\ Monotone /\ OnlyForOrders' /\ RowsInv'
      /\ session' \in [OrderIds -> SessionState]
  BY <1>1, <1>2, <1>3, SessionMonotone
<1>5. \A h \in Handlers : Sound(handler[h])'
  BY <1>1, <1>4, StillSound
<1>6. TypeOK'
  BY <1>1, <1>4 DEF Inv, TypeOK, RowsInv
<1> QED
  BY <1>4, <1>5, <1>6 DEF Inv

LEMMA ExpireSessionInv ==
  ASSUME Inv, NEW r \in Handlers, ExpireSession(r)
  PROVE  Inv'
<1>1. PICK o : o = handler[r].ord
  OBVIOUS
<1>2. o \in OrderIds /\ Exists(o)
  BY <1>1 DEF Inv, Sound, HandlerState, ExpireSession, AboutOrder
<1>3. PICK x \in {session[o]} \cup (IF session[o] = "open" THEN {"expired"} ELSE {}) :
        /\ session' = [session EXCEPT ![o] = x]
        /\ \E res \in {StripeSays(x), "RESUME"} : Resolve(r, o, res)
  BY <1>1 DEF ExpireSession
<1>4. PICK res \in {StripeSays(x), "RESUME"} : Resolve(r, o, res)
  BY <1>3
<1>5. session \in [OrderIds -> SessionState] /\ x \in SessionState /\ session'[o] = x
  BY <1>2, <1>3 DEF Inv, TypeOK, SessionState
<1>6. UNCHANGED <<rows, recorded>>
  BY DEF ExpireSession
<1>7. /\ Monotone /\ OnlyForOrders' /\ RowsInv'
      /\ session' \in [OrderIds -> SessionState]
  BY <1>2, <1>3, <1>5, <1>6, SessionMonotone DEF Done
<1>8. /\ res \in {"PAID", "ABANDONED", "RESUME"}
      /\ res = "PAID" => Completed(o)'
      /\ res = "ABANDONED" => session'[o] = "expired"
  BY <1>5, <1>4, StripeSaysRightly DEF Completed, Captured, Outstanding, Paid
<1>9. SoundMove(r)
  BY <1>2, <1>7, <1>8, <1>4, ResolveMoves
<1> QED
  BY <1>6, <1>7, <1>9, SessionStep

LEMMA CapturePaymentInv ==
  ASSUME Inv, NEW r \in Handlers, CapturePayment(r)
  PROVE  Inv'
<1>1. PICK o : o = handler[r].ord
  OBVIOUS
<1>2. o \in OrderIds /\ Exists(o) /\ session \in [OrderIds -> SessionState]
  BY <1>1 DEF Inv, TypeOK, Sound, HandlerState, CapturePayment, AboutOrder
<1>3. UNCHANGED <<rows, recorded>>
  BY DEF CapturePayment
<1>4. CASE /\ session[o] \in {"approved", "paid"}
           /\ session' = [session EXCEPT ![o] = "paid"]
           /\ Resolve(r, o, "PAID") \/ Return(r)
  <2>1. /\ Monotone /\ OnlyForOrders' /\ RowsInv'
        /\ session' \in [OrderIds -> SessionState]
    BY <1>2, <1>3, <1>4, SessionMonotone DEF SessionState, Done
  <2>2. Completed(o)'
    BY <1>2, <1>4 DEF Completed, Captured, Outstanding, Paid
  <2>3. SoundMove(r)
    BY <1>2, <1>4, <2>1, <2>2, ResolveMoves, ReturnMoves
  <2> QED
    BY <1>3, <2>1, <2>3, SessionStep
<1>5. CASE UNCHANGED session /\ (Resolve(r, o, "RESUME") \/ Return(r))
  <2>1. UNCHANGED <<rows, external>> /\ Monotone
    BY <1>3, <1>5, QuietMonotone DEF external
  <2>2. SoundMove(r)
    BY <1>2, <1>5, <2>1, ResolveMoves, ReturnMoves
  <2> QED
    BY <2>1, <2>2, QuietStep
<1> QED
  BY <1>1, <1>4, <1>5 DEF CapturePayment

LEMMA StartPaymentInv ==
  ASSUME Inv, NEW r \in Handlers, StartPayment(r)
  PROVE  Inv'
<1>1. PICK o : o = handler[r].ord
  OBVIOUS
<1>2. /\ o \in OrderIds /\ Exists(o) /\ session \in [OrderIds -> SessionState]
      /\ handler[r].pc \in AboutOrder
  BY <1>1 DEF Inv, TypeOK, Sound, HandlerState, StartPayment, AboutOrder
<1>3. UNCHANGED <<rows, recorded>>
  BY DEF StartPayment
<1>4. PICK x : x = IF session[o] = "none" THEN "open" ELSE session[o]
  OBVIOUS
<1>5. CASE session' = [session EXCEPT ![o] = x] /\ (GoTo(r, "saveRef") \/ Return(r))
  <2>1. x \in SessionState /\ (session[o] # "none" => x = session[o])
    BY <1>2, <1>4 DEF SessionState
  <2>2. /\ Monotone /\ OnlyForOrders' /\ RowsInv'
        /\ session' \in [OrderIds -> SessionState]
    BY <1>2, <1>3, <1>5, <2>1, SessionMonotone DEF Done
  <2>3. SoundMove(r)
    BY <1>2, <1>5, <2>2, GoToMoves, ReturnMoves DEF AboutOrder
  <2> QED
    BY <1>3, <2>2, <2>3, SessionStep
<1>6. CASE UNCHANGED session /\ Return(r)
  BY <1>3, <1>6, ReturnMoves, QuietStep DEF external
<1> QED
  BY <1>1, <1>2, <1>4, <1>5, <1>6 DEF StartPayment

LEMMA OrderOfEvent ==
  ASSUME NEW e \in Events
  PROVE  OrderOf(e) \in OrderIds
BY OrdersAssumption DEF Events, OrderOf, OrderIds

LEMMA ReceiveWebhookInv ==
  ASSUME Inv, NEW e \in Events, ReceiveWebhook(e)
  PROVE  Inv'
<1>0. PICK o \in OrderIds : o = OrderOf(e)
  BY OrderOfEvent
<1>1. UNCHANGED <<rows, session>> /\ e \in Handlers
  BY DEF ReceiveWebhook, Handlers
<1>2. Monotone
  BY <1>1 DEF Monotone, Exists, Completed, Captured, Outstanding, Paid, Owing, rows
<1>3. /\ session[o] \in Done
      /\ Become(e, AtOrder("fulfil", o))
  BY <1>0 DEF ReceiveWebhook, Sent, OrderOf, Done
<1>4. SoundMove(e)
  <2>1. Exists(o)' /\ Completed(o)'
    BY <1>1, <1>3 DEF Inv, OnlyForOrders, Exists, Completed, Captured, Outstanding, Paid,
                      Done, rows
  <2> QED
    BY <1>1, <1>3, <2>1, AtOrderMoves DEF AboutOrder
<1>5. /\ handler' \in [Handlers -> HandlerState]
      /\ \A g \in Handlers : Sound(handler[g])'
  BY <1>1, <1>2, <1>4, HandlersStaySound
<1>6. TypeOK'
  BY <1>1, <1>5 DEF ReceiveWebhook, Inv, TypeOK, RowsTypeOK, rows
<1>7. OnlyForOrders' /\ RowsInv'
  BY <1>1 DEF Inv, OnlyForOrders, Exists, RowsInv, RowsTypeOK, AccessIsBacked, Settled,
              Completed, Captured, Outstanding, Paid, Owing, OneOrderPerKey, CreditNeverOverdrawn, rows
<1> QED
  BY <1>5, <1>6, <1>7 DEF Inv

-----------------------------------------------------------------------------
(* The transactions: what each does to the rows. *)

\* A transaction that at most turns PENDING orders into FAILED ones, and leaves
\* access, credit and what identifies an order alone.
LEMMA KeepingOrders ==
  ASSUME Inv, RowsTypeOK', UNCHANGED <<external, enrolled, balance>>,
         \A p \in OrderIds :
           /\ orders'[p].items = orders[p].items /\ orders'[p].key = orders[p].key
           /\ orders'[p].total = orders[p].total
           /\ \/ orders'[p].status = orders[p].status
              \/ orders[p].status = "PENDING" /\ orders'[p].status = "FAILED"
  PROVE  RowsInv' /\ Monotone
<1>1. Monotone
  BY DEF Monotone, Exists, Completed, Captured, Outstanding, Paid, Owing, external
<1>2. AccessIsBacked'
  BY <1>1 DEF Inv, RowsInv, AccessIsBacked, Settled, Monotone
<1>3. OneOrderPerKey'
  BY DEF Inv, RowsInv, OneOrderPerKey
<1>4. CreditNeverOverdrawn'
  BY DEF Inv, RowsInv, CreditNeverOverdrawn
<1> QED
  BY <1>1, <1>2, <1>3, <1>4 DEF RowsInv

LEMMA MarkFailedIfPendingRows ==
  ASSUME Inv, NEW o \in OrderIds, MarkFailedIfPending(o), UNCHANGED external
  PROVE  RowsInv' /\ Monotone
<1>1. orders \in [OrderIds -> OrderRow]
  BY DEF Inv, TypeOK, RowsTypeOK
<1>2. orders' \in [OrderIds -> OrderRow]
  BY <1>1 DEF MarkFailedIfPending, OrderRow, Status
<1>3. RowsTypeOK'
  BY <1>2 DEF Inv, TypeOK, RowsTypeOK, MarkFailedIfPending
<1> QED
  BY <1>1, <1>3, KeepingOrders DEF MarkFailedIfPending, OrderRow

LEMMA SaveProviderRefRows ==
  ASSUME Inv, NEW o \in OrderIds, SaveProviderRef(o), UNCHANGED external
  PROVE  RowsInv' /\ Monotone
<1>1. orders \in [OrderIds -> OrderRow]
  BY DEF Inv, TypeOK, RowsTypeOK
<1>2. orders' \in [OrderIds -> OrderRow]
  BY <1>1 DEF SaveProviderRef, OrderRow
<1>3. RowsTypeOK'
  BY <1>2 DEF Inv, TypeOK, RowsTypeOK, SaveProviderRef
<1> QED
  BY <1>1, <1>3, KeepingOrders DEF SaveProviderRef, OrderRow

LEMMA CreateReferralRows ==
  ASSUME Inv, NEW o \in OrderIds, CreateReferral(o), UNCHANGED external
  PROVE  RowsInv' /\ Monotone /\ orders'[o].total = orders[o].total
<1>1. orders \in [OrderIds -> OrderRow] /\ referral \in [OrderIds -> ReferralRow]
  BY DEF Inv, TypeOK, RowsTypeOK
<1>2. Commission(orders[o].total) \in Nat
  BY <1>1, CommissionType DEF OrderRow
<1>3. orders' \in [OrderIds -> OrderRow]
  BY <1>1 DEF CreateReferral, OrderRow, Codes
<1>4. referral' \in [OrderIds -> ReferralRow]
  BY <1>1, <1>2 DEF CreateReferral, ReferralRow
<1>5. RowsTypeOK'
  BY <1>3, <1>4 DEF Inv, TypeOK, RowsTypeOK, CreateReferral
<1> QED
  BY <1>1, <1>5, KeepingOrders DEF CreateReferral, OrderRow

LEMMA ConfirmReferralRows ==
  ASSUME Inv, NEW o \in OrderIds, ConfirmReferralTx(o), UNCHANGED external
  PROVE  RowsInv' /\ Monotone
<1>1. /\ referral \in [OrderIds -> ReferralRow]
      /\ partner \in [pending : Int, total : Int, usage : Nat]
  BY DEF Inv, TypeOK, RowsTypeOK
<1>2. referral[o].commission \in Nat /\ referral' \in [OrderIds -> ReferralRow]
  BY <1>1 DEF ConfirmReferralTx, ReferralRow
<1>3. partner' \in [pending : Int, total : Int, usage : Nat]
  BY <1>1, <1>2 DEF ConfirmReferralTx
<1>4. RowsTypeOK'
  BY <1>2, <1>3 DEF Inv, TypeOK, RowsTypeOK, ConfirmReferralTx
<1> QED
  BY <1>4, KeepingOrders DEF ConfirmReferralTx

LEMMA CreatePendingRows ==
  ASSUME Inv, NEW o \in OrderIds, ~ Exists(o), NEW S \in SUBSET Courses,
         NEW gw \in Gateways \cup {"none"}, NEW key \in Keys \cup {NoKey},
         ~ KeyTaken(key), NEW q \in [code : Codes, credit : Nat, total : Nat],
         CreatePending(o, S, gw, key, q), UNCHANGED external
  PROVE  RowsInv' /\ Monotone /\ orders'[o].status = "PENDING" /\ orders'[o].total = q.total
<1>1. orders \in [OrderIds -> OrderRow]
  BY DEF Inv, TypeOK, RowsTypeOK
<1>2. orders' \in [OrderIds -> OrderRow]
  BY <1>1 DEF CreatePending, OrderRow, Status, Codes
<1>3. /\ orders'[o].status = "PENDING" /\ orders'[o].total = q.total
      /\ orders'[o].key = key
      /\ \A p \in OrderIds : p # o => orders'[p] = orders[p]
  BY <1>1 DEF CreatePending
<1>4. Monotone
  BY <1>3 DEF Monotone, Exists, Completed, Captured, Outstanding, Paid, Owing, external
<1>5. AccessIsBacked'
  <2> SUFFICES ASSUME NEW c \in enrolled'
               PROVE  \E p \in OrderIds : /\ c \in orders'[p].items
                                          /\ Settled(p)' /\ Completed(p)'
    BY DEF AccessIsBacked
  <2>1. c \in enrolled
    BY DEF CreatePending
  <2>2. PICK p \in OrderIds : c \in orders[p].items /\ Settled(p) /\ Completed(p)
    BY <2>1 DEF Inv, RowsInv, AccessIsBacked
  <2>3. p # o
    BY <2>2 DEF Exists, Settled
  <2> QED
    BY <1>3, <1>4, <2>2, <2>3 DEF Monotone, Settled
<1>6. OneOrderPerKey'
  <2>1. \A p \in OrderIds : key # NoKey /\ orders[p].status # "NONE" => orders[p].key # key
    BY DEF KeyTaken, WithKey
  <2> QED
    BY <1>3, <2>1 DEF Inv, RowsInv, OneOrderPerKey
<1>7. RowsTypeOK' /\ CreditNeverOverdrawn'
  BY <1>2 DEF Inv, TypeOK, RowsInv, RowsTypeOK, CreditNeverOverdrawn, CreatePending
<1> QED
  BY <1>3, <1>4, <1>5, <1>6, <1>7 DEF RowsInv

LEMMA FulfilRows ==
  ASSUME Inv, NEW o \in OrderIds, Exists(o), Completed(o), FulfilTx(o), UNCHANGED external
  PROVE  RowsInv' /\ Monotone
<1>1. /\ orders \in [OrderIds -> OrderRow] /\ balance \in Int /\ balance >= 0
      /\ students \in [Courses -> Int] /\ revenue \in [Courses -> Int] /\ spent \in Int
      /\ enrolled \subseteq Courses /\ redeemed \subseteq OrderIds
  BY DEF Inv, TypeOK, RowsTypeOK, RowsInv, CreditNeverOverdrawn
<1>2. /\ orders[o].items \subseteq Courses /\ orders[o].credit \in Nat
      /\ orders[o].total \in Nat
  BY <1>1 DEF OrderRow
<1>3. orders' \in [OrderIds -> OrderRow]
  BY <1>1 DEF FulfilTx, OrderRow, Status
<1>4. /\ orders'[o].status = "PAID"
      /\ \A p \in OrderIds : p # o => orders'[p] = orders[p]
      /\ \A p \in OrderIds :
           /\ orders'[p].items = orders[p].items
           /\ orders'[p].key = orders[p].key
           /\ orders'[p].total = orders[p].total
  BY <1>1 DEF FulfilTx, OrderRow
<1>5. Monotone
  BY <1>4 DEF Monotone, Exists, Completed, Captured, Outstanding, Paid, Owing, external
<1>6. students' \in [Courses -> Int]
  BY <1>1 DEF FulfilTx
<1>7. revenue' \in [Courses -> Int]
  BY <1>1, OrdersAssumption DEF FulfilTx
<1>8. spent' \in Int /\ enrolled' \subseteq Courses /\ redeemed' \subseteq OrderIds
  BY <1>1, <1>2 DEF FulfilTx
<1>9. balance' \in Int /\ balance' >= 0
  BY <1>1, <1>2 DEF FulfilTx, CreditSpend, AtMost, AtLeastZero
<1>10. AccessIsBacked'
  <2> SUFFICES ASSUME NEW c \in enrolled'
               PROVE  \E p \in OrderIds : /\ c \in orders'[p].items
                                          /\ Settled(p)' /\ Completed(p)'
    BY DEF AccessIsBacked
  <2>1. CASE c \in orders[o].items
    BY <1>4, <1>5, <2>1 DEF Monotone, Settled
  <2>2. CASE c \in enrolled
    <3>1. PICK p \in OrderIds : /\ c \in orders[p].items
                                /\ Settled(p) /\ Completed(p)
      BY <2>2 DEF Inv, RowsInv, AccessIsBacked
    <3> QED
      BY <1>4, <1>5, <3>1 DEF Monotone, Settled
  <2> QED
    BY <2>1, <2>2 DEF FulfilTx
<1>11. OneOrderPerKey'
  BY <1>4 DEF Inv, RowsInv, OneOrderPerKey, Exists
<1>12. RowsTypeOK'
  BY <1>3, <1>6, <1>7, <1>8, <1>9 DEF Inv, TypeOK, RowsTypeOK, FulfilTx
<1> QED
  BY <1>5, <1>9, <1>10, <1>11, <1>12 DEF RowsInv, CreditNeverOverdrawn

-----------------------------------------------------------------------------
(* The handlers that change rows. *)

\* The order of a handler at a step about an order.
LEMMA OrderInHand ==
  ASSUME Inv, NEW h \in Handlers, handler[h].pc \in AboutOrder
  PROVE  handler[h].ord \in OrderIds /\ Exists(handler[h].ord)
BY DEF Inv, Sound, HandlerState

LEMMA AbandonInv ==
  ASSUME Inv, NEW r \in Handlers, Abandon(r)
  PROVE  Inv'
<1>1. UNCHANGED external /\ handler[r].pc \in AboutOrder
  BY DEF Abandon, AboutOrder
<1>2. RowsInv' /\ Monotone
  BY <1>1, OrderInHand, MarkFailedIfPendingRows DEF Abandon
<1>3. GoTo(r, "reconcile") \/ Return(r)
  BY DEF Abandon
<1>4. SoundMove(r)
  BY <1>1, <1>2, <1>3, GoToMoves, ReturnMoves
<1> QED
  BY <1>1, <1>2, <1>4, RowStep

LEMMA DropOtherInv ==
  ASSUME Inv, NEW r \in Handlers, DropOther(r)
  PROVE  Inv'
<1>1. UNCHANGED external /\ handler[r].pc = "drop"
  BY DEF DropOther
<1>2. PICK o \in handler[r].todo :
        /\ MarkFailedIfPending(o)
        /\ LET me == [handler[r] EXCEPT !.todo = @ \ {o}] IN
           IF me.todo = {} THEN Proceed(r, me) ELSE Become(r, me)
  BY DEF DropOther
<1>3. PICK t : t = handler[r]
  OBVIOUS
<1>4. t \in HandlerState /\ Sound(t) /\ t.pc = "drop" /\ o \in OrderIds
  BY <1>1, <1>2, <1>3 DEF Inv, Sound, HandlerState
<1>5. RowsInv' /\ Monotone
  BY <1>1, <1>2, <1>4, MarkFailedIfPendingRows
<1>6. Sound(t)'
  BY <1>4, <1>5, SoundStays
<1>7. PICK me : me = [t EXCEPT !.todo = @ \ {o}]
  OBVIOUS
<1>8. /\ me \in HandlerState /\ me.todo = t.todo \ {o} /\ me.ord = t.ord
      /\ me.cart = t.cart /\ me.pc = "drop"
  BY <1>4, <1>7 DEF HandlerState
<1>9. IF me.todo = {} THEN Proceed(r, me) ELSE Become(r, me)
  BY <1>2, <1>3, <1>7
<1>10. Sound(me)'
  BY <1>4, <1>6, <1>8 DEF Sound, AboutOrder, Exists
<1>11. me.cart = {} => me.ord \in OrderIds /\ Exists(me.ord)'
  BY <1>8, <1>10 DEF Sound, HandlerState, Exists
<1>12. SoundMove(r)
  BY <1>8, <1>9, <1>10, <1>11, ProceedMoves DEF SoundMove
<1> QED
  BY <1>1, <1>5, <1>12, RowStep

LEMMA CreateOrderInv ==
  ASSUME Inv, NEW r \in Handlers, CreateOrder(r)
  PROVE  Inv'
<1> DEFINE me == handler[r]
<1>1. UNCHANGED external
  BY DEF CreateOrder
<1>2. CASE Return(r) /\ UNCHANGED rows
  BY <1>1, <1>2, ReturnMoves, QuietStep
<1>3. CASE ~ KeyTaken(me.key) /\ ~ (Return(r) /\ UNCHANGED rows)
  <2>1. PICK o \in OrderIds :
          /\ orders[o].status = "NONE"
          /\ CreatePending(o, me.cart, me.gateway, me.key, me.quoted)
          /\ \/ Become(r, AtOrder("attribute", o))
             \/ AfterCreate(r, o, me.quoted.total)
    BY <1>3 DEF CreateOrder
  <2>2. /\ me.cart \in SUBSET Courses /\ me.gateway \in Gateways \cup {"none"}
        /\ me.key \in Keys \cup {NoKey}
        /\ me.quoted \in [code : Codes, credit : Nat, total : Nat]
    BY DEF Inv, Sound, HandlerState
  <2>3. /\ RowsInv' /\ Monotone
        /\ orders'[o].status = "PENDING" /\ orders'[o].total = me.quoted.total
    BY <1>1, <1>3, <2>1, <2>2, CreatePendingRows DEF Exists
  <2>4. Exists(o)' /\ (me.quoted.total = 0 => Completed(o)')
    BY <2>3 DEF Exists, Completed, Captured, Outstanding, Paid, Owing
  <2> SUFFICES SoundMove(r)
    BY <1>1, <2>3, RowStep
  <2>5. CASE Become(r, AtOrder("attribute", o))
    BY <2>4, <2>5, AtOrderMoves DEF AboutOrder
  <2>6. CASE AfterCreate(r, o, me.quoted.total)
    <3>1. CASE me.quoted.total = 0 /\ Become(r, AtOrder("fulfil", o))
      BY <2>4, <3>1, AtOrderMoves DEF AboutOrder
    <3>2. CASE Become(r, AtOrder("start", o))
      BY <2>4, <3>2, AtOrderMoves DEF AboutOrder
    <3> QED
      BY <2>6, <3>1, <3>2 DEF AfterCreate
  <2> QED
    BY <2>1, <2>5, <2>6
<1> QED
  BY <1>2, <1>3 DEF CreateOrder

LEMMA AttributeInv ==
  ASSUME Inv, NEW r \in Handlers, Attribute(r)
  PROVE  Inv'
<1>1. UNCHANGED external /\ handler[r].pc \in AboutOrder
  BY DEF Attribute, AboutOrder
<1>2. PICK o \in OrderIds : o = handler[r].ord /\ Exists(o)
  BY <1>1, OrderInHand DEF Exists
<1>3. PICK n : n = orders[o].total
  OBVIOUS
<1>4. RowsInv' /\ Monotone /\ orders'[o].total = n
  BY <1>1, <1>2, <1>3, CreateReferralRows DEF Attribute
<1>5. Exists(o)' /\ (n = 0 => Completed(o)')
  BY <1>2, <1>4 DEF Monotone, Exists, Completed, Captured, Outstanding, Paid, Owing
<1>6. \/ n = 0 /\ Become(r, AtOrder("fulfil", o))
      \/ Become(r, AtOrder("start", o))
  BY <1>2, <1>3 DEF Attribute, AfterCreate
<1>7. CASE n = 0 /\ Become(r, AtOrder("fulfil", o))
  <2>1. SoundMove(r)
    BY <1>5, <1>7, AtOrderMoves DEF AboutOrder
  <2> QED
    BY <1>1, <1>4, <2>1, RowStep
<1>8. CASE Become(r, AtOrder("start", o))
  <2>1. SoundMove(r)
    BY <1>5, <1>8, AtOrderMoves DEF AboutOrder
  <2> QED
    BY <1>1, <1>4, <2>1, RowStep
<1> QED
  BY <1>6, <1>7, <1>8

LEMMA StoreRefInv ==
  ASSUME Inv, NEW r \in Handlers, StoreRef(r)
  PROVE  Inv'
<1>1. UNCHANGED external /\ handler[r].pc \in AboutOrder /\ Return(r)
  BY DEF StoreRef, AboutOrder
<1>2. RowsInv' /\ Monotone
  BY <1>1, OrderInHand, SaveProviderRefRows DEF StoreRef
<1> QED
  BY <1>1, <1>2, ReturnMoves, RowStep

LEMMA CommitFulfilInv ==
  ASSUME Inv, NEW h \in Handlers, CommitFulfil(h)
  PROVE  Inv'
<1>1. UNCHANGED external /\ handler[h].pc = "commit" /\ handler[h].pc \in AboutOrder
  BY DEF CommitFulfil, AboutOrder
<1>2. CASE Return(h) /\ UNCHANGED rows
  BY <1>1, <1>2, ReturnMoves, QuietStep
<1>3. CASE FulfilTx(handler[h].ord) /\ GoTo(h, "confirm")
  <2>1. Completed(handler[h].ord)
    BY <1>1 DEF Inv, Sound
  <2>2. RowsInv' /\ Monotone
    BY <1>1, <1>3, <2>1, OrderInHand, FulfilRows
  <2>3. SoundMove(h)
    BY <1>1, <1>3, <2>2, GoToMoves DEF AboutOrder
  <2> QED
    BY <1>1, <2>2, <2>3, RowStep
<1> QED
  BY <1>2, <1>3 DEF CommitFulfil

LEMMA CreditPartnerInv ==
  ASSUME Inv, NEW h \in Handlers, CreditPartner(h)
  PROVE  Inv'
<1>1. UNCHANGED external /\ handler[h].pc \in AboutOrder
  BY DEF CreditPartner, AboutOrder
<1>2. RowsInv' /\ Monotone
  BY <1>1, OrderInHand, ConfirmReferralRows DEF CreditPartner
<1>3. SoundMove(h)
  BY <1>1, <1>2, FulfilledMoves DEF CreditPartner
<1> QED
  BY <1>1, <1>2, <1>3, RowStep

-----------------------------------------------------------------------------
(* What the steps do to the rows, seen from outside the handlers. *)

Transaction(o) ==
  \/ MarkFailedIfPending(o) \/ SaveProviderRef(o) \/ CreateReferral(o)
  \/ FulfilTx(o) \/ ConfirmReferralTx(o)
  \/ \E S \in SUBSET Courses, gw \in Gateways \cup {"none"}, key \in Keys \cup {NoKey},
        q \in [code : Codes, credit : Nat, total : Nat] :
       ~ Exists(o) /\ CreatePending(o, S, gw, key, q)

\* A step of a handler, a provider or the buyer is at most one transaction.
LEMMA StepIsTransaction ==
  ASSUME Inv, Next
  PROVE  UNCHANGED rows \/ \E o \in OrderIds : Transaction(o)
<1>1. CASE \E r \in Requests : Begin(r)
  BY <1>1 DEF Begin, BeginCheckout, BeginSettle, BeginResume, BeginCancel, BeginOn
<1>2. CASE \/ \E o \in OrderIds : BuyerPays(o) \/ PaymentClears(o) \/ SessionTimesOut(o)
           \/ \E e \in Events : ReceiveWebhook(e)
  BY <1>2 DEF ReceiveWebhook, BuyerPays, PaymentClears, SessionTimesOut
<1>3. CASE \E h \in Handlers : Crash(h)
  BY <1>3 DEF Crash
<1>4. ASSUME NEW h \in Handlers, Step(h)
      PROVE  UNCHANGED rows \/ \E o \in OrderIds : Transaction(o)
  <2>1. CASE \/ ScanPending(h) \/ Reconcile(h) \/ ExpireSession(h) \/ CapturePayment(h)
             \/ FilterOwned(h) \/ ListOpen(h) \/ MakeQuote(h) \/ StartPayment(h)
             \/ BeginFulfil(h) \/ ReadReferral(h)
    BY <2>1 DEF ScanPending, Reconcile, ExpireSession, CapturePayment, FilterOwned,
                ListOpen, MakeQuote, StartPayment, BeginFulfil, ReadReferral
  <2>2. CASE DropOther(h)
    <3>1. handler[h].todo \subseteq OrderIds
      BY DEF Inv, Sound, HandlerState
    <3> QED
      BY <2>2, <3>1 DEF DropOther, Transaction
  <2>3. CASE CreateOrder(h)
    <3>1. /\ handler[h].cart \in SUBSET Courses
          /\ handler[h].gateway \in Gateways \cup {"none"}
          /\ handler[h].key \in Keys \cup {NoKey}
          /\ handler[h].quoted \in [code : Codes, credit : Nat, total : Nat]
      BY DEF Inv, Sound, HandlerState
    <3>2. \/ UNCHANGED rows
          \/ \E o \in OrderIds : /\ orders[o].status = "NONE"
                                 /\ CreatePending(o, handler[h].cart, handler[h].gateway,
                                                  handler[h].key, handler[h].quoted)
     BY <2>3 DEF CreateOrder
    <3> QED
      BY <3>1, <3>2 DEF Transaction, Exists
  <2>4. CASE Abandon(h) \/ Attribute(h) \/ StoreRef(h) \/ CommitFulfil(h) \/ CreditPartner(h)
    <3>1. handler[h].pc \in AboutOrder
      BY <2>4 DEF Abandon, Attribute, StoreRef, CommitFulfil, CreditPartner, AboutOrder
    <3>2. \/ UNCHANGED rows
          \/ MarkFailedIfPending(handler[h].ord) \/ CreateReferral(handler[h].ord)
          \/ SaveProviderRef(handler[h].ord) \/ FulfilTx(handler[h].ord)
          \/ ConfirmReferralTx(handler[h].ord)
      BY <2>4 DEF Abandon, Attribute, StoreRef, CommitFulfil, CreditPartner
    <3> QED
      BY <3>1, <3>2, OrderInHand DEF Transaction
  <2> QED
    BY <1>4, <2>1, <2>2, <2>3, <2>4 DEF Step
<1> QED
  BY <1>1, <1>2, <1>3, <1>4 DEF Next

\* Without refunds no order is ever refunded.
NeverRefunded ==
  \A o \in OrderIds : orders[o].status \notin {"REFUNDED", "PARTIALLY_REFUNDED"}

LEMMA NeverRefundedNext ==
  ASSUME Inv, NeverRefunded, [Next]_vars
  PROVE  NeverRefunded'
<1>1. orders \in [OrderIds -> OrderRow]
  BY DEF Inv, TypeOK, RowsTypeOK
<1>2. CASE UNCHANGED rows
  BY <1>2 DEF NeverRefunded, rows
<1>3. ASSUME NEW o \in OrderIds, Transaction(o)
      PROVE  NeverRefunded'
  <2>1. \A p \in OrderIds :
          \/ orders'[p].status = orders[p].status
          \/ orders'[p].status \in {"PENDING", "FAILED", "PAID"}
    BY <1>1, <1>3 DEF Transaction, MarkFailedIfPending, SaveProviderRef, CreateReferral,
                      FulfilTx, ConfirmReferralTx, CreatePending, OrderRow
  <2> QED
    BY <2>1 DEF NeverRefunded
<1> QED
  BY <1>2, <1>3, StepIsTransaction DEF vars

-----------------------------------------------------------------------------
(* The invariant, and the properties it implies. *)

LEMMA InvInit == Init => Inv
<1> SUFFICES ASSUME Init PROVE Inv
  OBVIOUS
<1>1. NoOrder \in OrderRow /\ NoReferral \in ReferralRow
  BY DEF NoOrder, OrderRow, Status, Codes, NoReferral, ReferralRow
<1>2. RowsTypeOK
  BY <1>1, OrdersAssumption DEF Init, RowsInit, RowsTypeOK
<1>3. Idle \in HandlerState
  BY DEF Idle, HandlerState, NoQuote, Codes
<1>4. TypeOK
  BY <1>2, <1>3 DEF Init, TypeOK, SessionState
<1>5. OnlyForOrders /\ RowsInv
  BY <1>2, OrdersAssumption
  DEF Init, RowsInit, OnlyForOrders, RowsInv, AccessIsBacked, Settled, OneOrderPerKey,
      CreditNeverOverdrawn, NoOrder
<1>6. \A h \in Handlers : Sound(handler[h])
  BY <1>3 DEF Init, Sound, Idle, AboutOrder
<1> QED
  BY <1>4, <1>5, <1>6 DEF Inv

LEMMA InvNext == Inv /\ [Next]_vars => Inv'
<1> SUFFICES ASSUME Inv, [Next]_vars PROVE Inv'
  OBVIOUS
<1>1. CASE \E r \in Requests : Begin(r)
  BY <1>1, BeginCheckoutInv, BeginOnInv DEF Begin
<1>2. CASE \/ \E o \in OrderIds : BuyerPays(o) \/ PaymentClears(o) \/ SessionTimesOut(o)
           \/ \E e \in Events : ReceiveWebhook(e)
  BY <1>2, ReceiveWebhookInv, ProviderInv
<1>3. ASSUME NEW h \in Handlers, Step(h)
      PROVE  Inv'
  BY <1>3, ScanPendingInv, ReconcileInv, ExpireSessionInv, CapturePaymentInv, AbandonInv,
     FilterOwnedInv, ListOpenInv, DropOtherInv, MakeQuoteInv, CreateOrderInv,
     AttributeInv, StartPaymentInv, StoreRefInv, ReadingFulfilmentInv,
     CommitFulfilInv, CreditPartnerInv
  DEF Step
<1>4. CASE \E h \in Handlers : Crash(h)
  BY <1>4, CrashInv
<1>5. CASE UNCHANGED vars
  <2>1. UNCHANGED <<rows, external, handler>> /\ Monotone
    BY <1>5, QuietMonotone DEF vars, external
  <2>2. \A h \in Handlers : Sound(handler[h])'
    BY <2>1, StillSound
  <2>3. TypeOK' /\ OnlyForOrders' /\ RowsInv'
    BY <2>1 DEF Inv, TypeOK, OnlyForOrders, Exists, RowsInv, RowsTypeOK, AccessIsBacked,
                Settled, Completed, Captured, Outstanding, Paid, Owing, OneOrderPerKey,
                CreditNeverOverdrawn, rows, external
  <2> QED
    BY <2>2, <2>3 DEF Inv
<1> QED
  BY <1>1, <1>2, <1>3, <1>4, <1>5 DEF Next

THEOREM InvAlways == Spec => []Inv
BY InvInit, InvNext, PTL DEF Spec

\* Every variable keeps its type: no total, credit or commission is negative,
\* and a handler never works on an order it does not have.
THEOREM TypeCorrect == Spec => []TypeOK
<1>1. Inv => TypeOK
  BY DEF Inv
<1> QED
  BY <1>1, InvAlways, PTL

\* Access is only ever handed out when nothing was owed, when the provider holds the
\* money, or when Stripe was told of a payment that has yet to come (processWebhook
\* fulfils a completed session whatever its payment_status).
THEOREM AccessIsAlwaysCompleted == Spec => []AccessIsCompleted
<1>1. Init => NeverRefunded
  BY DEF Init, RowsInit, NoOrder, NeverRefunded
<1>2. Inv /\ NeverRefunded /\ [Next]_vars => NeverRefunded'
  BY NeverRefundedNext
<1>3. Inv /\ NeverRefunded => AccessIsCompleted
  BY DEF Inv, RowsInv, NeverRefunded, AccessIsBacked, Settled, AccessIsCompleted
<1> QED
  BY <1>1, <1>2, <1>3, InvAlways, PTL DEF Spec

\* An order about to be abandoned by reconciliation can no longer be charged.
THEOREM AbandonedIsAlwaysUnchargeable == Spec => []AbandonedIsUnchargeable
<1>1. Inv => AbandonedIsUnchargeable
  BY DEF Inv, Sound, AbandonedIsUnchargeable, Handlers
<1> QED
  BY <1>1, InvAlways, PTL

\* One order per idempotency key.
THEOREM KeysAreAlwaysUnique == Spec => []OneOrderPerKey
<1>1. Inv => OneOrderPerKey
  BY DEF Inv, RowsInv
<1> QED
  BY <1>1, InvAlways, PTL

\* The buyer's credit ledger never sums below zero.
THEOREM CreditIsNeverOverdrawn == Spec => []CreditNeverOverdrawn
<1>1. Inv => CreditNeverOverdrawn
  BY DEF Inv, RowsInv
<1> QED
  BY <1>1, InvAlways, PTL

-----------------------------------------------------------------------------
(* Checkout implements Purchase: the initial rows map to its initial state, *)
(* and every step of a handler, a provider or the buyer maps to one of its  *)
(* steps or to none.  The invariant supplies what the mapping needs:        *)
(* sessions belong to orders, and a fulfilment that commits has the order's *)
(* payment completed.                                                       *)

\* Purchase sees nothing but one order change.
OnlyChanges(o) ==
  \A p \in OrderIds \ {o} : Stage(p)' = Stage(p) /\ Payment(p)' = Payment(p)

PurchaseStep == [Promise!PurchaseNext]_(Promise!purchaseVars)

\* The ways in which the order that changes may take a step of Purchase.
LEMMA OneOrderSteps ==
  ASSUME NEW o \in OrderIds, OnlyChanges(o),
         \/ Stage(o)' = Stage(o) /\ Payment(o)' = Payment(o)
         \/ /\ Stage(o) = "none" /\ Stage(o)' = "open"
            /\ Payment(o) = "none" /\ Payment(o)' \in {"none", "held"}
         \/ /\ Stage(o) # "none" /\ Stage(o)' = Stage(o)
            /\ \/ Payment(o) = "none" /\ Payment(o)' = "outstanding"
               \/ Payment(o)' = "held"
         \/ Stage(o) = "open" /\ Stage(o)' = "closed" /\ Payment(o)' = Payment(o)
         \/ /\ Stage(o) \in {"open", "closed"} /\ Stage(o)' = "granted"
            /\ Payment(o) # "none" /\ Payment(o)' = Payment(o)
  PROVE  PurchaseStep
<1> DEFINE stage   == [p \in OrderIds |-> Stage(p)]
           payment == [p \in OrderIds |-> Payment(p)]
<1>1. /\ stage[o] = Stage(o) /\ payment[o] = Payment(o)
      /\ stage' = [stage EXCEPT ![o] = Stage(o)']
      /\ payment' = [payment EXCEPT ![o] = Payment(o)']
  BY DEF OnlyChanges
<1>2. stage = [stage EXCEPT ![o] = Stage(o)] /\ payment = [payment EXCEPT ![o] = Payment(o)]
  OBVIOUS
<1> HIDE DEF stage, payment
<1>3. CASE Stage(o)' = Stage(o) /\ Payment(o)' = Payment(o)
  <2>1. stage' = stage /\ payment' = payment
    BY <1>1, <1>2, <1>3
  <2> QED
    BY <2>1 DEF PurchaseStep, Promise!purchaseVars, stage, payment
<1>4. CASE /\ Stage(o) = "none" /\ Stage(o)' = "open"
           /\ Payment(o) = "none" /\ Payment(o)' \in {"none", "held"}
  <2>1. \E free \in BOOLEAN :
          payment' = IF free THEN [payment EXCEPT ![o] = "held"] ELSE payment
    BY <1>1, <1>2, <1>4
  <2>2. stage[o] = "none" /\ stage' = [stage EXCEPT ![o] = "open"]
    BY <1>1, <1>4
  <2> QED
    BY <2>1, <2>2 DEF PurchaseStep, Promise!PurchaseNext, Promise!Place, stage, payment
<1>5. CASE /\ Stage(o) # "none" /\ Stage(o)' = Stage(o)
           /\ Payment(o) = "none" /\ Payment(o)' = "outstanding"
  <2>1. /\ stage[o] # "none" /\ stage' = stage
        /\ payment[o] = "none" /\ payment' = [payment EXCEPT ![o] = "outstanding"]
    BY <1>1, <1>2, <1>5
  <2> QED
    BY <2>1 DEF PurchaseStep, Promise!PurchaseNext, Promise!Complete, stage, payment
<1>6. CASE Stage(o) # "none" /\ Stage(o)' = Stage(o) /\ Payment(o)' = "held"
  <2>1. /\ stage[o] # "none" /\ stage' = stage
        /\ payment' = [payment EXCEPT ![o] = "held"]
    BY <1>1, <1>2, <1>6
  <2> QED
    BY <2>1 DEF PurchaseStep, Promise!PurchaseNext, Promise!Hold, stage, payment
<1>7. CASE Stage(o) = "open" /\ Stage(o)' = "closed" /\ Payment(o)' = Payment(o)
  <2>1. /\ stage[o] = "open" /\ stage' = [stage EXCEPT ![o] = "closed"]
        /\ payment' = payment
    BY <1>1, <1>2, <1>7
  <2> QED
    BY <2>1 DEF PurchaseStep, Promise!PurchaseNext, Promise!Close, stage, payment
<1>8. CASE /\ Stage(o) \in {"open", "closed"} /\ Stage(o)' = "granted"
           /\ Payment(o) # "none" /\ Payment(o)' = Payment(o)
  <2>1. /\ stage[o] \in {"open", "closed"} /\ stage' = [stage EXCEPT ![o] = "granted"]
        /\ payment[o] # "none" /\ payment' = payment
    BY <1>1, <1>2, <1>8
  <2> QED
    BY <2>1 DEF PurchaseStep, Promise!PurchaseNext, Promise!Grant, stage, payment
<1> QED
  BY <1>3, <1>4, <1>5, <1>6, <1>7, <1>8

\* Steps that leave the rows Purchase sees and the sessions alone.
LEMMA InvisibleStep ==
  ASSUME UNCHANGED session,
         \A p \in OrderIds : /\ orders'[p].status = orders[p].status
                             /\ orders'[p].total = orders[p].total
  PROVE  PurchaseStep
<1>1. \A p \in OrderIds : Stage(p)' = Stage(p)
  BY DEF Stage
<1>2. \A p \in OrderIds : Payment(p)' = Payment(p)
  BY DEF Payment, Captured, Outstanding, Paid, Owing
<1>3. /\ [p \in OrderIds |-> Stage(p)]' = [p \in OrderIds |-> Stage(p)]
      /\ [p \in OrderIds |-> Payment(p)]' = [p \in OrderIds |-> Payment(p)]
  BY <1>1, <1>2
<1> QED
  BY <1>3 DEF PurchaseStep, Promise!purchaseVars

\* The session of an existing order moves.
LEMMA SessionIsAStep ==
  ASSUME Inv, UNCHANGED rows, NEW o \in OrderIds, NEW x, Exists(o),
         session' = [session EXCEPT ![o] = x],
         Paid(session[o]) => Paid(x), session[o] = "unpaid" => x \in Done
  PROVE  PurchaseStep
<1>1. session \in [OrderIds -> SessionState]
  BY DEF Inv, TypeOK
<1>2. \A p \in OrderIds : Stage(p)' = Stage(p)
  BY DEF Stage, rows
<1>3. OnlyChanges(o)
  BY <1>1, <1>2 DEF OnlyChanges, Payment, Captured, Outstanding, Paid, Owing, rows
<1>4. Stage(o) # "none"
  BY DEF Stage, Exists
<1>5. session'[o] = x /\ (Owing(o)' <=> Owing(o)) /\ (Exists(o)' <=> Exists(o))
  BY <1>1 DEF Owing, Exists, rows
<1>6. CASE Captured(o)
  <2>1. Payment(o)' = "held"
    BY <1>5, <1>6 DEF Payment, Captured, Outstanding, Paid, Exists
  <2> QED
    BY <1>2, <1>3, <1>4, <2>1, OneOrderSteps
<1>7. CASE ~ Captured(o) /\ session[o] = "unpaid"
  <2>1. Payment(o) = "outstanding" /\ Payment(o)' \in {"outstanding", "held"}
    BY <1>5, <1>7 DEF Payment, Captured, Outstanding, Paid, Done
  <2> QED
    BY <1>2, <1>3, <1>4, <2>1, OneOrderSteps
<1>8. CASE ~ Captured(o) /\ session[o] # "unpaid"
  <2>1. Payment(o) = "none" /\ Payment(o)' \in {"none", "outstanding", "held"}
    BY <1>8 DEF Payment, Outstanding
  <2> QED
    BY <1>2, <1>3, <1>4, <2>1, OneOrderSteps
<1> QED
  BY <1>6, <1>7, <1>8

LEMMA CloseIsAStep ==
  ASSUME Inv, NEW o \in OrderIds, MarkFailedIfPending(o), UNCHANGED external
  PROVE  PurchaseStep
<1>1. orders \in [OrderIds -> OrderRow]
  BY DEF Inv, TypeOK, RowsTypeOK
<1>2. CASE orders[o].status = "PENDING"
  <2>1. /\ orders'[o].status = "FAILED" /\ orders'[o].total = orders[o].total
        /\ \A p \in OrderIds \ {o} : orders'[p] = orders[p]
    BY <1>1, <1>2 DEF MarkFailedIfPending, OrderRow
  <2>2. OnlyChanges(o)
    BY <2>1 DEF OnlyChanges, Stage, Payment, Captured, Outstanding, Paid, Owing, external
  <2>3. /\ Stage(o) = "open" /\ Stage(o)' = "closed"
        /\ Payment(o)' = Payment(o)
    BY <1>2, <2>1 DEF Stage, Payment, Captured, Outstanding, Paid, Owing, external
  <2> QED
    BY <2>2, <2>3, OneOrderSteps
<1>3. CASE orders[o].status # "PENDING"
  <2>1. UNCHANGED orders
    BY <1>3 DEF MarkFailedIfPending
  <2> QED
    BY <2>1, InvisibleStep DEF external
<1> QED
  BY <1>2, <1>3

LEMMA PlaceIsAStep ==
  ASSUME Inv, NEW o \in OrderIds, orders[o].status = "NONE", NEW S, NEW gw, NEW key, NEW q,
         CreatePending(o, S, gw, key, q), UNCHANGED external
  PROVE  PurchaseStep
<1>1. orders \in [OrderIds -> OrderRow]
  BY DEF Inv, TypeOK, RowsTypeOK
<1>2. orders'[o].status = "PENDING" /\ \A p \in OrderIds \ {o} : orders'[p] = orders[p]
  BY <1>1 DEF CreatePending
<1>3. OnlyChanges(o)
  BY <1>2 DEF OnlyChanges, Stage, Payment, Captured, Outstanding, Paid, Owing, external
<1>4. session[o] = "none" /\ session'[o] = "none"
  BY DEF Inv, OnlyForOrders, Exists, external
<1>5. /\ Stage(o) = "none" /\ Stage(o)' = "open"
      /\ Payment(o) = "none" /\ Payment(o)' \in {"none", "held"}
  BY <1>2, <1>4 DEF Stage, Payment, Captured, Outstanding, Paid, Owing
<1> QED
  BY <1>3, <1>5, OneOrderSteps

LEMMA GrantIsAStep ==
  ASSUME Inv, NEW o \in OrderIds, Exists(o), Completed(o), FulfilTx(o), UNCHANGED external
  PROVE  PurchaseStep
<1>1. orders \in [OrderIds -> OrderRow]
  BY DEF Inv, TypeOK, RowsTypeOK
<1>2. /\ orders'[o].status = "PAID" /\ orders'[o].total = orders[o].total
      /\ \A p \in OrderIds \ {o} : orders'[p] = orders[p]
  BY <1>1 DEF FulfilTx, OrderRow
<1>3. OnlyChanges(o)
  BY <1>2 DEF OnlyChanges, Stage, Payment, Captured, Outstanding, Paid, Owing, external
<1>4. Payment(o) # "none" /\ Payment(o)' = Payment(o) /\ Stage(o)' = "granted"
  BY <1>2 DEF Completed, Payment, Captured, Outstanding, Paid, Owing, Exists, Stage,
              external
<1>5. Stage(o) \in {"open", "closed", "granted"}
  BY DEF Stage, Exists
<1> QED
  BY <1>3, <1>4, <1>5, OneOrderSteps

-----------------------------------------------------------------------------

LEMMA QuietIsAStep ==
  ASSUME UNCHANGED <<rows, session>>
  PROVE  PurchaseStep
BY InvisibleStep DEF rows

LEMMA ProviderRefines ==
  ASSUME Inv, NEW o \in OrderIds, BuyerPays(o) \/ PaymentClears(o) \/ SessionTimesOut(o)
  PROVE  PurchaseStep
<1>1. UNCHANGED rows /\ session[o] \in {"open", "approved", "unpaid"}
  BY DEF BuyerPays, PaymentClears, SessionTimesOut
<1>2. PICK x : /\ session' = [session EXCEPT ![o] = x]
               /\ session[o] = "unpaid" => x \in Done
  BY DEF BuyerPays, PaymentClears, SessionTimesOut, Done
<1>3. Exists(o)
  BY <1>1 DEF Inv, OnlyForOrders
<1> QED
  BY <1>1, <1>2, <1>3, SessionIsAStep DEF Paid

LEMMA SessionHandlersRefine ==
  ASSUME Inv, NEW h \in Handlers,
         ExpireSession(h) \/ CapturePayment(h) \/ StartPayment(h)
  PROVE  PurchaseStep
<1>1. UNCHANGED rows /\ handler[h].pc \in AboutOrder
  BY DEF ExpireSession, CapturePayment, StartPayment, AboutOrder
<1>2. PICK o \in OrderIds : o = handler[h].ord /\ Exists(o)
  BY <1>1, OrderInHand DEF Exists
<1>3. \/ UNCHANGED session
      \/ \E x : /\ session' = [session EXCEPT ![o] = x]
                /\ Paid(session[o]) => Paid(x)
                /\ session[o] = "unpaid" => x \in Done
  BY <1>2 DEF ExpireSession, CapturePayment, StartPayment, Paid, Done
<1>4. CASE UNCHANGED session
  BY <1>1, <1>4, QuietIsAStep
<1> QED
  BY <1>1, <1>2, <1>3, <1>4, SessionIsAStep

LEMMA RowHandlersRefine ==
  ASSUME Inv, NEW h \in Handlers,
         \/ Abandon(h) \/ DropOther(h) \/ CreateOrder(h) \/ Attribute(h)
         \/ StoreRef(h) \/ CommitFulfil(h) \/ CreditPartner(h)
  PROVE  PurchaseStep
<1>1. UNCHANGED external
  BY DEF Abandon, DropOther, CreateOrder, Attribute, StoreRef, CommitFulfil, CreditPartner
<1>2. orders \in [OrderIds -> OrderRow]
  BY DEF Inv, TypeOK, RowsTypeOK
<1>3. ASSUME UNCHANGED rows PROVE PurchaseStep
  BY <1>1, <1>3, QuietIsAStep DEF external
<1>4. CASE Abandon(h)
  <2>1. handler[h].pc \in AboutOrder
    BY <1>4 DEF Abandon, AboutOrder
  <2> QED
    BY <1>1, <1>4, <2>1, OrderInHand, CloseIsAStep DEF Abandon
<1>5. CASE DropOther(h)
  <2>1. PICK o \in handler[h].todo : MarkFailedIfPending(o)
    BY <1>5 DEF DropOther
  <2>2. o \in OrderIds
    BY <2>1 DEF Inv, Sound, HandlerState
  <2> QED
    BY <1>1, <2>1, <2>2, CloseIsAStep
<1>6. CASE CreateOrder(h)
  <2>1. \/ UNCHANGED rows
        \/ \E o \in OrderIds :
             /\ orders[o].status = "NONE"
             /\ CreatePending(o, handler[h].cart, handler[h].gateway, handler[h].key,
                              handler[h].quoted)
    BY <1>6 DEF CreateOrder
  <2>2. ASSUME NEW o \in OrderIds, orders[o].status = "NONE",
               CreatePending(o, handler[h].cart, handler[h].gateway, handler[h].key,
                             handler[h].quoted)
        PROVE  PurchaseStep
    BY <1>1, <2>2, PlaceIsAStep
  <2> QED
    BY <1>3, <2>1, <2>2
<1>7. CASE Attribute(h) \/ StoreRef(h)
  <2>1. handler[h].pc \in AboutOrder
    BY <1>7 DEF Attribute, StoreRef, AboutOrder
  <2>2. PICK o \in OrderIds : o = handler[h].ord
    BY <2>1, OrderInHand
  <2>3. CreateReferral(o) \/ SaveProviderRef(o)
    BY <1>7, <2>2 DEF Attribute, StoreRef
  <2>4. \A p \in OrderIds : /\ orders'[p].status = orders[p].status
                            /\ orders'[p].total = orders[p].total
    BY <1>2, <2>3 DEF CreateReferral, SaveProviderRef, OrderRow
  <2> QED
    BY <1>1, <2>4, InvisibleStep DEF external
<1>8. CASE CommitFulfil(h)
  <2>1. handler[h].pc = "commit" /\ handler[h].pc \in AboutOrder
    BY <1>8 DEF CommitFulfil, AboutOrder
  <2>2. Completed(handler[h].ord)
    BY <2>1 DEF Inv, Sound
  <2>3. UNCHANGED rows \/ FulfilTx(handler[h].ord)
    BY <1>8 DEF CommitFulfil
  <2> QED
    BY <1>1, <1>3, <2>1, <2>2, <2>3, OrderInHand, GrantIsAStep
<1>9. CASE CreditPartner(h)
  <2>1. UNCHANGED orders
    BY <1>9 DEF CreditPartner, ConfirmReferralTx
  <2> QED
    BY <1>1, <2>1, InvisibleStep DEF external
<1> QED
  BY <1>4, <1>5, <1>6, <1>7, <1>8, <1>9

LEMMA NextRefines ==
  ASSUME Inv, [Next]_vars
  PROVE  PurchaseStep
<1>1. CASE \E r \in Requests : Begin(r)
  BY <1>1, QuietIsAStep
  DEF Begin, BeginCheckout, BeginSettle, BeginResume, BeginCancel, BeginOn, external
<1>2. CASE \/ \E o \in OrderIds : BuyerPays(o) \/ PaymentClears(o) \/ SessionTimesOut(o)
           \/ \E e \in Events : ReceiveWebhook(e)
  BY <1>2, ProviderRefines, QuietIsAStep DEF ReceiveWebhook
<1>3. ASSUME NEW h \in Handlers, Step(h) \/ Crash(h)
      PROVE  PurchaseStep
  <2>1. CASE \/ ScanPending(h) \/ Reconcile(h) \/ FilterOwned(h) \/ ListOpen(h)
             \/ MakeQuote(h) \/ BeginFulfil(h) \/ ReadReferral(h) \/ Crash(h)
    BY <2>1, QuietIsAStep
    DEF ScanPending, Reconcile, FilterOwned, ListOpen, MakeQuote, BeginFulfil,
        ReadReferral, Crash, external
  <2> QED
    BY <1>3, <2>1, SessionHandlersRefine, RowHandlersRefine DEF Step
<1>4. CASE UNCHANGED vars
  BY <1>4, QuietIsAStep DEF vars
<1> QED
  BY <1>1, <1>2, <1>3, <1>4 DEF Next

LEMMA InitRefines == Init => Promise!PurchaseInit
<1> SUFFICES ASSUME Init PROVE Promise!PurchaseInit
  OBVIOUS
<1>1. \A o \in OrderIds : Stage(o) = "none" /\ Payment(o) = "none"
  BY DEF Init, RowsInit, NoOrder, Stage, Payment, Captured, Outstanding, Paid, Owing
<1> QED
  BY <1>1 DEF Promise!PurchaseInit

\* Checkout implements Purchase: whatever is in flight, an order is placed once,
\* closed only while open, and granted only once its payment was completed.
THEOREM CheckoutImplementsPurchase == Spec => ImplementsPurchase
<1>1. Inv /\ [Next]_vars => [Promise!PurchaseNext]_(Promise!purchaseVars)
  BY NextRefines DEF PurchaseStep
<1> QED
  BY <1>1, InitRefines, InvAlways, PTL DEF Spec, ImplementsPurchase, Promise!PurchaseSpec

-----------------------------------------------------------------------------
(* How handlers move, for what holds while requests come one at a time. *)

OneTab == \A r, q \in Requests : r = q

\* A webhook's handler only fulfils the order whose payment it was told of.
WebhookInv ==
  \A e \in Events :
    /\ handler[e].job = "none"
    /\ handler[e].pc \in {"idle", "fulfil", "commit", "confirm", "credit"}
    /\ handler[e].pc # "idle" => /\ handler[e].ord = OrderOf(e)
                                 /\ session[OrderOf(e)] # "none"

\* The awaits that the properties below do not have to follow.
Plain == {"idle", "scan", "reconcile", "expire", "capture", "abandon", "open", "start",
          "saveRef", "fulfil"}

PlainMove(h) == \E s \in HandlerState : Become(h, s) /\ s.pc \in Plain

LEMMA ReturnIsPlain == ASSUME NEW h, Return(h) PROVE PlainMove(h)
<1>1. Idle \in HandlerState /\ Idle.pc \in Plain
  BY DEF Idle, HandlerState, NoQuote, Codes, Plain
<1> QED
  BY <1>1 DEF Return, PlainMove

LEMMA AtOrderIsPlain ==
  ASSUME NEW h, NEW o \in OrderIds, NEW pc \in {"start", "fulfil", "abandon"},
         Become(h, AtOrder(pc, o))
  PROVE  PlainMove(h)
<1>1. AtOrder(pc, o) \in HandlerState /\ AtOrder(pc, o).pc \in Plain
  BY DEF AtOrder, Idle, HandlerState, NoQuote, Codes, Plain
<1> QED
  BY <1>1 DEF PlainMove

LEMMA GoToIsPlain ==
  ASSUME Inv, NEW h \in Handlers, NEW pc \in Plain, GoTo(h, pc)
  PROVE  PlainMove(h)
<1>1. handler[h] \in HandlerState
  BY DEF Inv, TypeOK
<1>2. [handler[h] EXCEPT !.pc = pc] \in HandlerState /\ [handler[h] EXCEPT !.pc = pc].pc = pc
  BY <1>1 DEF HandlerState, Plain
<1> QED
  BY <1>2 DEF GoTo, PlainMove

LEMMA FulfilledIsPlain ==
  ASSUME Inv, NEW h \in Handlers, Fulfilled(h)
  PROVE  PlainMove(h)
BY GoToIsPlain, ReturnIsPlain DEF Fulfilled, Plain

LEMMA ResolveIsPlain ==
  ASSUME Inv, NEW h \in Handlers, NEW o \in OrderIds,
         NEW res \in {"PAID", "ABANDONED", "RESUME"}, Resolve(h, o, res)
  PROVE  PlainMove(h)
<1> DEFINE me == [handler[h] EXCEPT !.todo = @ \ {o}, !.ord = o]
<1>1. handler[h] \in HandlerState
  BY DEF Inv, TypeOK
<1>2. me \in HandlerState
  BY <1>1 DEF HandlerState
<1>3. ASSUME NEW pc \in {"fulfil", "abandon", "reconcile"}
      PROVE  [me EXCEPT !.pc = pc] \in HandlerState /\ [me EXCEPT !.pc = pc].pc \in Plain
  <2> HIDE DEF me
  <2> QED BY <1>2 DEF HandlerState, Plain
<1>4. \/ Return(h)
      \/ Become(h, AtOrder("fulfil", o)) \/ Become(h, AtOrder("start", o))
      \/ \E pc \in {"fulfil", "abandon", "reconcile"} : Become(h, [me EXCEPT !.pc = pc])
  BY DEF Resolve, Resurrect
<1> HIDE DEF me
<1>5. CASE Become(h, AtOrder("fulfil", o)) \/ Become(h, AtOrder("start", o))
  BY <1>5, AtOrderIsPlain
<1>6. CASE \E pc \in {"fulfil", "abandon", "reconcile"} : Become(h, [me EXCEPT !.pc = pc])
  BY <1>3, <1>6 DEF PlainMove
<1> QED
  BY <1>4, <1>5, <1>6, ReturnIsPlain

\* A pending order was pending before, for the same courses.
PendingShrinks ==
  \A o \in OrderIds : orders'[o].status = "PENDING" =>
    orders[o].status = "PENDING" /\ orders'[o].items = orders[o].items

\* No order is fulfilled and no referral is opened.
PaidShrinks ==
  \A o \in OrderIds : /\ orders'[o].status = "PAID" => orders[o].status = "PAID"
                      /\ referral'[o].status = "PENDING" => referral[o].status = "PENDING"

\* The steps of a request, but for those that choose what to sell and those that
\* fulfil, move it to a plain await.
LEMMA RequestIsPlain ==
  ASSUME Inv, NEW h \in Handlers,
         \/ ScanPending(h) \/ Reconcile(h) \/ ExpireSession(h) \/ CapturePayment(h)
         \/ Abandon(h) \/ FilterOwned(h) \/ StartPayment(h) \/ StoreRef(h)
  PROVE  PlainMove(h) /\ PendingShrinks /\ PaidShrinks
<1>0. handler[h] \in HandlerState /\ orders \in [OrderIds -> OrderRow]
  BY DEF Inv, TypeOK, RowsTypeOK
<1>1. UNCHANGED rows => PendingShrinks /\ PaidShrinks
  BY DEF rows, PendingShrinks, PaidShrinks
<1>2. CASE ScanPending(h)
  <2>1. PICK want : want = handler[h].cart \ enrolled
    OBVIOUS
  <2>2. PICK s : s = [handler[h] EXCEPT !.pc = "reconcile", !.cart = want,
                                        !.todo = Pending(want),
                                        !.refs = RowsWithRef(Pending(want))]
    OBVIOUS
  <2>3. s \in HandlerState /\ s.pc \in Plain
    BY <1>0, <2>1, <2>2 DEF HandlerState, Plain, Pending, RowsWithRef
  <2>4. Return(h) \/ Become(h, s)
    BY <1>2, <2>1, <2>2 DEF ScanPending
  <2>5. UNCHANGED rows
    BY <1>2 DEF ScanPending
  <2> QED
    BY <1>1, <2>3, <2>4, <2>5, ReturnIsPlain DEF PlainMove
<1>3. CASE Reconcile(h)
  <2>1. PICK o \in OrderIds :
          \/ Resolve(h, o, "RESUME") \/ AskStripe(h, o) \/ AskPaypal(h, o)
    BY <1>0, <1>3 DEF Reconcile, HandlerState
  <2>2. ASSUME NEW pc \in {"expire", "capture"},
               Become(h, [handler[h] EXCEPT !.pc = pc, !.ord = o])
        PROVE  PlainMove(h)
    <3>1. PICK s : s = [handler[h] EXCEPT !.pc = pc, !.ord = o]
      OBVIOUS
    <3>2. s \in HandlerState /\ s.pc \in Plain
      BY <1>0, <3>1 DEF HandlerState, Plain
    <3> QED
      BY <2>2, <3>1, <3>2 DEF PlainMove
  <2>3. StripeSays(session[o]) \in {"PAID", "ABANDONED", "RESUME"}
    BY DEF StripeSays
  <2>4. PlainMove(h)
    BY <2>1, <2>2, <2>3, ResolveIsPlain, ReturnIsPlain DEF AskStripe, AskPaypal
  <2>5. UNCHANGED rows
    BY <1>3 DEF Reconcile
  <2> QED
    BY <1>1, <2>4, <2>5
<1>4. CASE ExpireSession(h) \/ CapturePayment(h)
  <2>1. handler[h].ord \in OrderIds
    BY <1>4, OrderInHand DEF ExpireSession, CapturePayment, AboutOrder
  <2>2. \A s : StripeSays(s) \in {"PAID", "ABANDONED", "RESUME"}
    BY DEF StripeSays
  <2>3. \/ Return(h)
        \/ \E res \in {"PAID", "ABANDONED", "RESUME"} : Resolve(h, handler[h].ord, res)
    BY <1>4, <2>2 DEF ExpireSession, CapturePayment
  <2>4. UNCHANGED rows
    BY <1>4 DEF ExpireSession, CapturePayment
  <2> QED
    BY <1>1, <2>1, <2>3, <2>4, ResolveIsPlain, ReturnIsPlain
<1>5. CASE Abandon(h)
  <2>1. PlainMove(h)
    BY <1>5, GoToIsPlain, ReturnIsPlain DEF Abandon, Plain
  <2>2. MarkFailedIfPending(handler[h].ord)
    BY <1>5 DEF Abandon
  <2>3. PendingShrinks /\ PaidShrinks
    BY <1>0, <2>2 DEF MarkFailedIfPending, PendingShrinks, PaidShrinks, OrderRow
  <2> QED
    BY <2>1, <2>3
<1>6. CASE FilterOwned(h)
  <2>1. PICK want : want = handler[h].cart \ enrolled
    OBVIOUS
  <2>2. PICK s : s = [handler[h] EXCEPT !.pc = "open", !.cart = want, !.ord = 0]
    OBVIOUS
  <2>3. s \in HandlerState /\ s.pc \in Plain
    BY <1>0, <2>1, <2>2 DEF HandlerState, Plain
  <2>4. (Return(h) \/ Become(h, s)) /\ UNCHANGED rows
    BY <1>6, <2>1, <2>2 DEF FilterOwned
  <2> QED
    BY <1>1, <2>3, <2>4, ReturnIsPlain DEF PlainMove
<1>7. CASE StartPayment(h)
  BY <1>1, <1>7, GoToIsPlain, ReturnIsPlain DEF StartPayment, Plain
<1>8. CASE StoreRef(h)
  <2>1. PlainMove(h)
    BY <1>8, ReturnIsPlain DEF StoreRef
  <2>2. SaveProviderRef(handler[h].ord)
    BY <1>8 DEF StoreRef
  <2>3. PendingShrinks /\ PaidShrinks
    BY <1>0, <2>2 DEF SaveProviderRef, PendingShrinks, PaidShrinks, OrderRow
  <2> QED
    BY <2>1, <2>3
<1> QED
  BY <1>2, <1>3, <1>4, <1>5, <1>6, <1>7, <1>8

LEMMA BeginIsPlain ==
  ASSUME Inv, NEW r \in Requests, Begin(r)
  PROVE  /\ PlainMove(r) /\ UNCHANGED <<rows, external>> /\ handler[r].pc = "idle"
<1>1. CASE \E body \in Bodies : BeginCheckout(r, body)
  <2>1. PICK body \in Bodies : BeginCheckout(r, body)
    BY <1>1
  <2>2. body \in CheckoutBody
    BY CheckoutAssumption
  <2>3. PICK s : s = [Idle EXCEPT !.job = "checkout", !.pc = "scan",
                                  !.cart = body.cart, !.gateway = body.gateway,
                                  !.key = body.key, !.code = body.code,
                                  !.useCredit = body.useCredit]
    OBVIOUS
  <2>4. s \in HandlerState /\ s.pc \in Plain
    BY <2>2, <2>3 DEF HandlerState, Plain, Idle, NoQuote, Codes, CheckoutBody
  <2>5. \/ Become(r, s)
        \/ \E o \in OrderIds : Become(r, AtOrder("start", o))
    BY <2>1, <2>3 DEF BeginCheckout, WithKey
  <2>6. PlainMove(r)
    BY <2>4, <2>5, AtOrderIsPlain DEF PlainMove
  <2> QED
    BY <2>1, <2>6 DEF BeginCheckout
<1>2. ASSUME NEW o \in OrderIds, BeginSettle(r, o) \/ BeginResume(r, o) \/ BeginCancel(r, o)
      PROVE  PlainMove(r) /\ UNCHANGED <<rows, external>> /\ handler[r].pc = "idle"
  <2>1. ASSUME NEW job \in {"settle", "resume"}, Become(r, ReconcileOne(job, o))
        PROVE  PlainMove(r)
    <3>1. ReconcileOne(job, o) \in HandlerState /\ ReconcileOne(job, o).pc \in Plain
      BY DEF ReconcileOne, RowsWithRef, HandlerState, Plain, Idle, NoQuote, Codes
    <3> QED
      BY <2>1, <3>1 DEF PlainMove
  <2> QED
    BY <1>2, <2>1, AtOrderIsPlain DEF BeginSettle, BeginResume, BeginCancel, BeginOn
<1> QED
  BY <1>1, <1>2 DEF Begin

\* A session stays, and only the start of a payment opens one.
LEMMA SessionMoves ==
  ASSUME Inv, [Next]_vars, NEW o \in OrderIds
  PROVE  /\ session[o] # "none" => session'[o] # "none"
         /\ session[o] = "none" =>
              \/ session'[o] = "none"
              \/ \E h \in Handlers : handler[h].pc = "start" /\ handler[h].ord = o
<1>1. session \in [OrderIds -> SessionState]
  BY DEF Inv, TypeOK
<1>2. CASE UNCHANGED session
  BY <1>2
<1>3. ASSUME NEW h \in Handlers, ExpireSession(h) \/ CapturePayment(h) \/ StartPayment(h)
      PROVE  /\ session[o] # "none" => session'[o] # "none"
             /\ session[o] = "none" =>
                  \/ session'[o] = "none"
                  \/ \E g \in Handlers : handler[g].pc = "start" /\ handler[g].ord = o
  <2>1. handler[h].ord \in OrderIds
    BY <1>3, OrderInHand DEF ExpireSession, CapturePayment, StartPayment, AboutOrder
  <2>2. CASE ExpireSession(h)
    <3>1. PICK s \in {session[handler[h].ord]}
                       \cup (IF session[handler[h].ord] = "open" THEN {"expired"} ELSE {}) :
            session' = [session EXCEPT ![handler[h].ord] = s]
      BY <2>2 DEF ExpireSession
    <3> QED
      BY <1>1, <2>1, <3>1
  <2>3. CASE CapturePayment(h)
    BY <1>1, <2>1, <2>3 DEF CapturePayment
  <2>4. CASE StartPayment(h)
    BY <1>1, <2>1, <2>4 DEF StartPayment
  <2> QED
    BY <1>3, <2>2, <2>3, <2>4
<1>4. ASSUME NEW q \in OrderIds, BuyerPays(q) \/ PaymentClears(q) \/ SessionTimesOut(q)
      PROVE  /\ session[o] # "none" => session'[o] # "none"
             /\ session[o] = "none" => session'[o] = "none"
  BY <1>1, <1>4 DEF BuyerPays, AfterCheckout, PaymentClears, SessionTimesOut
<1>5. ASSUME NEW h \in Handlers, Step(h)
      PROVE  ExpireSession(h) \/ CapturePayment(h) \/ StartPayment(h) \/ UNCHANGED session
  BY <1>5 DEF Step, ScanPending, Reconcile, Abandon, FilterOwned, ListOpen, DropOther,
     MakeQuote, CreateOrder, Attribute, StoreRef, BeginFulfil, CommitFulfil, ReadReferral,
     CreditPartner, external
<1>6. ASSUME NEW e \in Events, ReceiveWebhook(e) PROVE UNCHANGED session
  BY <1>6 DEF ReceiveWebhook
<1>7. ASSUME NEW r \in Requests, Begin(r) PROVE UNCHANGED session
  BY <1>7, BeginIsPlain DEF external
<1>8. ASSUME NEW h \in Handlers, Crash(h) PROVE UNCHANGED session
  BY <1>8 DEF Crash, external
<1>9. UNCHANGED vars => UNCHANGED session
  BY DEF vars
<1> QED
  BY <1>2, <1>3, <1>4, <1>5, <1>6, <1>7, <1>8, <1>9 DEF Next

\* Only the handler that takes a step moves.
LEMMA StepBecomes ==
  ASSUME Inv, NEW h \in Handlers, Step(h) \/ Crash(h)
  PROVE  /\ handler[h].pc # "idle"
         /\ \A g \in Handlers : g # h => handler'[g] = handler[g]
<1>1. handler \in [Handlers -> HandlerState]
  BY DEF Inv, TypeOK
<1>2. CASE \/ ScanPending(h) \/ Reconcile(h) \/ ExpireSession(h) \/ CapturePayment(h)
           \/ Abandon(h) \/ FilterOwned(h) \/ StartPayment(h) \/ StoreRef(h)
  <2>1. handler[h].pc # "idle"
    BY <1>2 DEF ScanPending, Reconcile, ExpireSession, CapturePayment, Abandon, FilterOwned,
                StartPayment, StoreRef
  <2> QED
    BY <1>1, <1>2, <2>1, RequestIsPlain DEF PlainMove, Become
<1>3. CASE \/ ListOpen(h) \/ DropOther(h) \/ MakeQuote(h) \/ CreateOrder(h) \/ Attribute(h)
           \/ BeginFulfil(h) \/ CommitFulfil(h) \/ ReadReferral(h) \/ CreditPartner(h)
           \/ Crash(h)
  <2>1. handler[h].pc # "idle"
    BY <1>3 DEF ListOpen, DropOther, MakeQuote, CreateOrder, Attribute, BeginFulfil,
                CommitFulfil, ReadReferral, CreditPartner, Crash
  <2>2. \E s : Become(h, s)
    BY <1>3 DEF ListOpen, DropOther, MakeQuote, CreateOrder, Attribute, BeginFulfil,
                CommitFulfil, ReadReferral, CreditPartner, Crash, Proceed, Resurrect,
                AfterCreate, Fulfilled, GoTo, Return
  <2> QED
    BY <1>1, <2>1, <2>2 DEF Become
<1> QED
  BY <1>2, <1>3 DEF Step

LEMMA WebhookNext ==
  ASSUME Inv, WebhookInv, [Next]_vars
  PROVE  WebhookInv'
<1>1. handler \in [Handlers -> HandlerState]
  BY DEF Inv, TypeOK
<1>2. \A e \in Events : session[OrderOf(e)] # "none" => session'[OrderOf(e)] # "none"
  BY SessionMoves, OrderOfEvent
<1> SUFFICES ASSUME NEW e \in Events
             PROVE  /\ handler'[e].job = "none"
                    /\ handler'[e].pc \in {"idle", "fulfil", "commit", "confirm", "credit"}
                    /\ handler'[e].pc # "idle" => /\ handler'[e].ord = OrderOf(e)
                                                  /\ session'[OrderOf(e)] # "none"
  BY DEF WebhookInv
<1>3. /\ e \in Handlers /\ handler[e] \in HandlerState
      /\ handler[e].job = "none"
      /\ handler[e].pc \in {"idle", "fulfil", "commit", "confirm", "credit"}
      /\ handler[e].pc # "idle" => /\ handler[e].ord = OrderOf(e)
                                   /\ session[OrderOf(e)] # "none"
  BY <1>1 DEF WebhookInv, Handlers
<1>4. CASE handler'[e] = handler[e]
  BY <1>2, <1>3, <1>4
<1>5. ASSUME Return(e) PROVE handler'[e] = Idle
  BY <1>1, <1>3, <1>5 DEF Return, Become
<1>6. ASSUME NEW pc \in {"commit", "confirm", "credit"}, GoTo(e, pc)
      PROVE  handler'[e].pc = pc /\ handler'[e].job = handler[e].job
             /\ handler'[e].ord = handler[e].ord
  <2>1. PICK s : s = [handler[e] EXCEPT !.pc = pc]
    OBVIOUS
  <2>2. s.pc = pc /\ s.job = handler[e].job /\ s.ord = handler[e].ord
    BY <1>3, <2>1 DEF HandlerState
  <2>3. handler'[e] = s
    BY <1>1, <1>3, <1>6, <2>1 DEF GoTo, Become
  <2> QED
    BY <2>2, <2>3
<1>7. CASE Step(e) \/ Crash(e)
  <2>1. \/ BeginFulfil(e) \/ CommitFulfil(e) \/ ReadReferral(e) \/ CreditPartner(e) \/ Crash(e)
    BY <1>3, <1>7
    DEF Step, ScanPending, Reconcile, ExpireSession, CapturePayment, Abandon, FilterOwned,
        ListOpen, DropOther, MakeQuote, CreateOrder, Attribute, StartPayment, StoreRef
  <2>2. \/ Return(e) \/ GoTo(e, "commit") \/ GoTo(e, "confirm") \/ GoTo(e, "credit")
    BY <1>3, <2>1 DEF BeginFulfil, CommitFulfil, ReadReferral, CreditPartner, Crash,
                      Fulfilled
  <2>3. handler[e].pc # "idle"
    BY <1>3, <1>7, StepBecomes
  <2>4. CASE Return(e)
    BY <1>5, <2>4 DEF Idle
  <2> QED
    BY <1>2, <1>3, <1>6, <2>2, <2>3, <2>4
<1>8. CASE ReceiveWebhook(e)
  <2>1. handler'[e] = AtOrder("fulfil", OrderOf(e)) /\ session[OrderOf(e)] # "none"
    BY <1>1, <1>3, <1>8 DEF ReceiveWebhook, Sent, OrderOf, Become
  <2> QED
    BY <1>2, <2>1 DEF AtOrder, Idle
<1>9. ASSUME NEW h \in Handlers, h # e, Step(h) \/ Crash(h) PROVE handler'[e] = handler[e]
  BY <1>3, <1>9, StepBecomes
<1>10. ASSUME NEW q \in Events, q # e, ReceiveWebhook(q) PROVE handler'[e] = handler[e]
  BY <1>1, <1>3, <1>10 DEF ReceiveWebhook, Become
<1>11. ASSUME NEW q \in OrderIds, BuyerPays(q) \/ PaymentClears(q) \/ SessionTimesOut(q)
       PROVE  handler'[e] = handler[e]
  BY <1>11 DEF BuyerPays, PaymentClears, SessionTimesOut
<1>12. ASSUME NEW r \in Requests, Begin(r) PROVE handler'[e] = handler[e]
  <2>1. r # e
    BY CheckoutAssumption
  <2> QED
    BY <1>1, <1>3, <1>12, <2>1, BeginIsPlain DEF PlainMove, Become
<1>13. UNCHANGED vars => handler'[e] = handler[e]
  BY DEF vars
<1> QED
  BY <1>4, <1>7, <1>8, <1>9, <1>10, <1>11, <1>12, <1>13 DEF Next

-----------------------------------------------------------------------------
(* One pending order per course. *)

\* What a request has decided to sell is in no pending order, but for those that it
\* still has to drop.
PendingInv ==
  /\ OnePendingPerCourse
  /\ \A r \in Requests :
       /\ handler[r].pc = "drop" => Pending(handler[r].cart) \subseteq handler[r].todo
       /\ handler[r].pc \in {"quote", "create"} => Pending(handler[r].cart) = {}

\* What a record s has decided to sell.
Clear(s) ==
  /\ s.pc = "drop" => Pending(s.cart) \subseteq s.todo
  /\ s.pc \in {"quote", "create"} => Pending(s.cart) = {}

LEMMA ClearStays ==
  ASSUME PendingShrinks, NEW s, Clear(s)
  PROVE  Clear(s)'
BY DEF PendingShrinks, Clear, Pending

\* While no order becomes pending only the moving handler's record has to be clear.
LEMMA PendingStays ==
  ASSUME Inv, PendingInv, PendingShrinks, NEW h \in Handlers, NEW s, Become(h, s), Clear(s)'
  PROVE  PendingInv'
<1>1. OnePendingPerCourse'
  BY DEF PendingInv, OnePendingPerCourse, PendingShrinks
<1>2. \A g \in Handlers : handler'[g] = IF g = h THEN s ELSE handler[g]
  BY DEF Inv, TypeOK, Become
<1>3. ASSUME NEW r \in Requests PROVE Clear(handler[r])'
  <2>1. PICK t : t = handler[r]
    OBVIOUS
  <2>2. Clear(t)
    BY <2>1 DEF PendingInv, Clear
  <2>3. Clear(t)' /\ r \in Handlers
    BY <2>2, ClearStays DEF Handlers
  <2> QED
    BY <1>2, <2>1, <2>3 DEF Clear, Pending
<1> QED
  BY <1>1, <1>3 DEF PendingInv, Clear

LEMMA PlainKeepsPending ==
  ASSUME Inv, PendingInv, PendingShrinks, NEW h \in Handlers, PlainMove(h)
  PROVE  PendingInv'
<1>1. PICK s : Become(h, s) /\ s.pc \in Plain
  BY DEF PlainMove
<1>2. Clear(s)'
  BY <1>1 DEF Clear, Plain
<1> QED
  BY <1>1, <1>2, PendingStays

\* Once nothing it wants is pending a request is clear to go on.
LEMMA ProceedIsClear ==
  ASSUME NEW r, NEW me \in HandlerState, Proceed(r, me), Pending(me.cart)' = {}
  PROVE  \E s : Become(r, s) /\ Clear(s)'
<1>1. CASE me.cart = {}
  <2>1. \/ Become(r, Idle)
        \/ Become(r, AtOrder("start", me.ord))
    BY <1>1 DEF Proceed, Resurrect, Return
  <2>2. Idle.pc = "idle" /\ AtOrder("start", me.ord).pc = "start"
    BY DEF AtOrder, Idle
  <2> QED
    BY <2>1, <2>2 DEF Clear
<1>2. CASE me.cart # {}
  <2>1. PICK s : s = [me EXCEPT !.pc = "quote", !.ord = 0, !.todo = {}, !.refs = {}]
    OBVIOUS
  <2>2. Become(r, s)
    BY <1>2, <2>1 DEF Proceed
  <2>3. s.pc = "quote" /\ s.cart = me.cart
    BY <2>1 DEF HandlerState
  <2>4. Clear(s)'
    BY <2>3 DEF Clear, Pending
  <2> QED
    BY <2>2, <2>4
<1> QED
  BY <1>1, <1>2

LEMMA ListOpenPending ==
  ASSUME Inv, PendingInv, NEW h \in Handlers, ListOpen(h)
  PROVE  PendingInv'
<1>1. handler[h] \in HandlerState /\ UNCHANGED rows
  BY DEF Inv, TypeOK, ListOpen
<1>2. PendingShrinks
  BY <1>1 DEF PendingShrinks, rows
<1> DEFINE open == Pending(handler[h].cart)
           same == {o \in open : orders[o].gateway = handler[h].gateway}
<1>3. PICK first, me :
        /\ first \in OrderIds \cup {0}
        /\ me = [handler[h] EXCEPT
                   !.cart = @ \ UNION {orders[o].items : o \in same},
                   !.ord = first, !.todo = open \ same,
                   !.refs = RowsWithRef(same), !.pc = "drop"]
        /\ IF me.todo = {} THEN Proceed(h, me) ELSE Become(h, me)
  BY DEF ListOpen
<1>4. /\ me \in HandlerState /\ me.todo = open \ same /\ me.pc = "drop"
      /\ me.cart = handler[h].cart \ UNION {orders[o].items : o \in same}
  <2>1. open \subseteq OrderIds /\ RowsWithRef(same) \subseteq OrderIds
    BY DEF Pending, RowsWithRef
  <2> HIDE DEF open, same
  <2> QED
    BY <1>1, <1>3, <2>1 DEF HandlerState
<1>5. Pending(me.cart) \subseteq me.todo
  <2> SUFFICES ASSUME NEW o \in OrderIds, orders[o].status = "PENDING",
                      NEW c \in orders[o].items, c \in me.cart
               PROVE  o \in open \ same
    BY <1>4 DEF Pending
  <2>1. o \in open
    BY <1>4 DEF Pending
  <2>2. o \notin same
    BY <1>4
  <2> QED
    BY <2>1, <2>2
<1> HIDE DEF open, same
<1>6. Pending(me.cart)' = Pending(me.cart)
  BY <1>1 DEF Pending, rows
<1>7. \E s : Become(h, s) /\ Clear(s)'
  <2>1. CASE me.todo = {}
    BY <1>3, <1>4, <1>5, <1>6, <2>1, ProceedIsClear
  <2>2. CASE me.todo # {}
    <3>1. Clear(me)'
      BY <1>4, <1>5, <1>6 DEF Clear
    <3> QED
      BY <1>3, <2>2, <3>1
  <2> QED
    BY <2>1, <2>2
<1> QED
  BY <1>2, <1>7, PendingStays

LEMMA DropOtherPending ==
  ASSUME Inv, PendingInv, WebhookInv, NEW h \in Handlers, DropOther(h)
  PROVE  PendingInv'
<1>1. handler[h] \in HandlerState /\ orders \in [OrderIds -> OrderRow] /\ h \in Requests
  BY DEF Inv, TypeOK, RowsTypeOK, DropOther, WebhookInv, Handlers
<1>2. PICK o, me :
        /\ o \in handler[h].todo
        /\ MarkFailedIfPending(o)
        /\ me = [handler[h] EXCEPT !.todo = @ \ {o}]
        /\ IF me.todo = {} THEN Proceed(h, me) ELSE Become(h, me)
  BY DEF DropOther
<1>3. /\ me \in HandlerState /\ me.todo = handler[h].todo \ {o}
      /\ me.cart = handler[h].cart /\ me.pc = "drop" /\ o \in OrderIds
  BY <1>1, <1>2 DEF HandlerState, DropOther
<1>4. PendingShrinks /\ orders'[o].status # "PENDING"
  BY <1>1, <1>2, <1>3 DEF MarkFailedIfPending, PendingShrinks, OrderRow
<1>5. Pending(me.cart)' \subseteq me.todo
  <2>1. Pending(me.cart) \subseteq handler[h].todo
    BY <1>1, <1>3 DEF PendingInv, DropOther
  <2> QED
    BY <1>3, <1>4, <2>1 DEF Pending, PendingShrinks
<1>6. \E s : Become(h, s) /\ Clear(s)'
  <2>1. CASE me.todo = {}
    BY <1>2, <1>3, <1>5, <2>1, ProceedIsClear
  <2>2. CASE me.todo # {}
    <3>1. Clear(me)'
      BY <1>3, <1>5 DEF Clear
    <3> QED
      BY <1>2, <2>2, <3>1
  <2> QED
    BY <2>1, <2>2
<1> QED
  BY <1>4, <1>6, PendingStays

LEMMA MakeQuotePending ==
  ASSUME Inv, PendingInv, WebhookInv, NEW h \in Handlers, MakeQuote(h)
  PROVE  PendingInv'
<1>1. handler[h] \in HandlerState /\ UNCHANGED rows /\ h \in Requests
  BY DEF Inv, TypeOK, MakeQuote, WebhookInv, Handlers
<1>2. PICK s : s = [handler[h] EXCEPT
                      !.pc = "create",
                      !.quoted = Quote(handler[h].cart, handler[h].code,
                                       handler[h].useCredit)]
  OBVIOUS
<1>3. s.pc = "create" /\ s.cart = handler[h].cart
  BY <1>1, <1>2 DEF HandlerState
<1>4. Pending(s.cart) = {}
  BY <1>1, <1>3 DEF PendingInv, MakeQuote
<1>5. Clear(s)'
  BY <1>1, <1>3, <1>4 DEF Clear, Pending, rows
<1>6. PendingShrinks
  BY <1>1 DEF PendingShrinks, rows
<1>7. Become(h, s)
  BY <1>2 DEF MakeQuote
<1> QED
  BY <1>5, <1>6, <1>7, PendingStays

\* The only request there is creates an order that shares no course with a pending one.
LEMMA CreateOrderPending ==
  ASSUME Inv, PendingInv, WebhookInv, OneTab, NEW h \in Handlers, CreateOrder(h)
  PROVE  PendingInv'
<1>1. /\ handler[h] \in HandlerState /\ orders \in [OrderIds -> OrderRow] /\ h \in Requests
      /\ handler \in [Handlers -> HandlerState]
  BY DEF Inv, TypeOK, RowsTypeOK, CreateOrder, WebhookInv, Handlers
<1>2. CASE Return(h) /\ UNCHANGED rows
  <2>1. PendingShrinks
    BY <1>2 DEF PendingShrinks, rows
  <2> QED
    BY <1>2, <2>1, ReturnIsPlain, PlainKeepsPending
<1>3. CASE ~ (Return(h) /\ UNCHANGED rows)
  <2>1. PICK o \in OrderIds :
          /\ orders[o].status = "NONE"
          /\ CreatePending(o, handler[h].cart, handler[h].gateway, handler[h].key,
                           handler[h].quoted)
          /\ \/ Become(h, AtOrder("attribute", o))
             \/ AfterCreate(h, o, handler[h].quoted.total)
    BY <1>3 DEF CreateOrder
  <2>2. /\ orders'[o].items = handler[h].cart
        /\ \A q \in OrderIds : q # o => orders'[q] = orders[q]
    BY <1>1, <2>1 DEF CreatePending
  <2>3. Pending(handler[h].cart) = {}
    BY <1>1 DEF PendingInv, CreateOrder
  <2>4. OnePendingPerCourse'
    <3> SUFFICES ASSUME NEW q \in OrderIds, NEW p \in OrderIds,
                        orders'[q].status = "PENDING", orders'[p].status = "PENDING",
                        orders'[q].items \cap orders'[p].items # {}, q # p
                 PROVE  FALSE
      BY DEF OnePendingPerCourse
    <3>1. CASE q # o /\ p # o
      BY <2>2, <3>1 DEF PendingInv, OnePendingPerCourse
    <3>2. CASE q = o
      BY <2>2, <2>3, <3>2 DEF Pending
    <3>3. CASE p = o
      BY <2>2, <2>3, <3>3 DEF Pending
    <3> QED
      BY <3>1, <3>2, <3>3
  <2>5. handler'[h].pc \in {"attribute", "start", "fulfil"}
    <3>1. PICK pc \in {"attribute", "start", "fulfil"} : Become(h, AtOrder(pc, o))
      BY <2>1 DEF AfterCreate
    <3>2. handler'[h] = AtOrder(pc, o)
      BY <1>1, <3>1 DEF Become
    <3> QED
      BY <3>2 DEF AtOrder, Idle
  <2>6. \A r \in Requests : r = h
    BY <1>1 DEF OneTab
  <2> QED
    BY <2>4, <2>5, <2>6 DEF PendingInv
<1> QED
  BY <1>2, <1>3

LEMMA PendingNext ==
  ASSUME Inv, PendingInv, WebhookInv, OneTab, [Next]_vars
  PROVE  PendingInv'
<1>1. UNCHANGED rows => PendingShrinks
  BY DEF PendingShrinks, rows
<1>2. ASSUME NEW r \in Requests, Begin(r) PROVE PendingInv'
  BY <1>1, <1>2, BeginIsPlain, PlainKeepsPending DEF Handlers
<1>3. ASSUME NEW e \in Events, ReceiveWebhook(e) PROVE PendingInv'
  <2>1. UNCHANGED rows /\ Become(e, AtOrder("fulfil", OrderOf(e))) /\ e \in Handlers
    BY <1>3 DEF ReceiveWebhook, Handlers
  <2> QED
    BY <1>1, <2>1, OrderOfEvent, AtOrderIsPlain, PlainKeepsPending
<1>4. CASE UNCHANGED <<orders, handler>>
  BY <1>4 DEF PendingInv, OnePendingPerCourse, Pending
<1>5. ASSUME NEW o \in OrderIds, BuyerPays(o) \/ PaymentClears(o) \/ SessionTimesOut(o)
      PROVE  UNCHANGED <<orders, handler>>
  BY <1>5 DEF BuyerPays, PaymentClears, SessionTimesOut, rows
<1>6. UNCHANGED vars => UNCHANGED <<orders, handler>>
  BY DEF vars, rows
<1>7. ASSUME NEW h \in Handlers, Crash(h) PROVE PendingInv'
  BY <1>1, <1>7, ReturnIsPlain, PlainKeepsPending DEF Crash
<1>8. ASSUME NEW h \in Handlers, Step(h) PROVE PendingInv'
  <2>1. handler[h] \in HandlerState /\ orders \in [OrderIds -> OrderRow]
    BY DEF Inv, TypeOK, RowsTypeOK
  <2>2. CASE Attribute(h)
    <3>1. handler[h].ord \in OrderIds
      BY <2>2, OrderInHand DEF Attribute, AboutOrder
    <3>2. PlainMove(h)
      BY <2>2, <3>1, AtOrderIsPlain DEF Attribute, AfterCreate
    <3>3. CreateReferral(handler[h].ord)
      BY <2>2 DEF Attribute
    <3>4. PendingShrinks
      BY <2>1, <3>3 DEF CreateReferral, PendingShrinks, OrderRow
    <3> QED
      BY <3>2, <3>4, PlainKeepsPending
  <2>3. ASSUME NEW pc \in {"commit", "confirm", "credit"}, GoTo(h, pc), PendingShrinks
        PROVE  PendingInv'
    <3>1. PICK s : s = [handler[h] EXCEPT !.pc = pc]
      OBVIOUS
    <3>2. Become(h, s) /\ s.pc = pc
      BY <2>1, <2>3, <3>1 DEF GoTo, HandlerState
    <3>3. Clear(s)'
      BY <3>2 DEF Clear
    <3> QED
      BY <2>3, <3>2, <3>3, PendingStays
  <2>4. CASE BeginFulfil(h) \/ ReadReferral(h)
    <3>1. PendingShrinks
      BY <1>1, <2>4 DEF BeginFulfil, ReadReferral
    <3> QED
      BY <2>3, <2>4, <3>1, FulfilledIsPlain, PlainKeepsPending DEF BeginFulfil, ReadReferral
  <2>5. CASE CommitFulfil(h)
    <3>1. UNCHANGED rows \/ FulfilTx(handler[h].ord)
      BY <2>5 DEF CommitFulfil
    <3>2. PendingShrinks
      BY <1>1, <2>1, <3>1 DEF FulfilTx, PendingShrinks, OrderRow
    <3> QED
      BY <2>3, <2>5, <3>2, ReturnIsPlain, PlainKeepsPending DEF CommitFulfil
  <2>6. CASE CreditPartner(h)
    <3>1. PendingShrinks
      BY <2>6 DEF CreditPartner, ConfirmReferralTx, PendingShrinks
    <3> QED
      BY <2>6, <3>1, FulfilledIsPlain, PlainKeepsPending DEF CreditPartner
  <2> QED
    BY <1>8, <2>2, <2>4, <2>5, <2>6, RequestIsPlain, PlainKeepsPending, ListOpenPending,
       DropOtherPending, MakeQuotePending, CreateOrderPending
    DEF Step
<1> QED
  BY <1>2, <1>3, <1>4, <1>5, <1>6, <1>7, <1>8 DEF Next

LEMMA TabInit == Init => WebhookInv /\ PendingInv
BY DEF Init, RowsInit, NoOrder, WebhookInv, PendingInv, OnePendingPerCourse, Idle, Handlers

THEOREM WebhookInvAlways == Spec => []WebhookInv
BY TabInit, WebhookNext, InvAlways, PTL DEF Spec

\* A buyer who sends one checkout at a time never has a course in two pending orders,
\* whatever its reconciliations, the webhooks, the provider's timeouts and crashed
\* requests leave behind (createSession's two passes over findPendingOrders).
THEOREM OneOrderIsPendingPerCourse ==
  ASSUME OneTab
  PROVE  Spec => []OnePendingPerCourse
<1>1. Init => PendingInv
  BY TabInit
<1>2. Inv /\ WebhookInv /\ PendingInv /\ [Next]_vars => PendingInv'
  BY PendingNext
<1>3. PendingInv => OnePendingPerCourse
  BY DEF PendingInv
<1> QED
  BY <1>1, <1>2, <1>3, InvAlways, WebhookInvAlways, PTL DEF Spec

-----------------------------------------------------------------------------
(* No referral is left pending. *)

\* A paid order whose referral waits is in the hands of a handler about to confirm it,
\* and no order is attributed after it could be paid.
ReferralInv ==
  /\ \A o \in OrderIds :
       orders[o].status = "PAID" /\ referral[o].status = "PENDING"
         => \E h \in Handlers : handler[h].pc \in {"confirm", "credit"} /\ handler[h].ord = o
  /\ \A h \in Handlers :
       handler[h].pc = "attribute" => /\ session[handler[h].ord] = "none"
                                      /\ orders[handler[h].ord].status # "PAID"

\* An order becomes paid by a fulfilment that goes on to its referral, and a referral
\* becomes pending where the order is attributed.
LEMMA PaidMoves ==
  ASSUME Inv, [Next]_vars, NEW o \in OrderIds
  PROVE  /\ orders'[o].status = "PAID" =>
              \/ orders[o].status = "PAID"
              \/ \E h \in Handlers : handler[h].pc = "commit" /\ handler[h].ord = o
                                     /\ GoTo(h, "confirm")
         /\ referral'[o].status = "PENDING" =>
              \/ referral[o].status = "PENDING"
              \/ \E h \in Handlers : handler[h].pc = "attribute" /\ handler[h].ord = o
<1>1. orders \in [OrderIds -> OrderRow] /\ referral \in [OrderIds -> ReferralRow]
  BY DEF Inv, TypeOK, RowsTypeOK
<1>2. UNCHANGED rows => PaidShrinks
  BY DEF PaidShrinks, rows
<1>3. ASSUME NEW h \in Handlers, Step(h),
             ~ CommitFulfil(h), ~ Attribute(h)
      PROVE  PaidShrinks
  <2>1. CASE ListOpen(h) \/ MakeQuote(h) \/ BeginFulfil(h) \/ ReadReferral(h)
    BY <1>2, <2>1 DEF ListOpen, MakeQuote, BeginFulfil, ReadReferral
  <2>2. CASE DropOther(h)
    <3>1. PICK q : MarkFailedIfPending(q)
      BY <2>2 DEF DropOther
    <3> QED
      BY <1>1, <3>1 DEF MarkFailedIfPending, PaidShrinks, OrderRow
  <2>3. CASE CreateOrder(h)
    <3>1. \/ UNCHANGED rows
          \/ \E q \in OrderIds : CreatePending(q, handler[h].cart, handler[h].gateway,
                                              handler[h].key, handler[h].quoted)
      BY <2>3 DEF CreateOrder
    <3> QED
      BY <1>1, <1>2, <3>1 DEF CreatePending, PaidShrinks
  <2>4. CASE CreditPartner(h)
    <3>1. ConfirmReferralTx(handler[h].ord)
      BY <2>4 DEF CreditPartner
    <3> QED
      BY <1>1, <3>1 DEF ConfirmReferralTx, PaidShrinks, ReferralRow
  <2> QED
    BY <1>3, <2>1, <2>2, <2>3, <2>4, RequestIsPlain DEF Step
<1>4. ASSUME NEW h \in Handlers, CommitFulfil(h)
      PROVE  /\ UNCHANGED referral
             /\ orders'[o].status = "PAID" =>
                  \/ orders[o].status = "PAID"
                  \/ /\ handler[h].pc = "commit" /\ handler[h].ord = o
                     /\ GoTo(h, "confirm")
  <2>1. CASE UNCHANGED rows
    BY <2>1 DEF rows
  <2>2. CASE FulfilTx(handler[h].ord) /\ GoTo(h, "confirm")
    BY <1>1, <1>4, <2>2 DEF CommitFulfil, FulfilTx, OrderRow
  <2> QED
    BY <1>4, <2>1, <2>2 DEF CommitFulfil
<1>5. ASSUME NEW h \in Handlers, Attribute(h)
      PROVE  /\ orders'[o].status = orders[o].status
             /\ referral'[o].status = "PENDING" =>
                  \/ referral[o].status = "PENDING"
                  \/ handler[h].pc = "attribute" /\ handler[h].ord = o
  <2>1. CreateReferral(handler[h].ord) /\ handler[h].pc = "attribute"
    BY <1>5 DEF Attribute
  <2> QED
    BY <1>1, <2>1 DEF CreateReferral, OrderRow, ReferralRow
<1>6. ASSUME NEW r \in Requests, Begin(r) PROVE UNCHANGED rows
  BY <1>6, BeginIsPlain
<1>7. /\ \A q \in OrderIds :
            BuyerPays(q) \/ PaymentClears(q) \/ SessionTimesOut(q) => UNCHANGED rows
      /\ \A e \in Events : ReceiveWebhook(e) => UNCHANGED rows
  BY DEF ReceiveWebhook, BuyerPays, PaymentClears, SessionTimesOut
<1>8. ASSUME NEW h \in Handlers, Crash(h) PROVE UNCHANGED rows
  BY <1>8 DEF Crash
<1>9. UNCHANGED vars => UNCHANGED rows
  BY DEF vars
<1>10. \/ PaidShrinks
       \/ \E h \in Handlers : CommitFulfil(h) \/ Attribute(h)
  BY <1>2, <1>3, <1>6, <1>7, <1>8, <1>9 DEF Next
<1>11. CASE PaidShrinks
  BY <1>11 DEF PaidShrinks
<1>12. CASE \E h \in Handlers : CommitFulfil(h)
  <2>1. PICK h \in Handlers : CommitFulfil(h)
    BY <1>12
  <2>2. referral'[o] = referral[o]
    BY <1>4, <2>1
  <2>3. orders'[o].status = "PAID" =>
          \/ orders[o].status = "PAID"
          \/ /\ handler[h].pc = "commit" /\ handler[h].ord = o
             /\ GoTo(h, "confirm")
    BY <1>4, <2>1
  <2> QED
    BY <2>2, <2>3
<1>13. CASE \E h \in Handlers : Attribute(h)
  BY <1>5, <1>13
<1> QED
  BY <1>10, <1>11, <1>12, <1>13

\* A handler that has just come to attribute an order has created it.
LEMMA AttributeMoves ==
  ASSUME Inv, [Next]_vars, NEW g \in Handlers, handler'[g].pc = "attribute"
  PROVE  \/ handler'[g] = handler[g]
         \/ /\ session'[handler'[g].ord] = "none"
            /\ orders'[handler'[g].ord].status # "PAID"
<1>1. handler \in [Handlers -> HandlerState] /\ orders \in [OrderIds -> OrderRow]
  BY DEF Inv, TypeOK, RowsTypeOK
<1>2. ASSUME NEW h \in Handlers, PlainMove(h) PROVE handler'[g] = handler[g]
  <2>1. PICK s : handler' = [handler EXCEPT ![h] = s] /\ s.pc \in Plain
    BY <1>2 DEF PlainMove, Become
  <2>2. g # h
    BY <1>1, <2>1 DEF Plain
  <2> QED
    BY <1>1, <2>1, <2>2
<1>3. ASSUME NEW h \in Handlers, NEW pc \in {"commit", "confirm", "credit"}, GoTo(h, pc)
      PROVE  handler'[g] = handler[g]
  <2>1. PICK s : s = [handler[h] EXCEPT !.pc = pc]
    OBVIOUS
  <2>2. s.pc = pc /\ handler' = [handler EXCEPT ![h] = s]
    BY <1>1, <1>3, <2>1 DEF GoTo, Become, HandlerState
  <2>3. g # h
    BY <1>1, <2>2
  <2> QED
    BY <1>1, <2>2, <2>3
<1>4. ASSUME NEW h \in Handlers, NEW me \in HandlerState, me.pc = "drop",
             IF me.todo = {} THEN Proceed(h, me) ELSE Become(h, me)
      PROVE  handler'[g] = handler[g]
  <2>1. PICK s : s = [me EXCEPT !.pc = "quote", !.ord = 0, !.todo = {}, !.refs = {}]
    OBVIOUS
  <2>2. s.pc = "quote"
    BY <1>4, <2>1 DEF HandlerState
  <2>3. \E t \in {me, s, Idle, AtOrder("start", me.ord)} : handler' = [handler EXCEPT ![h] = t]
    BY <1>4, <2>1 DEF Proceed, Resurrect, Return, Become
  <2>4. Idle.pc = "idle" /\ AtOrder("start", me.ord).pc = "start"
    BY DEF AtOrder, Idle
  <2>5. g # h
    BY <1>1, <1>4, <2>2, <2>3, <2>4
  <2> QED
    BY <1>1, <2>3, <2>5
<1>5. ASSUME NEW h \in Handlers, ListOpen(h) PROVE handler'[g] = handler[g]
  <2> DEFINE open == Pending(handler[h].cart)
             same == {o \in open : orders[o].gateway = handler[h].gateway}
  <2>1. PICK first, me :
          /\ first \in OrderIds \cup {0}
          /\ me = [handler[h] EXCEPT
                     !.cart = @ \ UNION {orders[o].items : o \in same},
                     !.ord = first, !.todo = open \ same,
                     !.refs = RowsWithRef(same), !.pc = "drop"]
          /\ IF me.todo = {} THEN Proceed(h, me) ELSE Become(h, me)
    BY <1>5 DEF ListOpen
  <2>2. open \subseteq OrderIds /\ RowsWithRef(same) \subseteq OrderIds
    BY DEF Pending, RowsWithRef
  <2> HIDE DEF open, same
  <2>3. handler[h] \in HandlerState
    BY <1>1
  <2>4. me \in HandlerState /\ me.pc = "drop"
    BY <2>1, <2>2, <2>3 DEF HandlerState
  <2> QED
    BY <1>4, <2>1, <2>4
<1>6. ASSUME NEW h \in Handlers, DropOther(h) PROVE handler'[g] = handler[g]
  <2>1. PICK o, me : /\ me = [handler[h] EXCEPT !.todo = @ \ {o}]
                     /\ IF me.todo = {} THEN Proceed(h, me) ELSE Become(h, me)
    BY <1>6 DEF DropOther
  <2>2. me \in HandlerState /\ me.pc = "drop"
    BY <1>1, <1>6, <2>1 DEF HandlerState, DropOther
  <2> QED
    BY <1>4, <2>1, <2>2
<1>7. ASSUME NEW h \in Handlers, MakeQuote(h) PROVE handler'[g] = handler[g]
  <2>1. PICK s : s = [handler[h] EXCEPT
                        !.pc = "create",
                        !.quoted = Quote(handler[h].cart, handler[h].code,
                                         handler[h].useCredit)]
    OBVIOUS
  <2>2. s.pc = "create" /\ handler' = [handler EXCEPT ![h] = s]
    BY <1>1, <1>7, <2>1 DEF MakeQuote, Become, HandlerState
  <2>3. g # h
    BY <1>1, <2>2
  <2> QED
    BY <1>1, <2>2, <2>3
<1>8. ASSUME NEW h \in Handlers, CreateOrder(h), handler'[g] # handler[g]
      PROVE  /\ session'[handler'[g].ord] = "none"
             /\ orders'[handler'[g].ord].status # "PAID"
  <2>1. g = h
    BY <1>8, StepBecomes DEF Step
  <2>2. ~ PlainMove(h)
    BY <1>2, <1>8
  <2>3. PICK o \in OrderIds :
          /\ orders[o].status = "NONE"
          /\ CreatePending(o, handler[h].cart, handler[h].gateway, handler[h].key,
                           handler[h].quoted)
          /\ Become(h, AtOrder("attribute", o))
    <3>1. ~ Return(h)
      BY <2>2, ReturnIsPlain
    <3>2. \A o \in OrderIds : ~ AfterCreate(h, o, handler[h].quoted.total)
      BY <2>2, AtOrderIsPlain DEF AfterCreate
    <3> QED
      BY <1>8, <3>1, <3>2 DEF CreateOrder
  <2>4. handler'[g].ord = o
    BY <1>1, <2>1, <2>3 DEF Become, AtOrder, Idle
  <2>5. session[o] = "none" /\ UNCHANGED session
    BY <1>8, <2>3 DEF Inv, OnlyForOrders, Exists, CreateOrder, external
  <2>6. orders'[o].status = "PENDING"
    BY <1>1, <2>3 DEF CreatePending
  <2> QED
    BY <2>4, <2>5, <2>6
<1>9. ASSUME NEW h \in Handlers, Attribute(h) PROVE handler'[g] = handler[g]
  <2>1. handler[h].ord \in OrderIds
    BY <1>9, OrderInHand DEF Attribute, AboutOrder
  <2>2. PlainMove(h)
    BY <1>9, <2>1, AtOrderIsPlain DEF Attribute, AfterCreate
  <2> QED
    BY <1>2, <2>2
<1>10. ASSUME NEW h \in Handlers,
              BeginFulfil(h) \/ CommitFulfil(h) \/ ReadReferral(h) \/ CreditPartner(h)
                \/ Crash(h)
       PROVE  handler'[g] = handler[g]
  BY <1>2, <1>3, <1>10, FulfilledIsPlain, ReturnIsPlain
  DEF BeginFulfil, CommitFulfil, ReadReferral, CreditPartner, Crash
<1>11. ASSUME NEW h \in Handlers, Step(h), ~ CreateOrder(h) PROVE handler'[g] = handler[g]
  BY <1>2, <1>5, <1>6, <1>7, <1>9, <1>10, <1>11, RequestIsPlain DEF Step
<1>12. ASSUME NEW r \in Requests, Begin(r) PROVE handler'[g] = handler[g]
  BY <1>2, <1>12, BeginIsPlain DEF Handlers
<1>13. ASSUME NEW e \in Events, ReceiveWebhook(e) PROVE handler'[g] = handler[g]
  BY <1>2, <1>13, OrderOfEvent, AtOrderIsPlain DEF ReceiveWebhook, Handlers
<1>14. ASSUME NEW o \in OrderIds, BuyerPays(o) \/ PaymentClears(o) \/ SessionTimesOut(o)
       PROVE  handler'[g] = handler[g]
  BY <1>14 DEF BuyerPays, PaymentClears, SessionTimesOut
<1>15. UNCHANGED vars => handler'[g] = handler[g]
  BY DEF vars
<1> QED
  BY <1>8, <1>10, <1>11, <1>12, <1>13, <1>14, <1>15 DEF Next

LEMMA ReferralNext ==
  ASSUME Inv, WebhookInv, OneTab, ~ MayCrash, ReferralInv, [Next]_vars
  PROVE  ReferralInv'
<1>1. handler \in [Handlers -> HandlerState] /\ referral \in [OrderIds -> ReferralRow]
  BY DEF Inv, TypeOK, RowsTypeOK
\* Where an order is attributed nobody else works on it.
<1>2. ASSUME NEW g \in Handlers, handler[g].pc = "attribute",
             NEW h \in Handlers, handler[h].ord = handler[g].ord,
             handler[h].pc \in {"start", "commit"}
      PROVE  FALSE
  <2>1. g \in Requests
    BY <1>2 DEF WebhookInv, Handlers
  <2>2. CASE h \in Requests
    BY <1>2, <2>1, <2>2 DEF OneTab
  <2>3. CASE h \in Events
    BY <1>2, <2>3 DEF WebhookInv, ReferralInv
  <2> QED
    BY <2>2, <2>3 DEF Handlers
<1>3. ASSUME NEW g \in Handlers, handler'[g].pc = "attribute"
      PROVE  /\ session'[handler'[g].ord] = "none"
             /\ orders'[handler'[g].ord].status # "PAID"
  <2>1. CASE handler'[g] = handler[g]
    <3>1. PICK o \in OrderIds : o = handler[g].ord
      BY <1>3, <2>1, OrderInHand DEF AboutOrder
    <3>2. session[o] = "none" /\ orders[o].status # "PAID"
      BY <1>3, <2>1, <3>1 DEF ReferralInv
    <3>3. session'[o] = "none"
      BY <1>2, <1>3, <2>1, <3>1, <3>2, SessionMoves
    <3>4. orders'[o].status # "PAID"
      BY <1>2, <1>3, <2>1, <3>1, <3>2, PaidMoves
    <3> QED
      BY <2>1, <3>1, <3>3, <3>4
  <2> QED
    BY <1>3, <2>1, AttributeMoves
\* Who is about to confirm a referral does so, or goes on to.
<1>4. ASSUME NEW o \in OrderIds, referral'[o].status = "PENDING",
             NEW h \in Handlers, handler[h].pc \in {"confirm", "credit"}, handler[h].ord = o
      PROVE  handler'[h].pc \in {"confirm", "credit"} /\ handler'[h].ord = o
  <2>1. ASSUME NEW pc \in {"confirm", "credit"}, GoTo(h, pc)
        PROVE  handler'[h].pc \in {"confirm", "credit"} /\ handler'[h].ord = o
    <3>1. PICK s : s = [handler[h] EXCEPT !.pc = pc]
      OBVIOUS
    <3>2. s.pc = pc /\ s.ord = o
      BY <1>1, <1>4, <3>1 DEF HandlerState
    <3>3. handler'[h] = s
      BY <1>1, <2>1, <3>1 DEF GoTo, Become
    <3> QED
      BY <3>2, <3>3
  <2>2. CASE Step(h)
    <3>1. ReadReferral(h) \/ CreditPartner(h)
      BY <1>4, <2>2
      DEF Step, ScanPending, Reconcile, ExpireSession, CapturePayment, Abandon, FilterOwned,
          ListOpen, DropOther, MakeQuote, CreateOrder, Attribute, StartPayment, StoreRef,
          BeginFulfil, CommitFulfil
    <3>2. CASE CreditPartner(h)
      <4>1. ConfirmReferralTx(o)
        BY <1>4, <3>2 DEF CreditPartner
      <4> QED
        BY <1>1, <1>4, <4>1 DEF ConfirmReferralTx, ReferralRow
    <3>3. CASE ReadReferral(h)
      <4>1. UNCHANGED referral
        BY <3>3 DEF ReadReferral, rows
      <4>2. GoTo(h, "credit")
        BY <1>4, <3>3, <4>1 DEF ReadReferral
      <4> QED
        BY <2>1, <4>2
    <3> QED
      BY <3>1, <3>2, <3>3
  <2>3. ASSUME NEW g \in Handlers, g # h, Step(g) PROVE handler'[h] = handler[h]
    BY <2>3, StepBecomes
  <2>4. ASSUME NEW r \in Requests, Begin(r) PROVE handler'[h] = handler[h]
    BY <1>1, <1>4, <2>4, BeginIsPlain DEF PlainMove, Become
  <2>5. /\ \A q \in OrderIds : BuyerPays(q) \/ PaymentClears(q) \/ SessionTimesOut(q)
                              => handler'[h] = handler[h]
        /\ \A e \in Events : ReceiveWebhook(e) => handler'[h] = handler[h]
    BY <1>1, <1>4 DEF ReceiveWebhook, Become, BuyerPays, PaymentClears, SessionTimesOut
  <2>6. UNCHANGED vars => handler'[h] = handler[h]
    BY DEF vars
  <2>7. \A g \in Handlers : ~ Crash(g)
    BY DEF Crash
  <2> QED
    BY <1>4, <2>2, <2>3, <2>4, <2>5, <2>6, <2>7 DEF Next
<1>5. ASSUME NEW o \in OrderIds, orders'[o].status = "PAID", referral'[o].status = "PENDING"
      PROVE  \E h \in Handlers : handler'[h].pc \in {"confirm", "credit"} /\ handler'[h].ord = o
  <2>1. CASE orders[o].status = "PAID" /\ referral[o].status = "PENDING"
    <3>1. PICK h \in Handlers : handler[h].pc \in {"confirm", "credit"} /\ handler[h].ord = o
      BY <2>1 DEF ReferralInv
    <3> QED
      BY <1>4, <1>5, <3>1
  <2>2. CASE orders[o].status # "PAID"
    <3>1. PICK h \in Handlers : handler[h].ord = o /\ GoTo(h, "confirm")
      BY <1>5, <2>2, PaidMoves
    <3>2. PICK s : s = [handler[h] EXCEPT !.pc = "confirm"]
      OBVIOUS
    <3>3. s.pc = "confirm" /\ s.ord = o
      BY <1>1, <3>1, <3>2 DEF HandlerState
    <3>4. handler'[h] = s
      BY <1>1, <3>1, <3>2 DEF GoTo, Become
    <3> QED
      BY <3>3, <3>4
  <2>3. CASE orders[o].status = "PAID" /\ referral[o].status # "PENDING"
    <3>1. PICK h \in Handlers : handler[h].pc = "attribute" /\ handler[h].ord = o
      BY <1>5, <2>3, PaidMoves
    <3> QED
      BY <2>3, <3>1 DEF ReferralInv
  <2> QED
    BY <2>1, <2>2, <2>3
<1> QED
  BY <1>3, <1>5 DEF ReferralInv

\* A campaign's partner is credited for every paid order it brought: the referral is
\* confirmed outside the fulfilment's transaction and re-fulfilling a PAID order does
\* nothing, but no handler that completes leaves one unconfirmed, while the buyer sends
\* one request at a time and none dies (OrdersService.fulfill, confirmReferral).
THEOREM NoReferralStaysPending ==
  ASSUME OneTab, ~ MayCrash
  PROVE  Spec => []NoReferralLeftPending
<1>1. Init => ReferralInv
  BY DEF Init, RowsInit, NoOrder, ReferralInv, Idle
<1>2. Inv /\ WebhookInv /\ ReferralInv /\ [Next]_vars => ReferralInv'
  BY ReferralNext
<1>3. ReferralInv => NoReferralLeftPending
  BY DEF ReferralInv, NoReferralLeftPending, Idle
<1> QED
  BY <1>1, <1>2, <1>3, InvAlways, WebhookInvAlways, PTL DEF Spec
=============================================================================
