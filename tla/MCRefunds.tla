------------------------------ MODULE MCRefunds -----------------------------
(* Instance of Refunds for TLC: one order of two courses.  In the behaviours  *)
(* that are singly, no two refunds are in flight together, and the order is   *)
(* at Stripe, where it may be fulfilled unpaid; in the others it is at PayPal.*)
EXTENDS MCCheckout, Refunds

CONSTANTS a1, a2

VARIABLE singly

\* A campaign order for two courses, whose payment several handlers may fulfil.
RacedBodies == {Ask({c1, c2}, gateway, NoKey, "campaign", FALSE) : gateway \in Gateways}

InFlight == {a \in Admins : refund[a] # NoPlan}

MCRefundInit == RefundInit /\ singly \in BOOLEAN

MCRefundNext ==
  /\ RefundNext
  /\ singly => \A a, b \in InFlight' : a = b
  /\ \A o \in OrderIds : orders'[o].gateway # IF singly THEN "PAYPAL" ELSE "STRIPE"
  /\ UNCHANGED singly

MCRefundSpec == MCRefundInit /\ [][MCRefundNext]_<<refundVars, singly>>

\* What FEATURE_FLOWS.md and schema.prisma say of refunds, of one at a time.
NothingRefundedTwiceSingly == singly => NothingRefundedTwice
RefundsAddUpSingly == singly => RefundsAddUp

AdminSymmetry == Permutations(Admins)
=============================================================================
