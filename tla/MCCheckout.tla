----------------------------- MODULE MCCheckout -----------------------------
(* Instances of Checkout for TLC: two requests racing for one course, and    *)
(* one request at a time over mixed carts with every kind of code.           *)
EXTENDS Checkout, TLC

CONSTANTS c1, c2, r1, r2

Ask(cart, gw, key, code, useCredit) ==
  [cart |-> cart, gateway |-> gw, key |-> key, code |-> code, useCredit |-> useCredit]

MCPrice == [c \in Courses |-> 2]
MCDiscount == [k \in Codes |-> CASE k = "none"     -> 0
                                 [] k = "coupon"   -> 3
                                 [] k = "campaign" -> 1]
MCUsageLimit == [k \in Codes |-> IF k = "campaign" THEN 1 ELSE 0]

\* Two tabs: a keyed checkout, and one at another gateway that spends credit.
RacingBodies == {Ask({c1}, "STRIPE", "k1", "none", TRUE),
                 Ask({c1}, "PAYPAL", "k2", "none", TRUE)}

\* One tab: a course that a coupon makes free, the other at a gateway that is
\* asked, a keyed cart of both at one that cannot be asked, and a campaign.
OneTabBodies == {Ask({c2}, "STRIPE", NoKey, "coupon", FALSE),
                 Ask({c1}, "STRIPE", NoKey, "none", FALSE),
                 Ask({c1, c2}, "PAYPAL", NoKey, "campaign", FALSE),
                 Ask({c1}, "SSLCOMMERZ", "k1", "none", FALSE)}

Symmetry == Permutations(Requests)
=============================================================================
