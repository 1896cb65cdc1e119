------------------------------ MODULE MCPayouts -----------------------------
(* Instances of Payouts for TLC: one course, two orders.  In a behaviour,     *)
(* two admins act together, or two fulfilments confirm together, or refunds   *)
(* are made beside one of each: extra says which.                             *)
EXTENDS Payouts, TLC

CONSTANTS c1, r1, a1, a2, f1, f2

VARIABLE extra

MCPrice == [c \in Courses |-> 2]
MCDiscount == [k \in Codes |-> 0]
MCUsageLimit == [k \in Codes |-> 0]

\* All of it is the partner's, to keep the numbers small.
MCSale == [o \in OrderIds |-> 3 - o]

Acting == {a \in PayoutAdmins : admin[a] # AdminIdle}
Confirming == {f \in Confirmers : confirming[f] # 0}

OnlyOneExtra ==
  /\ extra # "admin" => \A a, b \in Acting : a = b
  /\ extra # "fulfilment" => \A f, g \in Confirming : f = g
  /\ extra # "refunds" => reversal = NoReversal

MCPayoutInit ==
  /\ PayoutInit
  /\ extra \in {"admin", "fulfilment", "refunds"}
  /\ OnlyOneExtra

MCPayoutNext == PayoutNext /\ UNCHANGED extra /\ OnlyOneExtra'

MCPayoutSpec == MCPayoutInit /\ [][MCPayoutNext]_<<payoutVars, extra>>

PayoutSymmetry == Permutations(PayoutAdmins) \cup Permutations(Confirmers)
=============================================================================
