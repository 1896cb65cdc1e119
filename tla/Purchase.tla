------------------------------ MODULE Purchase ------------------------------
(***************************************************************************)
(* What checkout promises for each order, whatever handlers are in flight: *)
(* an order is placed once; from then on its payment may be completed,     *)
(* with money that is held or that is still outstanding, and outstanding   *)
(* money may come, but none goes; it may be closed while it is open; and   *)
(* access is granted only when the payment was completed or nothing was    *)
(* owed, even when the order had been closed before that, and is never     *)
(* taken back by checkout: not from money that stays outstanding either.   *)
(***************************************************************************)
CONSTANT Ids

VARIABLES
  stage,      \* Ids -> "none", "open", "closed" or "granted"
  payment     \* Ids -> "none", "outstanding" or "held" (also when nothing is owed)

purchaseVars == <<stage, payment>>

PurchaseTypeOK ==
  /\ stage \in [Ids -> {"none", "open", "closed", "granted"}]
  /\ payment \in [Ids -> {"none", "outstanding", "held"}]

PurchaseInit ==
  /\ stage = [i \in Ids |-> "none"]
  /\ payment = [i \in Ids |-> "none"]

Place(i, free) ==
  /\ stage[i] = "none"
  /\ stage' = [stage EXCEPT ![i] = "open"]
  /\ payment' = IF free THEN [payment EXCEPT ![i] = "held"] ELSE payment

Complete(i) ==
  /\ stage[i] # "none" /\ payment[i] = "none"
  /\ payment' = [payment EXCEPT ![i] = "outstanding"]
  /\ UNCHANGED stage

Hold(i) ==
  /\ stage[i] # "none"
  /\ payment' = [payment EXCEPT ![i] = "held"]
  /\ UNCHANGED stage

Close(i) ==
  /\ stage[i] = "open"
  /\ stage' = [stage EXCEPT ![i] = "closed"]
  /\ UNCHANGED payment

Grant(i) ==
  /\ payment[i] # "none"
  /\ stage[i] \in {"open", "closed"}
  /\ stage' = [stage EXCEPT ![i] = "granted"]
  /\ UNCHANGED payment

PurchaseNext ==
  \E i \in Ids : \/ \E free \in BOOLEAN : Place(i, free)
                 \/ Complete(i) \/ Hold(i) \/ Close(i) \/ Grant(i)

PurchaseSpec == PurchaseInit /\ [][PurchaseNext]_purchaseVars
=============================================================================
