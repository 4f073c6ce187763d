------------------------------ MODULE Coupons ------------------------------
(***************************************************************************)
(* Coupons and fares: the queries on the coupons table in appPostRides and *)
(* calculateDiscountedFare (app_handlers.go), and the fare constants of    *)
(* owner_handlers.go.  A user's rows are a sequence in created_at order;   *)
(* usedBy = NoRide stands for used_by IS NULL.  A code is reduced to its   *)
(* family: the registration campaign, an invitation, or a reward.          *)
(***************************************************************************)
EXTENDS Integers, Sequences

NoRide == 0

Code == {"CP_NEW2024", "INV", "RWD"}

Coupon == [code : Code, discount : Nat, usedBy : Nat]

\* The primary key (user_id, code): the campaign code is given to a user once.
OneCampaignCoupon(cs) ==
  \A i, j \in DOMAIN cs :
    cs[i].code = "CP_NEW2024" /\ cs[j].code = "CP_NEW2024" => i = j

InitialFare     == 500
FarePerDistance == 100

NewCoupon(code) ==
  [code     |-> code,
   discount |-> CASE code = "CP_NEW2024" -> 3000
                  [] code = "INV"        -> 1500
                  [] code = "RWD"        -> 1000,
   usedBy   |-> NoRide]

\* Mutant: used coupons are not excluded.
UsedToo(cs) == DOMAIN cs

Unused(cs) == {i \in DOMAIN cs : cs[i].usedBy = NoRide}

\* Mutant: the UPDATE has no LIMIT 1.
AllOfThem(rows) == {i \in rows : TRUE}

Oldest(rows) == {i \in rows : \A j \in rows : i <= j}

\* Mutant: without a campaign coupon a first ride gets none.
CampaignOnly(cs, firstRide) ==
  IF firstRide THEN {i \in Unused(cs) : cs[i].code = "CP_NEW2024"}
               ELSE Oldest(Unused(cs))

\* The row a new ride redeems: the campaign coupon if the transaction counts
\* a single ride, and otherwise, or without one, the oldest unused coupon.
\* Empty when there is none.
Redeemable(cs, firstRide) ==
  LET campaign == {i \in Unused(cs) : cs[i].code = "CP_NEW2024"}
  IN  IF firstRide /\ campaign # {} THEN campaign ELSE Oldest(Unused(cs))

Redeem(cs, firstRide, ride) ==
  [i \in DOMAIN cs |->
     IF i \in Redeemable(cs, firstRide) THEN [cs[i] EXCEPT !.usedBy = ride]
                                        ELSE cs[i]]

\* The discount of the row with used_by = ride, 0 without one.
DiscountOf(cs, ride) ==
  LET rows == {i \in DOMAIN cs : cs[i].usedBy = ride}
  IN  IF rows = {} THEN 0 ELSE cs[CHOOSE i \in rows : TRUE].discount

\* The discount an estimate takes: of the unused campaign coupon, whatever
\* rides there are, otherwise of the oldest unused coupon.
EstimatedDiscount(cs) ==
  LET campaign == {i \in Unused(cs) : cs[i].code = "CP_NEW2024"}
      rows == IF campaign # {} THEN campaign ELSE Oldest(Unused(cs))
  IN  IF rows = {} THEN 0 ELSE cs[CHOOSE i \in rows : TRUE].discount

\* Mutant: the discount is not limited to the metered fare.
FareBelowInitial(distance, discount) ==
  InitialFare + FarePerDistance * distance - discount

DiscountedFare(distance, discount) ==
  LET metered == FarePerDistance * distance
  IN  InitialFare + (IF metered > discount THEN metered - discount ELSE 0)
=============================================================================
