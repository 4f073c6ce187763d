------------------------ MODULE DispatchFares_proofs ------------------------
(***************************************************************************)
(* Coupons, fares, the order of a ride's states and its evaluations, for   *)
(* any clients: nothing is assumed of how the commands of users and chairs *)
(* overlap, nor that an acceptance is sent once.                           *)
(***************************************************************************)
EXTENDS DispatchTypes_proofs

-----------------------------------------------------------------------------
(* Coupons.                                                                *)

\* Redeeming gives one unused coupon at most to the ride, and changes neither
\* the other coupons nor the discount of any other ride.
LEMMA RedeemEffect ==
  ASSUME NEW cs \in Seq(Coupon), OneCampaignCoupon(cs), NEW first \in BOOLEAN,
         NEW ride \in Nat \ {0}, \A i \in DOMAIN cs : cs[i].usedBy # ride
  PROVE  /\ DOMAIN Redeem(cs, first, ride) = DOMAIN cs
         /\ OneCampaignCoupon(Redeem(cs, first, ride))
         /\ \A i \in DOMAIN cs :
              \/ Redeem(cs, first, ride)[i] = cs[i]
              \/ /\ cs[i].usedBy = NoRide
                 /\ Redeem(cs, first, ride)[i].usedBy = ride
         /\ \A i, j \in DOMAIN cs :
              /\ Redeem(cs, first, ride)[i].usedBy = ride
              /\ Redeem(cs, first, ride)[j].usedBy = ride
              => i = j
         /\ \A r \in Nat \ {0} :
              r # ride => DiscountOf(Redeem(cs, first, ride), r) = DiscountOf(cs, r)
<1>. DEFINE chosen == Redeemable(cs, first)
            new == Redeem(cs, first, ride)
<1>1. /\ DOMAIN cs \subseteq Nat
      /\ \A i \in DOMAIN cs : cs[i] \in Coupon
  BY ElementOfSeq
<1>2. /\ chosen \subseteq Unused(cs)
      /\ \A i, j \in chosen : i = j
  <2>1. CASE first /\ {i \in Unused(cs) : cs[i].code = "CP_NEW2024"} # {}
    <3>1. chosen = {i \in Unused(cs) : cs[i].code = "CP_NEW2024"}
      BY <2>1 DEF Redeemable
    <3>. QED  BY <3>1 DEF OneCampaignCoupon, Unused
  <2>2. CASE ~(first /\ {i \in Unused(cs) : cs[i].code = "CP_NEW2024"} # {})
    <3>1. chosen = Oldest(Unused(cs))
      BY <2>2 DEF Redeemable
    <3>2. \A i, j \in Oldest(Unused(cs)) : i <= j /\ j <= i
      BY DEF Oldest
    <3>3. Oldest(Unused(cs)) \subseteq Unused(cs) /\ Unused(cs) \subseteq Nat
      BY <1>1 DEF Oldest, Unused
    <3>. QED  BY <3>1, <3>2, <3>3
  <2>. QED  BY <2>1, <2>2
<1>3. DOMAIN new = DOMAIN cs
  BY DEF Redeem
<1>4. ASSUME NEW i \in DOMAIN cs
      PROVE  /\ i \in chosen => cs[i].usedBy = NoRide /\ new[i].usedBy = ride
             /\ i \notin chosen => new[i] = cs[i]
             /\ new[i].code = cs[i].code
  <2>1. cs[i] \in Coupon
    BY <1>1
  <2>2. i \in chosen => cs[i].usedBy = NoRide
    BY <1>2 DEF Unused
  <2>3. /\ i \in chosen => new[i] = [cs[i] EXCEPT !.usedBy = ride]
        /\ i \notin chosen => new[i] = cs[i]
    BY DEF Redeem
  <2>4. /\ [cs[i] EXCEPT !.usedBy = ride].usedBy = ride
        /\ [cs[i] EXCEPT !.usedBy = ride].code = cs[i].code
    BY <2>1 DEF Coupon
  <2>. QED  BY <2>2, <2>3, <2>4
<1>. HIDE DEF chosen, new
<1>5. OneCampaignCoupon(new)
  BY <1>3, <1>4 DEF OneCampaignCoupon
<1>6. ASSUME NEW i \in DOMAIN cs
      PROVE  \/ new[i] = cs[i]
             \/ cs[i].usedBy = NoRide /\ new[i].usedBy = ride
  BY <1>4
<1>7. ASSUME NEW i \in DOMAIN cs, NEW j \in DOMAIN cs,
             new[i].usedBy = ride, new[j].usedBy = ride
      PROVE  i = j
  <2>1. i \in chosen /\ j \in chosen
    BY <1>4, <1>7
  <2>. QED  BY <1>2, <2>1
<1>8. ASSUME NEW r \in Nat \ {0}, r # ride
      PROVE  DiscountOf(new, r) = DiscountOf(cs, r)
  <2>. DEFINE rows == {i \in DOMAIN cs : cs[i].usedBy = r}
  <2>1. ASSUME NEW i \in DOMAIN cs
        PROVE  /\ new[i].usedBy = r <=> cs[i].usedBy = r
               /\ cs[i].usedBy = r => new[i] = cs[i]
    BY <1>4, <1>8, <2>1 DEF NoRide
  <2>2. {i \in DOMAIN new : new[i].usedBy = r} = rows
    BY <1>3, <2>1
  <2>3. CASE rows = {}
    BY <2>2, <2>3 DEF DiscountOf
  <2>4. CASE rows # {}
    <3>1. (CHOOSE i \in rows : TRUE) \in rows
      BY <2>4
    <3>2. new[CHOOSE i \in rows : TRUE] = cs[CHOOSE i \in rows : TRUE]
      BY <2>1, <3>1
    <3>3. DiscountOf(cs, r) = cs[CHOOSE i \in rows : TRUE].discount
      BY <2>4 DEF DiscountOf
    <3>4. DiscountOf(new, r) = new[CHOOSE i \in rows : TRUE].discount
      BY <2>2, <2>4 DEF DiscountOf
    <3>. QED  BY <3>2, <3>3, <3>4
  <2>. QED  BY <2>3, <2>4
<1>. QED  BY <1>3, <1>5, <1>6, <1>7, <1>8 DEF new

-----------------------------------------------------------------------------
(* Coupons pay for one ride, and quotes are honoured.                      *)

FaresInv ==
  /\ \A u \in Users : OneCampaignCoupon(coupons[u])
  /\ OneCouponPerRide
  /\ QuoteHonoured

\* What all steps but a booking leave of the rides.
SameFares ==
  /\ RideIds' = RideIds
  /\ \A r \in RideIds : /\ rides'[r].user = rides[r].user
                        /\ rides'[r].distance = rides[r].distance
  /\ UNCHANGED <<coupons, quoted>>

LEMMA FaresKept ==
  ASSUME FaresInv, SameFares
  PROVE  FaresInv'
<1>1. (\A u \in Users : OneCampaignCoupon(coupons[u]))'
  BY DEF FaresInv, SameFares
<1>2. \A u \in Users : RidesOf(u)' = RidesOf(u)
  BY DEF RidesOf, SameFares
<1>3. OneCouponPerRide'
  BY <1>2 DEF FaresInv, OneCouponPerRide, SameFares
<1>4. QuoteHonoured'
  BY DEF FaresInv, QuoteHonoured, FareOf, SameFares
<1>. QED  BY <1>1, <1>3, <1>4 DEF FaresInv

LEMMA BookingKeepsFares ==
  ASSUME Typed, FaresInv, NEW u \in Users, NEW k \in UserConns, BookCommit(u, k)
  PROVE  FaresInv'
<1>. DEFINE first == userReq[<<u, k>>].first
<1>0. PICK new \in Nat \ {0} : new = Len(rides) + 1
  BY DEF Typed, RowsOK
<1>1. PICK d \in Distances :
        /\ rides' = Append(rides, [user |-> u, chair |-> NoChair,
                                   distance |-> d, evaluation |-> 0])
        /\ coupons' = [coupons EXCEPT ![u] = Redeem(@, first, new)]
        /\ quoted' = Append(quoted,
                       DiscountedFare(d, DiscountOf(coupons'[u], new)))
  BY <1>0 DEF BookCommit
<1>2. first \in BOOLEAN
  BY RequestTypes DEF Typed, UserReqOK, BookCommit
<1>3. /\ RideIds = 1 .. Len(rides)
      /\ Len(rides) \in Nat /\ Len(quoted) = Len(rides)
      /\ rides \in Seq(Ride) /\ quoted \in Seq(Nat)
      /\ coupons \in [Users -> Seq(Coupon)]
  BY DEF Typed, RowsOK, OthersOK, RideIds
<1>4. /\ RideIds' = RideIds \cup {new}
      /\ \A r \in RideIds : rides'[r] = rides[r]
      /\ rides'[new] = [user |-> u, chair |-> NoChair, distance |-> d, evaluation |-> 0]
      /\ \A r \in RideIds : quoted'[r] = quoted[r]
      /\ quoted'[new] = DiscountedFare(d, DiscountOf(coupons'[u], new))
  <2>1. d \in Nat
    BY DispatchAssumption
  <2>2. [user |-> u, chair |-> NoChair, distance |-> d, evaluation |-> 0] \in Ride
    BY <2>1 DEF Ride
  <2>3. coupons'[u] \in Seq(Coupon)
    BY <1>1, <1>2, <1>3, RedeemType
  <2>4. DiscountedFare(d, DiscountOf(coupons'[u], new)) \in Nat
    BY <2>1, <2>3, DiscountType, FareType
  <2>5. /\ Len(rides') = Len(rides) + 1
        /\ DOMAIN rides' = 1 .. Len(rides) + 1
        /\ \A r \in 1 .. Len(rides) : rides'[r] = rides[r]
        /\ rides'[Len(rides) + 1] = [user |-> u, chair |-> NoChair,
                                     distance |-> d, evaluation |-> 0]
    BY <1>1, <1>3, <2>2, AppendProperties
  <2>6. /\ \A r \in 1 .. Len(quoted) : quoted'[r] = quoted[r]
        /\ quoted'[Len(quoted) + 1] = DiscountedFare(d, DiscountOf(coupons'[u], new))
    BY <1>1, <1>3, <2>4, AppendProperties
  <2>. QED  BY <1>0, <1>3, <2>5, <2>6 DEF RideIds
<1>5. /\ coupons[u] \in Seq(Coupon) /\ OneCampaignCoupon(coupons[u])
      /\ \A i \in DOMAIN coupons[u] : coupons[u][i].usedBy \in RidesOf(u) \cup {NoRide}
      /\ \A i \in DOMAIN coupons[u] : coupons[u][i].usedBy # new
  BY <1>0, <1>3 DEF FaresInv, OneCouponPerRide, RidesOf, NoRide
<1>6. /\ coupons'[u] = Redeem(coupons[u], first, new)
      /\ \A v \in Users : v # u => coupons'[v] = coupons[v]
  BY <1>1, <1>3
<1>7. /\ DOMAIN coupons'[u] = DOMAIN coupons[u]
      /\ OneCampaignCoupon(coupons'[u])
      /\ \A i \in DOMAIN coupons[u] :
           \/ coupons'[u][i] = coupons[u][i]
           \/ coupons[u][i].usedBy = NoRide /\ coupons'[u][i].usedBy = new
      /\ \A i, j \in DOMAIN coupons[u] :
           coupons'[u][i].usedBy = new /\ coupons'[u][j].usedBy = new => i = j
      /\ \A r \in Nat \ {0} :
           r # new => DiscountOf(coupons'[u], r) = DiscountOf(coupons[u], r)
  <2>. HIDE DEF first
  <2>1. PICK cs \in Seq(Coupon) : cs = coupons[u]
    BY <1>5
  <2>2. OneCampaignCoupon(cs) /\ \A i \in DOMAIN cs : cs[i].usedBy # new
    BY <1>5, <2>1
  <2>3. PICK after : after = Redeem(cs, first, new)
    OBVIOUS
  <2>4. /\ DOMAIN Redeem(cs, first, new) = DOMAIN cs
        /\ OneCampaignCoupon(Redeem(cs, first, new))
        /\ \A i \in DOMAIN cs :
             \/ Redeem(cs, first, new)[i] = cs[i]
             \/ cs[i].usedBy = NoRide /\ Redeem(cs, first, new)[i].usedBy = new
        /\ \A i, j \in DOMAIN cs :
             /\ Redeem(cs, first, new)[i].usedBy = new
             /\ Redeem(cs, first, new)[j].usedBy = new
             => i = j
        /\ \A r \in Nat \ {0} :
             r # new => DiscountOf(Redeem(cs, first, new), r) = DiscountOf(cs, r)
    BY <1>2, <2>2, RedeemEffect
  <2>5. /\ DOMAIN after = DOMAIN cs
        /\ OneCampaignCoupon(after)
        /\ \A i \in DOMAIN cs :
             \/ after[i] = cs[i]
             \/ cs[i].usedBy = NoRide /\ after[i].usedBy = new
        /\ \A i, j \in DOMAIN cs :
             after[i].usedBy = new /\ after[j].usedBy = new => i = j
        /\ \A r \in Nat \ {0} :
             r # new => DiscountOf(after, r) = DiscountOf(cs, r)
    BY <2>3, <2>4, Zenon
  <2>. QED  BY <1>6, <2>1, <2>3, <2>5
<1>. HIDE DEF first
<1>8. (\A v \in Users : OneCampaignCoupon(coupons[v]))'
  BY <1>6, <1>7 DEF FaresInv
<1>9. /\ RidesOf(u)' = RidesOf(u) \cup {new}
      /\ \A v \in Users : v # u => RidesOf(v)' = RidesOf(v)
  <2>1. new \notin RideIds
    BY <1>0, <1>3
  <2>. QED  BY <1>4, <2>1 DEF RidesOf
<1>10. OneCouponPerRide'
  <2>1. ASSUME NEW v \in Users, NEW i \in DOMAIN coupons'[v], NEW j \in DOMAIN coupons'[v],
               i # j, coupons'[v][i].usedBy # NoRide
        PROVE  coupons'[v][i].usedBy # coupons'[v][j].usedBy
    <3>1. CASE v # u
      BY <1>6, <2>1, <3>1 DEF FaresInv, OneCouponPerRide
    <3>2. CASE v = u
      BY <1>5, <1>7, <2>1, <3>2 DEF FaresInv, OneCouponPerRide
    <3>. QED  BY <3>1, <3>2
  <2>2. ASSUME NEW v \in Users, NEW i \in DOMAIN coupons'[v]
        PROVE  coupons'[v][i].usedBy \in RidesOf(v)' \cup {NoRide}
    <3>1. CASE v # u
      BY <1>6, <1>9, <2>2, <3>1 DEF FaresInv, OneCouponPerRide
    <3>2. CASE v = u
      BY <1>5, <1>7, <1>9, <2>2, <3>2
    <3>. QED  BY <3>1, <3>2
  <2>. QED  BY <2>1, <2>2 DEF OneCouponPerRide
<1>11. QuoteHonoured'
  <2>1. ASSUME NEW r \in RideIds
        PROVE  FareOf(r)' = quoted'[r]
    <3>1. FareOf(r) = quoted[r] /\ rides'[r] = rides[r] /\ quoted'[r] = quoted[r]
      BY <1>4 DEF FaresInv, QuoteHonoured
    <3>2. rides[r].user \in Users
      <4>1. rides[r] \in Ride
        BY <1>3, ElementOfSeq DEF RideIds
      <4>. QED  BY <4>1 DEF Ride
    <3>3. DiscountOf(coupons'[rides[r].user], r) = DiscountOf(coupons[rides[r].user], r)
      <4>1. r \in Nat \ {0} /\ r # new
        BY <1>0, <1>3
      <4>. QED  BY <1>6, <1>7, <3>2, <4>1
    <3>. QED  BY <3>1, <3>3 DEF FareOf
  <2>2. FareOf(new)' = quoted'[new]
    BY <1>4 DEF FareOf
  <2>3. ASSUME NEW r \in RideIds'
        PROVE  FareOf(r)' = quoted'[r]
    BY <1>4, <2>1, <2>2
  <2>. QED  BY <2>3 DEF QuoteHonoured
<1>. QED  BY <1>8, <1>10, <1>11 DEF FaresInv

\* Every other step leaves coupons and quotes, and of a ride its user and its
\* distance.
LEMMA OthersKeepFares ==
  ASSUME Typed, [Next]_vars, ~\E u \in Users, k \in UserConns : BookCommit(u, k)
  PROVE  SameFares
<1>1. CASE UNCHANGED <<rides, coupons, quoted>>
  BY <1>1 DEF SameFares, RideIds
<1>2. ASSUME NEW u \in Users, NEW k \in UserConns, RateCommit(u, k)
      PROVE  SameFares
  <2>0. /\ userReq[<<u, k>>].ride \in RideIds
        /\ userReq[<<u, k>>].evaluation \in 1 .. 5
    BY <1>2, RequestTypes DEF Typed, UserReqOK, RateCommit
  <2>1. PICK r \in RideIds, e \in 1 .. 5 : rides' = [rides EXCEPT ![r].evaluation = e]
    BY <1>2, <2>0, Zenon DEF RateCommit
  <2>2. ASSUME NEW s \in RideIds
        PROVE  rides'[s].user = rides[s].user /\ rides'[s].distance = rides[s].distance
    <3>1. rides[s] \in Ride
      BY ElementOfSeq DEF Typed, RowsOK, RideIds
    <3>. QED  BY <2>1, <3>1 DEF Ride, RideIds
  <2>. QED  BY <1>2, <2>1, <2>2 DEF SameFares, RateCommit, RideIds
<1>3. ASSUME NEW m \in Matchers, MatchAssign(m)
      PROVE  SameFares
  <2>1. PICK r \in RideIds, c \in ChairId : rides' = [rides EXCEPT ![r].chair = c]
    BY <1>3, RequestTypes DEF Typed, MatchOK, MatchRequest, MatchAssign
  <2>2. ASSUME NEW s \in RideIds
        PROVE  rides'[s].user = rides[s].user /\ rides'[s].distance = rides[s].distance
    <3>1. rides[s] \in Ride
      BY ElementOfSeq DEF Typed, RowsOK, RideIds
    <3>. QED  BY <2>1, <3>1 DEF Ride, RideIds
  <2>. QED  BY <1>3, <2>1, <2>2 DEF SameFares, MatchAssign, RideIds
<1>4. ASSUME NEW u \in Users, UserStep(u)
      PROVE  SameFares
  BY <1>1, <1>2, <1>4 DEF UserStep, RegisterPaymentMethod, AppNotify, LatePayment,
    BookBegin, RateBegin, RateUpdate, RatePay, UserAbort, tables
<1>5. ASSUME NEW c \in Chairs, ChairStep(c)
      PROVE  SameFares
  BY <1>1, <1>5 DEF ChairStep, SetActivity, ChairNotify, Accept, Depart, MoveBegin,
    MoveCommit, ChairAbort, tables
<1>6. ASSUME NEW m \in Matchers, MatchStep(m)
      PROVE  SameFares
  BY <1>1, <1>3, <1>6 DEF MatchStep, MatchRide, MatchChair, MatchNoChair,
    MatchChairError, MatchCheck, MatchAbort, tables
<1>7. CASE Settled \/ UNCHANGED vars
  BY <1>1, <1>7 DEF Settled, vars
<1>. QED  BY <1>4, <1>5, <1>6, <1>7 DEF Next

LEMMA InitFares == Init => FaresInv
<1>. SUFFICES ASSUME Init PROVE FaresInv
  OBVIOUS
<1>1. \A u \in Users : /\ OneCampaignCoupon(coupons[u])
                       /\ \A i \in DOMAIN coupons[u] : coupons[u][i].usedBy = NoRide
  BY DispatchAssumption DEF Init
<1>2. OneCouponPerRide
  BY <1>1 DEF OneCouponPerRide
<1>3. QuoteHonoured
  BY DEF Init, QuoteHonoured, RideIds
<1>. QED  BY <1>1, <1>2, <1>3 DEF FaresInv

LEMMA NextFares ==
  ASSUME Typed, FaresInv, [Next]_vars
  PROVE  FaresInv'
  BY BookingKeepsFares, OthersKeepFares, FaresKept

THEOREM FaresHold == Spec => []FaresInv
<1>. QED  BY InitFares, NextFares, TypesHold, PTL DEF Spec

\* However a user's bookings overlap, a coupon pays for one ride and a ride
\* uses one coupon: the locking read of appPostRides finds a coupon only as
\* long as nobody has used it.
THEOREM CouponsCorrect == Spec => []OneCouponPerRide
<1>1. FaresInv => OneCouponPerRide
  BY DEF FaresInv
<1>. QED  BY <1>1, FaresHold, PTL

\* The fare computed for a ride remains the one answered when it was requested:
\* no later booking takes its coupon or gives it another.
THEOREM QuotesCorrect == Spec => []QuoteHonoured
<1>1. FaresInv => QuoteHonoured
  BY DEF FaresInv
<1>. QED  BY <1>1, FaresHold, PTL

-----------------------------------------------------------------------------
(* Estimates.                                                              *)

CampaignUsed(cs) ==
  \A i \in DOMAIN cs : cs[i].code = "CP_NEW2024" => cs[i].usedBy # NoRide

\* The first ride takes the campaign coupon, and only a request whose snapshot
\* holds an earlier ride passes it over.
EstimateInv ==
  /\ \A u \in Users : RidesOf(u) # {} => CampaignUsed(coupons[u])
  /\ \A u \in Users, k \in UserConns :
       LET req == userReq[<<u, k>>]
       IN  req.op = "book" /\ ~req.first => RidesOf(u) # {}

\* A request that may pass over the campaign coupon only when it is used takes
\* the coupon an estimate takes, and the campaign coupon is used afterwards.
LEMMA RedeemAsEstimated ==
  ASSUME NEW cs \in Seq(Coupon), OneCampaignCoupon(cs), NEW first \in BOOLEAN,
         NEW ride \in Nat \ {0}, \A i \in DOMAIN cs : cs[i].usedBy # ride,
         ~first => CampaignUsed(cs)
  PROVE  /\ DiscountOf(Redeem(cs, first, ride), ride) = EstimatedDiscount(cs)
         /\ CampaignUsed(Redeem(cs, first, ride))
<1>. DEFINE campaign == {i \in Unused(cs) : cs[i].code = "CP_NEW2024"}
            chosen == IF campaign # {} THEN campaign ELSE Oldest(Unused(cs))
            new == Redeem(cs, first, ride)
<1>1. \A i \in DOMAIN cs : cs[i] \in Coupon
  BY ElementOfSeq
<1>2. Redeemable(cs, first) = chosen
  <2>1. ~first => campaign = {}
    BY DEF CampaignUsed, Unused
  <2>. QED  BY <2>1 DEF Redeemable
<1>3. chosen \subseteq DOMAIN cs
  BY DEF Oldest, Unused
<1>4. /\ DOMAIN new = DOMAIN cs
      /\ \A i \in DOMAIN cs :
           new[i] = IF i \in chosen THEN [cs[i] EXCEPT !.usedBy = ride] ELSE cs[i]
  BY <1>2 DEF Redeem
<1>5. ASSUME NEW i \in DOMAIN cs
      PROVE  /\ new[i].usedBy = ride <=> i \in chosen
             /\ i \in chosen => new[i].discount = cs[i].discount
             /\ new[i].code = cs[i].code
             /\ new[i].usedBy \in {cs[i].usedBy, ride}
  <2>1. PICK row \in Coupon : row = cs[i]
    BY <1>1
  <2>2. /\ [row EXCEPT !.usedBy = ride].usedBy = ride
        /\ [row EXCEPT !.usedBy = ride].discount = row.discount
        /\ [row EXCEPT !.usedBy = ride].code = row.code
    BY DEF Coupon
  <2>3. new[i] = IF i \in chosen THEN [row EXCEPT !.usedBy = ride] ELSE row
    BY <1>4, <2>1
  <2>. HIDE DEF chosen, new
  <2>. QED  BY <2>1, <2>2, <2>3
<1>6. CampaignUsed(new)
  <2>1. ASSUME NEW i \in DOMAIN cs, cs[i].code = "CP_NEW2024", cs[i].usedBy = NoRide
        PROVE  i \in chosen
    BY <2>1 DEF Unused
  <2>. HIDE DEF chosen, new
  <2>. QED  BY <1>4, <1>5, <2>1 DEF CampaignUsed, NoRide
<1>7. DiscountOf(new, ride) = EstimatedDiscount(cs)
  <2>1. EstimatedDiscount(cs)
          = IF chosen = {} THEN 0 ELSE cs[CHOOSE i \in chosen : TRUE].discount
    BY DEF EstimatedDiscount
  <2>. HIDE DEF chosen, new
  <2>. DEFINE rows == {i \in DOMAIN new : new[i].usedBy = ride}
  <2>2. rows = chosen
    BY <1>3, <1>4, <1>5
  <2>3. DiscountOf(new, ride)
          = IF chosen = {} THEN 0 ELSE new[CHOOSE i \in chosen : TRUE].discount
    <3>1. DiscountOf(new, ride)
            = IF rows = {} THEN 0 ELSE new[CHOOSE i \in rows : TRUE].discount
      BY DEF DiscountOf
    <3>. HIDE DEF rows
    <3>. QED  BY <2>2, <3>1, Zenon
  <2>4. CASE chosen = {}
    BY <2>1, <2>3, <2>4
  <2>5. CASE chosen # {}
    <3>1. (CHOOSE i \in chosen : TRUE) \in chosen
      BY <2>5
    <3>2. new[CHOOSE i \in chosen : TRUE].discount = cs[CHOOSE i \in chosen : TRUE].discount
      BY <1>3, <1>5, <3>1
    <3>. QED  BY <2>1, <2>3, <2>5, <3>2
  <2>. QED  BY <2>4, <2>5
<1>. QED  BY <1>6, <1>7

\* What a booking writes.
LEMMA BookingEffect ==
  ASSUME Typed, FaresInv, EstimateInv, NEW u \in Users, NEW k \in UserConns,
         BookCommit(u, k)
  PROVE  \E new \in Nat \ {0}, first \in BOOLEAN, d \in Nat :
           /\ new \notin RideIds /\ RideIds' = RideIds \cup {new}
           /\ \A r \in RideIds : rides'[r] = rides[r]
           /\ rides'[new].user = u /\ rides'[new].distance = d
           /\ coupons' = [coupons EXCEPT ![u] = Redeem(coupons[u], first, new)]
           /\ quoted'[new] = DiscountedFare(d, DiscountOf(coupons'[u], new))
           /\ \A i \in DOMAIN coupons[u] : coupons[u][i].usedBy # new
           /\ ~first => CampaignUsed(coupons[u])
<1>0. PICK new \in Nat \ {0} : new = Len(rides) + 1
  BY DEF Typed, RowsOK
<1>1. PICK first \in BOOLEAN : first = userReq[<<u, k>>].first
  BY RequestTypes DEF Typed, UserReqOK, BookCommit
<1>2. PICK d \in Nat :
        /\ rides' = Append(rides, [user |-> u, chair |-> NoChair,
                                   distance |-> d, evaluation |-> 0])
        /\ coupons' = [coupons EXCEPT ![u] = Redeem(@, first, new)]
        /\ quoted' = Append(quoted,
                       DiscountedFare(d, DiscountOf(coupons'[u], new)))
  BY <1>0, <1>1, DispatchAssumption DEF BookCommit
<1>3. /\ rides \in Seq(Ride) /\ quoted \in Seq(Nat)
      /\ Len(quoted) = Len(rides) /\ Len(rides) \in Nat
      /\ coupons \in [Users -> Seq(Coupon)]
  BY DEF Typed, RowsOK, OthersOK
<1>4. [user |-> u, chair |-> NoChair, distance |-> d, evaluation |-> 0] \in Ride
  BY DEF Ride
<1>5. DiscountedFare(d, DiscountOf(coupons'[u], new)) \in Nat
  <2>1. coupons'[u] \in Seq(Coupon)
    BY <1>2, <1>3, RedeemType
  <2>. QED  BY <2>1, DiscountType, FareType
<1>6. /\ DOMAIN rides = 1 .. Len(rides) /\ DOMAIN rides' = 1 .. Len(rides) + 1
      /\ \A r \in 1 .. Len(rides) : rides'[r] = rides[r]
      /\ rides'[Len(rides) + 1] = [user |-> u, chair |-> NoChair,
                                   distance |-> d, evaluation |-> 0]
  BY <1>2, <1>3, <1>4, AppendProperties
<1>7. quoted'[Len(quoted) + 1] = DiscountedFare(d, DiscountOf(coupons'[u], new))
  BY <1>2, <1>3, <1>5, AppendProperties
<1>8. /\ new \notin RideIds /\ RideIds' = RideIds \cup {new}
      /\ \A r \in RideIds : rides'[r] = rides[r]
      /\ rides'[new].user = u /\ rides'[new].distance = d
      /\ quoted'[new] = DiscountedFare(d, DiscountOf(coupons'[u], new))
  BY <1>0, <1>3, <1>6, <1>7 DEF RideIds
<1>9. \A i \in DOMAIN coupons[u] : coupons[u][i].usedBy # new
  BY <1>8 DEF FaresInv, OneCouponPerRide, RidesOf, NoRide
<1>10. ~first => CampaignUsed(coupons[u])
  BY <1>1 DEF EstimateInv, BookCommit
<1>. QED  BY <1>2, <1>8, <1>9, <1>10

LEMMA BookingAsEstimated ==
  ASSUME Typed, FaresInv, EstimateInv, NEW u \in Users, NEW k \in UserConns,
         BookCommit(u, k)
  PROVE  /\ \A r \in RideIds' \ RideIds :
              quoted'[r] = EstimatedFare(rides'[r].user, rides'[r].distance)
         /\ (\A v \in Users : RidesOf(v) # {} => CampaignUsed(coupons[v]))'
<1>1. PICK new \in Nat \ {0}, first \in BOOLEAN, d \in Nat :
        /\ new \notin RideIds /\ RideIds' = RideIds \cup {new}
        /\ \A r \in RideIds : rides'[r] = rides[r]
        /\ rides'[new].user = u /\ rides'[new].distance = d
        /\ coupons' = [coupons EXCEPT ![u] = Redeem(coupons[u], first, new)]
        /\ quoted'[new] = DiscountedFare(d, DiscountOf(coupons'[u], new))
        /\ \A i \in DOMAIN coupons[u] : coupons[u][i].usedBy # new
        /\ ~first => CampaignUsed(coupons[u])
  BY BookingEffect
<1>2. coupons \in [Users -> Seq(Coupon)]
  BY DEF Typed, OthersOK
<1>3. /\ coupons'[u] = Redeem(coupons[u], first, new)
      /\ \A v \in Users : v # u => coupons'[v] = coupons[v]
  BY <1>1, <1>2
<1>4. /\ DiscountOf(Redeem(coupons[u], first, new), new) = EstimatedDiscount(coupons[u])
      /\ CampaignUsed(Redeem(coupons[u], first, new))
  <2>1. PICK cs \in Seq(Coupon) : cs = coupons[u]
    BY <1>2
  <2>2. /\ OneCampaignCoupon(cs)
        /\ \A i \in DOMAIN cs : cs[i].usedBy # new
        /\ ~first => CampaignUsed(cs)
    BY <1>1, <2>1 DEF FaresInv
  <2>3. /\ DiscountOf(Redeem(cs, first, new), new) = EstimatedDiscount(cs)
        /\ CampaignUsed(Redeem(cs, first, new))
    BY <2>2, RedeemAsEstimated
  <2>. QED  BY <2>1, <2>3
<1>5. quoted'[new] = EstimatedFare(u, d)
  BY <1>1, <1>3, <1>4 DEF EstimatedFare
<1>6. ASSUME NEW v \in Users, RidesOf(v)' # {}
      PROVE  CampaignUsed(coupons[v])'
  <2>1. CASE v = u
    BY <1>3, <1>4, <2>1 DEF CampaignUsed
  <2>2. CASE v # u
    <3>1. RidesOf(v)' = RidesOf(v)
      BY <1>1, <2>2 DEF RidesOf
    <3>. QED  BY <1>3, <1>6, <2>2, <3>1 DEF EstimateInv, CampaignUsed
  <2>. QED  BY <2>1, <2>2
<1>7. \A r \in RideIds' \ RideIds : r = new
  BY <1>1
<1>. QED  BY <1>1, <1>5, <1>6, <1>7

\* Only BookBegin starts a request for a ride.
LEMMA OthersBegin ==
  ASSUME Typed, [Next]_vars, NEW u \in Users, NEW k \in UserConns,
         ~BookBegin(u, k), userReq'[<<u, k>>] # userReq[<<u, k>>]
  PROVE  userReq'[<<u, k>>].op # "book"
<1>1. UNCHANGED userReq \/ \E v \in Users : UserStep(v)
  <2>1. ASSUME NEW c \in Chairs, ChairStep(c)
        PROVE  UNCHANGED userReq
    BY <2>1 DEF ChairStep, SetActivity, ChairNotify, Accept, Depart, MoveBegin,
      MoveCommit, ChairAbort
  <2>2. ASSUME NEW m \in Matchers, MatchStep(m)
        PROVE  UNCHANGED userReq
    BY <2>2 DEF MatchStep, MatchRide, MatchChair, MatchNoChair, MatchChairError,
      MatchCheck, MatchAssign, MatchAbort
  <2>3. CASE Settled \/ UNCHANGED vars
    BY <2>3 DEF Settled, vars
  <2>. QED  BY <2>1, <2>2, <2>3 DEF Next
<1>2. PICK v \in Users : UserStep(v)
  BY <1>1
<1>3. PICK j \in UserConns :
        \/ BookBegin(v, j) \/ BookCommit(v, j)
        \/ \E r \in RideIds, e \in Evaluations : RateBegin(v, j, r, e)
        \/ RateUpdate(v, j) \/ RatePay(v, j) \/ RateCommit(v, j)
        \/ UserAbort(v, j)
  BY <1>2 DEF UserStep, RegisterPaymentMethod, AppNotify, LatePayment, tables
<1>. DEFINE req == userReq[<<v, j>>]
<1>4. PICK e : /\ userReq' = [userReq EXCEPT ![<<v, j>>] = e]
               /\ BookBegin(v, j) \/ e.op # "book"
  <2>1. CASE BookBegin(v, j)
    BY <2>1, Zenon DEF BookBegin
  <2>2. CASE \E r \in RideIds, e \in Evaluations : RateBegin(v, j, r, e)
    <3>1. PICK r \in RideIds, mark \in Evaluations : RateBegin(v, j, r, mark)
      BY <2>2
    <3>2. PICK e : e = [op |-> "rate", stage |-> "read", ride |-> r,
                        evaluation |-> mark, rides |-> Cardinality(RidesOf(v)),
                        token |-> v \in tokens]
      OBVIOUS
    <3>3. e.op = "rate" /\ userReq' = [userReq EXCEPT ![<<v, j>>] = e]
      BY <3>1, <3>2, Zenon DEF RateBegin
    <3>. QED  BY <3>3
  <2>3. CASE BookCommit(v, j) \/ UserAbort(v, j)
    BY <2>3, RequestTypes DEF BookCommit, UserAbort
  <2>4. CASE RateUpdate(v, j) \/ RatePay(v, j) \/ RateCommit(v, j)
    <3>1. req \in UserRequest /\ req.op = "rate"
      BY <2>4 DEF RateUpdate, RatePay, RateCommit, Typed, UserReqOK
    <3>2. \A x : [req EXCEPT !.stage = x].op = "rate"
      BY <3>1, RequestTypes
    <3>3. \E e \in {Idle, [req EXCEPT !.stage = "locked"], [req EXCEPT !.stage = "paid"]} :
            userReq' = [userReq EXCEPT ![<<v, j>>] = e]
      BY <2>4, Zenon DEF RateUpdate, RatePay, RateCommit
    <3>. QED  BY <3>2, <3>3, RequestTypes
  <2>. QED  BY <1>3, <2>1, <2>2, <2>3, <2>4
<1>5. v = u /\ j = k /\ userReq'[<<u, k>>] = e
  BY <1>4 DEF Typed, UserReqOK
<1>. QED  BY <1>4, <1>5

\* Every step but that of a booking leaves the rides of a user, and lets only a
\* request begin that has seen what it remembers.
LEMMA OthersRemember ==
  ASSUME Typed, EstimateInv, [Next]_vars, SameFares
  PROVE  EstimateInv'
<1>1. \A u \in Users : RidesOf(u)' = RidesOf(u)
  BY DEF RidesOf, SameFares
<1>2. (\A u \in Users : RidesOf(u) # {} => CampaignUsed(coupons[u]))'
  BY <1>1 DEF EstimateInv, SameFares, CampaignUsed
<1>3. ASSUME NEW u \in Users, NEW k \in UserConns,
             userReq'[<<u, k>>].op = "book", ~userReq'[<<u, k>>].first
      PROVE  RidesOf(u) # {}
  <2>1. CASE userReq'[<<u, k>>] = userReq[<<u, k>>]
    BY <1>3, <2>1 DEF EstimateInv
  <2>2. CASE BookBegin(u, k)
    BY <1>3, <2>2 DEF BookBegin, Typed, UserReqOK
  <2>3. CASE ~BookBegin(u, k) /\ userReq'[<<u, k>>] # userReq[<<u, k>>]
    BY <1>3, <2>3, OthersBegin
  <2>. QED  BY <2>1, <2>2, <2>3
<1>. QED  BY <1>1, <1>2, <1>3 DEF EstimateInv

LEMMA NextEstimates ==
  ASSUME Typed, FaresInv, EstimateInv, [Next]_vars
  PROVE  /\ EstimateInv'
         /\ [\A r \in RideIds' \ RideIds :
              quoted'[r] = EstimatedFare(rides'[r].user, rides'[r].distance)]_vars
<1>1. ASSUME NEW u \in Users, NEW k \in UserConns, BookCommit(u, k)
      PROVE  EstimateInv'
  <2>1. \A v \in Users : RidesOf(v) \subseteq RidesOf(v)'
    <3>1. RideIds \subseteq RideIds' /\ \A r \in RideIds : rides'[r] = rides[r]
      BY <1>1, BookingEffect
    <3>. QED  BY <3>1 DEF RidesOf
  <2>2. userReq' = [userReq EXCEPT ![<<u, k>>] = Idle]
    BY <1>1 DEF BookCommit
  <2>3. ASSUME NEW v \in Users, NEW j \in UserConns,
               userReq'[<<v, j>>].op = "book", ~userReq'[<<v, j>>].first
        PROVE  RidesOf(v) # {}
    <3>1. userReq'[<<v, j>>] = userReq[<<v, j>>]
      BY <2>2, <2>3, RequestTypes DEF Typed, UserReqOK
    <3>. QED  BY <2>3, <3>1 DEF EstimateInv
  <2>4. (\A v \in Users : RidesOf(v) # {} => CampaignUsed(coupons[v]))'
    BY <1>1, BookingAsEstimated
  <2>. QED  BY <2>1, <2>3, <2>4 DEF EstimateInv
<1>2. CASE ~\E u \in Users, k \in UserConns : BookCommit(u, k)
  <2>1. SameFares
    BY <1>2, OthersKeepFares
  <2>. QED  BY <2>1, OthersRemember DEF SameFares
<1>. QED  BY <1>1, <1>2, BookingAsEstimated

LEMMA InitEstimates == Init => EstimateInv
<1>. SUFFICES ASSUME Init PROVE EstimateInv
  OBVIOUS
<1>. QED  BY RequestTypes DEF Init, EstimateInv, RidesOf, RideIds

\* Whatever a user's requests overlap with, a ride is requested at the fare an
\* estimate gives at that moment.
THEOREM EstimatesCorrect == Spec => EstimateHonoured
<1>1. Typed /\ FaresInv /\ EstimateInv /\ [Next]_vars
        => [\A r \in RideIds' \ RideIds :
              quoted'[r] = EstimatedFare(rides'[r].user, rides'[r].distance)]_vars
  BY NextEstimates
<1>2. Typed /\ FaresInv /\ EstimateInv /\ [Next]_vars => EstimateInv'
  BY NextEstimates
<1>. QED  BY <1>1, <1>2, InitEstimates, FaresHold, TypesHold, PTL
            DEF Spec, EstimateHonoured

-----------------------------------------------------------------------------
(* The order of a ride's states, and evaluations that overlap.             *)

\* The ride has been in the state that leads to this one.
Preceded(r, status) ==
  \E j \in 1 .. Len(log[r]) : Follows(status, log[r][j].status)

\* The evaluation on this connection holds the row lock of its ride.
Holds(q) == userReq[q].op = "rate" /\ userReq[q].stage \in {"locked", "paid"}

HasRows == \A r \in RideIds : 1 <= Len(log[r])

\* What a chair, and an evaluation, is about to write may follow.
MovesFollow ==
  \A q \in Chairs \X ChairConns :
    chairReq[q].op = "move" => /\ chairReq[q].status # "COMPLETED"
                               /\ Preceded(chairReq[q].ride, chairReq[q].status)

RatesFollow ==
  \A q \in Users \X UserConns :
    userReq[q].op = "rate" => Preceded(userReq[q].ride, "COMPLETED")

\* One evaluation at a time is past its UPDATE, and its mark is a new one.
OneEvaluator ==
  \A p, q \in Users \X UserConns :
    Holds(p) /\ Holds(q) /\ userReq[p].ride = userReq[q].ride => p = q

MarksDiffer ==
  \A q \in Users \X UserConns :
    Holds(q) => rides[userReq[q].ride].evaluation # userReq[q].evaluation

ServedInv == /\ HasRows /\ NoStateSkipped
             /\ MovesFollow /\ RatesFollow
             /\ OneEvaluator /\ MarksDiffer

\* What a step may do to the rows of a ride.
RowsKept(r) ==
  /\ Len(log'[r]) = Len(log[r])
  /\ \A i \in 1 .. Len(log[r]) : log'[r][i].status = log[r][i].status

RowAdded(r, status) ==
  /\ Len(log'[r]) = Len(log[r]) + 1
  /\ \A i \in 1 .. Len(log[r]) : log'[r][i].status = log[r][i].status
  /\ log'[r][Len(log[r]) + 1].status = status

LEMMA FollowsInFlow ==
  /\ Follows("ENROUTE", "MATCHING") /\ Follows("PICKUP", "ENROUTE")
  /\ Follows("CARRYING", "PICKUP") /\ Follows("ARRIVED", "CARRYING")
  /\ Follows("COMPLETED", "ARRIVED")
<1>1. ASSUME NEW k \in 1 .. 5 PROVE Follows(Flow[k + 1], Flow[k])
  BY DEF Follows, FullLog
<1>2. /\ Follows(Flow[1 + 1], Flow[1]) /\ Follows(Flow[2 + 1], Flow[2])
      /\ Follows(Flow[3 + 1], Flow[3]) /\ Follows(Flow[4 + 1], Flow[4])
      /\ Follows(Flow[5 + 1], Flow[5])
  BY <1>1
<1>3. /\ Flow[1] = "MATCHING" /\ Flow[1 + 1] = "ENROUTE" /\ Flow[2 + 1] = "PICKUP"
      /\ Flow[2] = "ENROUTE" /\ Flow[3] = "PICKUP" /\ Flow[4] = "CARRYING"
      /\ Flow[3 + 1] = "CARRYING" /\ Flow[4 + 1] = "ARRIVED"
      /\ Flow[5] = "ARRIVED" /\ Flow[5 + 1] = "COMPLETED"
  BY DEF Flow
<1>. QED  BY <1>2, <1>3

LEMMA LogTyped ==
  ASSUME Typed
  PROVE  /\ log \in Seq(Seq(StatusRow)) /\ DOMAIN log = RideIds
         /\ \A r \in RideIds : /\ log[r] \in Seq(StatusRow) /\ Len(log[r]) \in Nat
                               /\ DOMAIN log[r] = 1 .. Len(log[r])
<1>1. log \in Seq(Seq(StatusRow)) /\ DOMAIN log = RideIds
  BY DEF Typed, RowsOK, RideIds
<1>. QED  BY <1>1, ElementOfSeq

\* A write of a row, and of a flag, in these terms.
LEMMA AddsRow ==
  ASSUME Typed, NEW r \in RideIds, NEW status \in Status, AddStatus(r, status)
  PROVE  RowAdded(r, status) /\ \A s \in RideIds : s # r => RowsKept(s)
<1>1. log \in Seq(Seq(StatusRow)) /\ DOMAIN log = RideIds
  BY LogTyped
<1>2. /\ \A s \in DOMAIN log : s # r => log'[s] = log[s]
      /\ Len(log'[r]) = Len(log[r]) + 1
      /\ \A i \in 1 .. Len(log[r]) : log'[r][i] = log[r][i]
      /\ log'[r][Len(log[r]) + 1] = NewRow(status)
  BY <1>1, AddStatusEffect
<1>. QED  BY <1>1, <1>2 DEF RowAdded, RowsKept, NewRow

LEMMA SetsFlag ==
  ASSUME Typed, NEW r \in RideIds, NEW i \in DOMAIN log[r], NEW flag \in {"app", "chair"},
         log' = [log EXCEPT ![r][i][flag] = TRUE]
  PROVE  \A s \in RideIds : RowsKept(s)
<1>1. log \in Seq(Seq(StatusRow)) /\ DOMAIN log = RideIds
  BY LogTyped
<1>2. /\ \A s \in DOMAIN log : s # r => log'[s] = log[s]
      /\ Len(log'[r]) = Len(log[r])
      /\ \A j \in DOMAIN log[r] :
           log'[r][j] = IF j = i THEN [log[r][j] EXCEPT ![flag] = TRUE]
                                 ELSE log[r][j]
  BY <1>1, FlagEffect
<1>3. DOMAIN log[r] = 1 .. Len(log[r])
  BY LogTyped
<1>4. ASSUME NEW j \in 1 .. Len(log[r])
      PROVE  log'[r][j].status = log[r][j].status
  <2>1. PICK row \in StatusRow : row = log[r][j]
    BY <1>3, LogTyped, ElementOfSeq
  <2>2. [row EXCEPT ![flag] = TRUE].status = row.status
    BY DEF StatusRow
  <2>. QED  BY <1>2, <1>3, <2>1, <2>2
<1>. QED  BY <1>1, <1>2, <1>4 DEF RowsKept

\* What a step does to the rows of the rides there are: nothing but flags, or
\* one new row that may follow.
Served(r) ==
  \/ RowsKept(r)
  \/ \E status \in Status :
       /\ RowAdded(r, status) /\ Preceded(r, status)
       /\ status = "COMPLETED" =>
            \E q \in Users \X UserConns :
              RateCommit(q[1], q[2]) /\ userReq[q].ride = r

LEMMA Unserved ==
  ASSUME UNCHANGED <<rides, log>>
  PROVE  RideIds' = RideIds /\ \A r \in RideIds : Served(r)
  BY DEF RideIds, Served, RowsKept

LEMMA FlagServed ==
  ASSUME Typed, UNCHANGED rides, NEW flag \in {"app", "chair"},
         \E r \in RideIds : \E i \in DOMAIN log[r] :
           log' = [log EXCEPT ![r][i][flag] = TRUE]
  PROVE  RideIds' = RideIds /\ \A r \in RideIds : Served(r)
<1>1. PICK r \in RideIds : \E i \in DOMAIN log[r] :
        log' = [log EXCEPT ![r][i][flag] = TRUE]
  OBVIOUS
<1>2. PICK i \in DOMAIN log[r] : log' = [log EXCEPT ![r][i][flag] = TRUE]
  BY <1>1
<1>3. \A s \in RideIds : RowsKept(s)
  BY <1>2, SetsFlag
<1>. QED  BY <1>3 DEF Served, RideIds

LEMMA RowServed ==
  ASSUME Typed, NEW r \in RideIds, NEW status \in Status \ {"COMPLETED"},
         AddStatus(r, status), Preceded(r, status)
  PROVE  \A s \in RideIds : Served(s)
  BY AddsRow DEF Served

LEMMA UserServes ==
  ASSUME Typed, ServedInv, NEW u \in Users, UserStep(u)
  PROVE  /\ RideIds \subseteq RideIds'
         /\ \A r \in RideIds : Served(r)
         /\ \A r \in RideIds' \ RideIds : log'[r] = <<NewRow("MATCHING")>>
<1>1. CASE UNCHANGED <<rides, log>>
  BY <1>1, Unserved
<1>2. CASE AppNotify(u)
  <2>1. UNCHANGED rides
    BY <1>2 DEF AppNotify
  <2>2. \E r \in RideIds : \E i \in DOMAIN log[r] :
          log' = [log EXCEPT ![r][i]["app"] = TRUE]
    BY <1>2 DEF AppNotify, LatestOfUser, RidesOf, OldestUnsent
  <2>. QED  BY <2>1, <2>2, FlagServed
<1>3. ASSUME NEW k \in UserConns, BookCommit(u, k)
      PROVE  /\ RideIds \subseteq RideIds'
             /\ \A r \in RideIds : Served(r)
             /\ \A r \in RideIds' \ RideIds : log'[r] = <<NewRow("MATCHING")>>
  <2>1. <<NewRow("MATCHING")>> \in Seq(StatusRow)
    BY DEF NewRow, StatusRow, Status
  <2>2. log' = Append(log, <<NewRow("MATCHING")>>)
    BY <1>3 DEF BookCommit
  <2>3. /\ \A s \in 1 .. Len(log) : log'[s] = log[s]
        /\ log'[Len(log) + 1] = <<NewRow("MATCHING")>>
    BY <2>1, <2>2, LogTyped, AppendProperties
  <2>4. RideIds' = 1 .. Len(rides) + 1 /\ RideIds = 1 .. Len(rides)
        /\ Len(rides) = Len(log) /\ Len(rides) \in Nat
    <3>1. PICK d \in Distances :
            rides' = Append(rides, [user |-> u, chair |-> NoChair,
                                    distance |-> d, evaluation |-> 0])
      BY <1>3 DEF BookCommit
    <3>2. [user |-> u, chair |-> NoChair, distance |-> d, evaluation |-> 0] \in Ride
      BY DispatchAssumption DEF Ride
    <3>. QED  BY <3>1, <3>2, AppendProperties DEF Typed, RowsOK, RideIds
  <2>5. \A r \in RideIds : RowsKept(r)
    BY <2>3, <2>4 DEF RowsKept
  <2>. QED  BY <2>3, <2>4, <2>5 DEF Served
<1>4. ASSUME NEW k \in UserConns, RateCommit(u, k)
      PROVE  RideIds' = RideIds /\ \A r \in RideIds : Served(r)
  <2>1. PICK q \in Users \X UserConns : q = <<u, k>>
    OBVIOUS
  <2>2. PICK r \in RideIds : r = userReq[q].ride
    BY <1>4, <2>1 DEF RateCommit, Typed, UserReqOK
  <2>3. AddStatus(r, "COMPLETED") /\ Preceded(r, "COMPLETED") /\ RideIds' = RideIds
    BY <1>4, <2>1, <2>2 DEF RateCommit, ServedInv, RatesFollow, RideIds
  <2>4. RowAdded(r, "COMPLETED") /\ \A s \in RideIds : s # r => RowsKept(s)
    BY <2>3, AddsRow DEF Status
  <2>5. Served(r)
    BY <1>4, <2>1, <2>2, <2>3, <2>4 DEF Served, Status
  <2>. QED  BY <2>3, <2>4, <2>5 DEF Served
<1>. QED
  BY <1>1, <1>2, <1>3, <1>4 DEF UserStep, RegisterPaymentMethod, LatePayment,
    BookBegin, RateBegin, RateUpdate, RatePay, UserAbort, tables

LEMMA ChairServes ==
  ASSUME Typed, ServedInv, NEW c \in Chairs, ChairStep(c)
  PROVE  RideIds' = RideIds /\ \A r \in RideIds : Served(r)
<1>1. CASE UNCHANGED <<rides, log>>
  BY <1>1, Unserved
<1>2. CASE ChairNotify(c)
  <2>1. UNCHANGED rides
    BY <1>2 DEF ChairNotify
  <2>2. \E r \in RideIds : \E i \in DOMAIN log[r] :
          log' = [log EXCEPT ![r][i]["chair"] = TRUE]
    BY <1>2 DEF ChairNotify, LatestOfChair, RidesOfChair, OldestUnsent
  <2>. QED  BY <2>1, <2>2, FlagServed
<1>3. ASSUME NEW k \in ChairConns, NEW r \in RideIds, Accept(c, k, r)
      PROVE  RideIds' = RideIds /\ \A s \in RideIds : Served(s)
  <2>1. 1 \in 1 .. Len(log[r]) /\ log[r][1].status = "MATCHING"
    BY LogTyped DEF ServedInv, HasRows, NoStateSkipped
  <2>2. Preceded(r, "ENROUTE")
    BY <2>1, FollowsInFlow DEF Preceded
  <2>. QED  BY <1>3, <2>2, RowServed DEF Accept, RideIds, Status
<1>4. ASSUME NEW k \in ChairConns, NEW r \in RideIds, Depart(c, k, r)
      PROVE  RideIds' = RideIds /\ \A s \in RideIds : Served(s)
  <2>1. Len(log[r]) \in 1 .. Len(log[r]) /\ log[r][Len(log[r])].status = "PICKUP"
    BY <1>4, LogTyped DEF ServedInv, HasRows, Depart, LatestStatus
  <2>2. Preceded(r, "CARRYING")
    BY <2>1, FollowsInFlow DEF Preceded
  <2>. QED  BY <1>4, <2>2, RowServed DEF Depart, RideIds, Status
<1>5. ASSUME NEW k \in ChairConns, MoveCommit(c, k)
      PROVE  RideIds' = RideIds /\ \A s \in RideIds : Served(s)
  <2>1. PICK q \in Chairs \X ChairConns : q = <<c, k>>
    OBVIOUS
  <2>2. PICK r \in RideIds, status \in Status \ {"COMPLETED"} :
          r = chairReq[q].ride /\ status = chairReq[q].status
    BY <1>5, <2>1, RequestTypes DEF MoveCommit, ServedInv, MovesFollow, Typed, ChairReqOK
  <2>3. AddStatus(r, status) /\ Preceded(r, status) /\ RideIds' = RideIds
    BY <1>5, <2>1, <2>2 DEF MoveCommit, ServedInv, MovesFollow, RideIds
  <2>. QED  BY <2>3, RowServed
<1>. QED
  BY <1>1, <1>2, <1>3, <1>4, <1>5 DEF ChairStep, SetActivity, MoveBegin,
    ChairAbort, tables

LEMMA NextServes ==
  ASSUME Typed, ServedInv, [Next]_vars
  PROVE  /\ RideIds \subseteq RideIds'
         /\ \A r \in RideIds : Served(r)
         /\ \A r \in RideIds' \ RideIds : log'[r] = <<NewRow("MATCHING")>>
<1>1. ASSUME NEW m \in Matchers, MatchStep(m)
      PROVE  RideIds' = RideIds /\ \A r \in RideIds : Served(r)
  <2>1. UNCHANGED log /\ RideIds' = RideIds
    BY <1>1 DEF MatchStep, MatchRide, MatchChair, MatchNoChair, MatchChairError,
      MatchCheck, MatchAssign, MatchAbort, tables, RideIds
  <2>. QED  BY <2>1 DEF Served, RowsKept
<1>2. CASE Settled \/ UNCHANGED vars
  BY <1>2, Unserved DEF Settled, vars
<1>. QED  BY <1>1, <1>2, UserServes, ChairServes DEF Next

\* Rows that may follow keep the order of the states, and what has preceded
\* a state stays there.
LEMMA OrderKept ==
  ASSUME Typed, HasRows, NoStateSkipped, RideIds \subseteq RideIds',
         \A r \in RideIds : Served(r),
         \A r \in RideIds' \ RideIds : log'[r] = <<NewRow("MATCHING")>>
  PROVE  /\ HasRows' /\ NoStateSkipped'
         /\ \A r \in RideIds : \A status : Preceded(r, status) => Preceded(r, status)'
<1>1. ASSUME NEW r \in RideIds
      PROVE  /\ 1 <= Len(log[r])' /\ log'[r][1].status = "MATCHING"
             /\ \A i \in 1 .. Len(log[r]) : log'[r][i].status = log[r][i].status
             /\ Len(log[r]) <= Len(log'[r])
             /\ \A i \in 2 .. Len(log'[r]) :
                  \E j \in 1 .. i - 1 : Follows(log'[r][i].status, log'[r][j].status)
  <2>0. 1 <= Len(log[r]) /\ Len(log[r]) \in Nat /\ log[r][1].status = "MATCHING"
        /\ \A i \in 2 .. Len(log[r]) :
             \E j \in 1 .. i - 1 : Follows(log[r][i].status, log[r][j].status)
    BY LogTyped DEF HasRows, NoStateSkipped
  <2>1. ASSUME \A i \in 1 .. Len(log[r]) : log'[r][i].status = log[r][i].status,
               NEW i \in 2 .. Len(log[r])
        PROVE  \E j \in 1 .. i - 1 : Follows(log'[r][i].status, log'[r][j].status)
    <3>1. PICK j \in 1 .. i - 1 : Follows(log[r][i].status, log[r][j].status)
      BY <2>0
    <3>2. i \in 1 .. Len(log[r]) /\ j \in 1 .. Len(log[r])
      BY <2>0
    <3>. QED  BY <2>1, <3>1, <3>2
  <2>2. CASE RowsKept(r)
    BY <2>0, <2>1, <2>2 DEF RowsKept
  <2>3. ASSUME NEW status \in Status, RowAdded(r, status), Preceded(r, status)
        PROVE  /\ 1 <= Len(log[r])' /\ log'[r][1].status = "MATCHING"
               /\ \A i \in 1 .. Len(log[r]) : log'[r][i].status = log[r][i].status
               /\ Len(log[r]) <= Len(log'[r])
               /\ \A i \in 2 .. Len(log'[r]) :
                    \E j \in 1 .. i - 1 : Follows(log'[r][i].status, log'[r][j].status)
    <3>1. /\ Len(log'[r]) = Len(log[r]) + 1
          /\ \A i \in 1 .. Len(log[r]) : log'[r][i].status = log[r][i].status
          /\ log'[r][Len(log[r]) + 1].status = status
      BY <2>3 DEF RowAdded
    <3>2. PICK j \in 1 .. Len(log[r]) : Follows(status, log[r][j].status)
      BY <2>3 DEF Preceded
    <3>3. ASSUME NEW i \in 2 .. Len(log'[r])
          PROVE  \E l \in 1 .. i - 1 : Follows(log'[r][i].status, log'[r][l].status)
      <4>1. CASE i = Len(log[r]) + 1
        <5>1. j \in 1 .. i - 1
          BY <2>0, <3>2, <4>1
        <5>2. Follows(log'[r][i].status, log'[r][j].status)
          BY <3>1, <3>2, <4>1
        <5>. QED  BY <5>1, <5>2
      <4>2. CASE i # Len(log[r]) + 1
        <5>1. i \in 2 .. Len(log[r])
          BY <2>0, <3>1, <4>2
        <5>. QED  BY <2>1, <3>1, <5>1
      <4>. QED  BY <4>1, <4>2
    <3>. QED  BY <2>0, <3>1, <3>3
  <2>. QED  BY <2>2, <2>3 DEF Served
<1>2. ASSUME NEW r \in RideIds' \ RideIds
      PROVE  Len(log'[r]) = 1 /\ log'[r][1].status = "MATCHING"
  BY <1>2 DEF NewRow
<1>3. HasRows'
  BY <1>1, <1>2 DEF HasRows
<1>4. NoStateSkipped'
  <2>1. ASSUME NEW r \in RideIds'
        PROVE  /\ log'[r][1].status = "MATCHING"
               /\ \A i \in 2 .. Len(log'[r]) :
                    \E j \in 1 .. i - 1 : Follows(log'[r][i].status, log'[r][j].status)
    BY <1>1, <1>2
  <2>. QED  BY <2>1, Zenon DEF NoStateSkipped
<1>5. ASSUME NEW r \in RideIds, NEW status, Preceded(r, status)
      PROVE  Preceded(r, status)'
  <2>1. PICK j \in 1 .. Len(log[r]) : Follows(status, log[r][j].status)
    BY <1>5 DEF Preceded
  <2>2. j \in 1 .. Len(log'[r]) /\ log'[r][j].status = log[r][j].status
    <3>1. Len(log'[r]) \in Nat
      BY <1>1, LogTyped DEF Served, RowsKept, RowAdded
    <3>. QED  BY <1>1, <3>1, LogTyped
  <2>. QED  BY <2>1, <2>2 DEF Preceded
<1>. QED  BY <1>3, <1>4, <1>5

-----------------------------------------------------------------------------
(* The requests.                                                           *)

\* What becomes of the evaluations: one that is new has seen ARRIVED, and one
\* that gets its row lock has found no other holder and another mark.
Moved(q) ==
  /\ UNCHANGED <<rides, log>>
  /\ \A p \in Users \X UserConns : p # q => userReq'[p] = userReq[p]
  /\ \/ /\ userReq'[q].stage = "read"
        /\ userReq'[q].ride \in RideIds
        /\ LatestStatus(userReq'[q].ride) = "ARRIVED"
     \/ /\ userReq[q].op = "rate"
        /\ userReq'[q].ride = userReq[q].ride
        /\ userReq'[q].evaluation = userReq[q].evaluation
        /\ \/ Holds(q)
           \/ /\ ~Locked(userReq[q].ride)
              /\ rides[userReq[q].ride].evaluation # userReq[q].evaluation

LEMMA RequestMoves ==
  ASSUME Typed, [Next]_vars, NEW q \in Users \X UserConns,
         userReq'[q] # userReq[q], userReq'[q].op = "rate"
  PROVE  Moved(q)
<1>0. userReq \in [Users \X UserConns -> UserRequest]
  BY DEF Typed, UserReqOK
<1>1. UNCHANGED userReq \/ \E v \in Users : UserStep(v)
  <2>1. ASSUME NEW c \in Chairs, ChairStep(c)
        PROVE  UNCHANGED userReq
    BY <2>1 DEF ChairStep, SetActivity, ChairNotify, Accept, Depart, MoveBegin,
      MoveCommit, ChairAbort
  <2>2. ASSUME NEW m \in Matchers, MatchStep(m)
        PROVE  UNCHANGED userReq
    BY <2>2 DEF MatchStep, MatchRide, MatchChair, MatchNoChair, MatchChairError,
      MatchCheck, MatchAssign, MatchAbort
  <2>3. CASE Settled \/ UNCHANGED vars
    BY <2>3 DEF Settled, vars
  <2>. QED  BY <2>1, <2>2, <2>3 DEF Next
<1>2. PICK v \in Users : UserStep(v)
  BY <1>1
<1>3. PICK j \in UserConns :
        \/ BookBegin(v, j) \/ BookCommit(v, j)
        \/ \E r \in RideIds, e \in Evaluations : RateBegin(v, j, r, e)
        \/ RateUpdate(v, j) \/ RatePay(v, j) \/ RateCommit(v, j)
        \/ UserAbort(v, j)
  BY <1>2 DEF UserStep, RegisterPaymentMethod, AppNotify, LatePayment, tables
<1>4. PICK p \in Users \X UserConns : p = <<v, j>>
  OBVIOUS
<1>5. ASSUME NEW e, e.op # "rate", userReq' = [userReq EXCEPT ![p] = e]
      PROVE  FALSE
  BY <1>0, <1>5
<1>6. CASE BookBegin(v, j)
  <2>1. PICK e : e = [op |-> "book", first |-> RidesOf(v) = {}]
    OBVIOUS
  <2>2. e.op = "book" /\ userReq' = [userReq EXCEPT ![p] = e]
    BY <1>4, <1>6, <2>1, Zenon DEF BookBegin
  <2>. QED  BY <1>5, <2>2
<1>7. CASE BookCommit(v, j) \/ RateCommit(v, j) \/ UserAbort(v, j)
  <2>1. userReq' = [userReq EXCEPT ![p] = Idle] /\ Idle.op # "rate"
    BY <1>4, <1>7, RequestTypes DEF BookCommit, RateCommit, UserAbort
  <2>. QED  BY <1>5, <2>1
<1>8. ASSUME NEW r \in RideIds, NEW mark \in Evaluations, RateBegin(v, j, r, mark)
      PROVE  Moved(q)
  <2>1. PICK e : e = [op |-> "rate", stage |-> "read", ride |-> r,
                      evaluation |-> mark, rides |-> Cardinality(RidesOf(v)),
                      token |-> v \in tokens]
    OBVIOUS
  <2>2. /\ e.stage = "read" /\ e.ride = r
        /\ userReq' = [userReq EXCEPT ![p] = e]
        /\ LatestStatus(r) = "ARRIVED" /\ UNCHANGED <<rides, log>>
    BY <1>4, <1>8, <2>1, Zenon DEF RateBegin, tables
  <2>. QED  BY <1>0, <2>2 DEF Moved
<1>9. CASE RateUpdate(v, j)
  <2>0. /\ userReq[p].op = "rate" /\ ~Locked(userReq[p].ride)
        /\ UNCHANGED <<rides, log>>
    BY <1>4, <1>9 DEF RateUpdate, tables
  <2>1. PICK old \in UserRequest : old = userReq[p]
    BY <1>0
  <2>2. PICK new : new = [old EXCEPT !.stage = "locked"]
    OBVIOUS
  <2>3. \/ userReq' = [userReq EXCEPT ![p] = Idle]
        \/ /\ userReq' = [userReq EXCEPT ![p] = new]
           /\ rides[userReq[p].ride].evaluation # userReq[p].evaluation
    BY <1>4, <1>9, <2>1, <2>2, Zenon DEF RateUpdate
  <2>4. /\ userReq' = [userReq EXCEPT ![p] = new]
        /\ rides[userReq[p].ride].evaluation # userReq[p].evaluation
    BY <1>5, <2>3, RequestTypes
  <2>5. new.ride = old.ride /\ new.evaluation = old.evaluation
    BY <2>0, <2>1, <2>2, RequestTypes
  <2>6. p = q
    BY <1>0, <2>4
  <2>. QED  BY <1>0, <2>0, <2>1, <2>4, <2>5, <2>6 DEF Moved
<1>10. CASE RatePay(v, j)
  <2>0. userReq[p].op = "rate" /\ Holds(p) /\ UNCHANGED <<rides, log>>
    BY <1>4, <1>10 DEF RatePay, Holds, tables
  <2>1. PICK old \in UserRequest : old = userReq[p]
    BY <1>0
  <2>2. PICK new : new = [old EXCEPT !.stage = "paid"]
    OBVIOUS
  <2>3. \/ userReq' = [userReq EXCEPT ![p] = Idle]
        \/ userReq' = [userReq EXCEPT ![p] = new]
    BY <1>4, <1>10, <2>1, <2>2, Zenon DEF RatePay
  <2>4. userReq' = [userReq EXCEPT ![p] = new]
    BY <1>5, <2>3, RequestTypes
  <2>5. new.ride = old.ride /\ new.evaluation = old.evaluation
    BY <2>0, <2>1, <2>2, RequestTypes
  <2>6. p = q
    BY <1>0, <2>4
  <2>. QED  BY <1>0, <2>0, <2>1, <2>4, <2>5, <2>6 DEF Moved
<1>. QED  BY <1>3, <1>6, <1>7, <1>8, <1>9, <1>10

\* A mark changes only at the commit of an evaluation of the ride.
LEMMA MarkChanges ==
  ASSUME Typed, [Next]_vars, NEW r \in RideIds,
         rides'[r].evaluation # rides[r].evaluation
  PROVE  \E q \in Users \X UserConns :
           RateCommit(q[1], q[2]) /\ userReq[q].ride = r
<1>1. UNCHANGED rides => FALSE
  OBVIOUS
<1>2. rides[r] \in Ride /\ RideIds = 1 .. Len(rides)
  BY ElementOfSeq DEF Typed, RowsOK, RideIds
<1>3. ASSUME NEW u \in Users, UserStep(u)
      PROVE  \E k \in UserConns : RateCommit(u, k) /\ userReq[<<u, k>>].ride = r
  <2>1. ASSUME NEW k \in UserConns, BookCommit(u, k)
        PROVE  FALSE
    <3>1. PICK d \in Distances :
            rides' = Append(rides, [user |-> u, chair |-> NoChair,
                                    distance |-> d, evaluation |-> 0])
      BY <2>1 DEF BookCommit
    <3>2. [user |-> u, chair |-> NoChair, distance |-> d, evaluation |-> 0] \in Ride
      BY DispatchAssumption DEF Ride
    <3>3. rides'[r] = rides[r]
      BY <1>2, <3>1, <3>2, AppendProperties DEF Typed, RowsOK
    <3>. QED  BY <3>3
  <2>2. ASSUME NEW k \in UserConns, RateCommit(u, k)
        PROVE  userReq[<<u, k>>].ride = r
    <3>1. PICK s, e : s = userReq[<<u, k>>].ride /\ rides' = [rides EXCEPT ![s].evaluation = e]
      BY <2>2, Zenon DEF RateCommit
    <3>2. s # r => rides'[r] = rides[r]
      BY <3>1
    <3>. QED  BY <3>1, <3>2
  <2>. QED
    BY <1>1, <1>3, <2>1, <2>2 DEF UserStep, RegisterPaymentMethod, LatePayment,
      BookBegin, RateBegin, RateUpdate, RatePay, UserAbort, AppNotify, tables
<1>4. ASSUME NEW c \in Chairs, ChairStep(c)
      PROVE  FALSE
  BY <1>1, <1>4 DEF ChairStep, SetActivity, ChairNotify, Accept, Depart,
    MoveBegin, MoveCommit, ChairAbort, tables
<1>5. ASSUME NEW m \in Matchers, MatchStep(m)
      PROVE  FALSE
  <2>1. CASE MatchAssign(m)
    <3>1. PICK s, c : rides' = [rides EXCEPT ![s].chair = c]
      BY <2>1, Zenon DEF MatchAssign
    <3>2. rides'[r].evaluation = rides[r].evaluation
      BY <1>2, <3>1 DEF Ride, RideIds
    <3>. QED  BY <3>2
  <2>. QED  BY <1>1, <1>5, <2>1 DEF MatchStep, MatchRide, MatchChair,
              MatchNoChair, MatchChairError, MatchCheck, MatchAbort, tables
<1>6. CASE Settled \/ UNCHANGED vars
  BY <1>1, <1>6 DEF Settled, vars
<1>7. PICK u \in Users, k \in UserConns :
        RateCommit(u, k) /\ userReq[<<u, k>>].ride = r
  BY <1>3, <1>4, <1>5, <1>6 DEF Next
<1>. QED  BY <1>7

\* A chair's request is about to write what may follow.
LEMMA ChairMoves ==
  ASSUME Typed, [Next]_vars, NEW q \in Chairs \X ChairConns,
         chairReq'[q] # chairReq[q], chairReq'[q].op = "move"
  PROVE  /\ UNCHANGED <<rides, log>>
         /\ chairReq'[q].ride \in RideIds
         /\ chairReq'[q].status # "COMPLETED"
         /\ Follows(chairReq'[q].status, LatestStatus(chairReq'[q].ride))
<1>0. chairReq \in [Chairs \X ChairConns -> ChairRequest]
  BY DEF Typed, ChairReqOK
<1>1. UNCHANGED chairReq \/ \E d \in Chairs : ChairStep(d)
  <2>1. ASSUME NEW u \in Users, UserStep(u)
        PROVE  UNCHANGED chairReq
    BY <2>1 DEF UserStep, RegisterPaymentMethod, AppNotify, LatePayment, BookBegin,
      BookCommit, RateBegin, RateUpdate, RatePay, RateCommit, UserAbort
  <2>2. ASSUME NEW m \in Matchers, MatchStep(m)
        PROVE  UNCHANGED chairReq
    BY <2>2 DEF MatchStep, MatchRide, MatchChair, MatchNoChair, MatchChairError,
      MatchCheck, MatchAssign, MatchAbort
  <2>3. CASE Settled \/ UNCHANGED vars
    BY <2>3 DEF Settled, vars
  <2>. QED  BY <2>1, <2>2, <2>3 DEF Next
<1>2. PICK d \in Chairs : ChairStep(d)
  BY <1>1
<1>3. PICK k \in ChairConns : MoveBegin(d, k) \/ MoveCommit(d, k) \/ ChairAbort(d, k)
  BY <1>2 DEF ChairStep, SetActivity, ChairNotify, Accept, Depart
<1>4. PICK p \in Chairs \X ChairConns : p = <<d, k>>
  OBVIOUS
<1>5. CASE MoveCommit(d, k) \/ ChairAbort(d, k)
  <2>1. chairReq' = [chairReq EXCEPT ![p] = Idle]
    BY <1>4, <1>5 DEF MoveCommit, ChairAbort
  <2>. QED  BY <1>0, <2>1, RequestTypes
<1>6. CASE MoveBegin(d, k)
  <2>1. PICK r \in LatestOfChair(d) :
          \E step \in {<<"ENROUTE", "PICKUP">>, <<"CARRYING", "ARRIVED">>} :
            /\ LatestStatus(r) = step[1]
            /\ chairReq' = [chairReq EXCEPT
                              ![p] = [op |-> "move", ride |-> r, status |-> step[2]]]
    BY <1>4, <1>6 DEF MoveBegin
  <2>2. PICK step \in {<<"ENROUTE", "PICKUP">>, <<"CARRYING", "ARRIVED">>} :
            /\ LatestStatus(r) = step[1]
            /\ chairReq' = [chairReq EXCEPT
                              ![p] = [op |-> "move", ride |-> r, status |-> step[2]]]
    BY <2>1
  <2>3. Follows(step[2], step[1]) /\ step[2] # "COMPLETED"
    BY FollowsInFlow
  <2>4. r \in RideIds
    BY DEF LatestOfChair, RidesOfChair
  <2>5. p = q /\ chairReq'[q] = [op |-> "move", ride |-> r, status |-> step[2]]
    BY <1>0, <2>2
  <2>6. UNCHANGED <<rides, log>>
    BY <1>6 DEF MoveBegin, tables
  <2>. QED  BY <2>2, <2>3, <2>4, <2>5, <2>6
<1>. QED  BY <1>3, <1>5, <1>6

\* The latest row of a ride is one that precedes what may follow it.
LEMMA LatestPrecedes ==
  ASSUME Typed, HasRows, NEW r \in RideIds, NEW status, Follows(status, LatestStatus(r))
  PROVE  Preceded(r, status)
<1>1. Len(log[r]) \in 1 .. Len(log[r])
  BY LogTyped DEF HasRows
<1>. QED  BY <1>1 DEF LatestStatus, Preceded

LEMMA RequestsFollow ==
  ASSUME Typed, ServedInv, [Next]_vars,
         \A r \in RideIds : \A status : Preceded(r, status) => Preceded(r, status)'
  PROVE  MovesFollow' /\ RatesFollow'
<1>1. ASSUME NEW q \in Chairs \X ChairConns, chairReq'[q].op = "move"
      PROVE  /\ chairReq'[q].status # "COMPLETED"
             /\ Preceded(chairReq[q].ride, chairReq[q].status)'
  <2>1. CASE chairReq'[q] = chairReq[q]
    <3>1. PICK r \in RideIds, status \in {chairReq[q].status} : r = chairReq[q].ride
      BY <1>1, <2>1 DEF Typed, ChairReqOK
    <3>2. status # "COMPLETED" /\ Preceded(r, status)
      BY <1>1, <2>1, <3>1 DEF ServedInv, MovesFollow
    <3>3. Preceded(r, status)'
      BY <3>2
    <3>. QED  BY <2>1, <3>1, <3>2, <3>3 DEF Preceded
  <2>2. CASE chairReq'[q] # chairReq[q]
    <3>1. PICK r \in RideIds, status \in {chairReq'[q].status} : r = chairReq'[q].ride
      BY <1>1, <2>2, ChairMoves
    <3>2. status # "COMPLETED" /\ Follows(status, LatestStatus(r))
      BY <1>1, <2>2, <3>1, ChairMoves
    <3>3. Preceded(r, status)
      BY <3>2, LatestPrecedes DEF ServedInv
    <3>4. Preceded(r, status)'
      BY <3>3
    <3>. QED  BY <3>1, <3>2, <3>4 DEF Preceded
  <2>. QED  BY <2>1, <2>2
<1>2. ASSUME NEW q \in Users \X UserConns, userReq'[q].op = "rate"
      PROVE  Preceded(userReq[q].ride, "COMPLETED")'
  <2>1. PICK r : r = userReq'[q].ride
    OBVIOUS
  <2>2. r \in RideIds /\ Preceded(r, "COMPLETED")
    <3>1. CASE userReq'[q] = userReq[q]
      BY <1>2, <2>1, <3>1 DEF ServedInv, RatesFollow, Typed, UserReqOK
    <3>2. CASE userReq'[q] # userReq[q]
      <4>1. \/ r \in RideIds /\ LatestStatus(r) = "ARRIVED"
            \/ userReq[q].op = "rate" /\ userReq[q].ride = r
        BY <1>2, <2>1, <3>2, RequestMoves DEF Moved
      <4>2. CASE r \in RideIds /\ LatestStatus(r) = "ARRIVED"
        BY <4>2, FollowsInFlow, LatestPrecedes DEF ServedInv
      <4>3. CASE userReq[q].op = "rate" /\ userReq[q].ride = r
        BY <4>3 DEF ServedInv, RatesFollow, Typed, UserReqOK
      <4>. QED  BY <4>1, <4>2, <4>3
    <3>. QED  BY <3>1, <3>2
  <2>3. Preceded(r, "COMPLETED")'
    BY <2>2
  <2>. QED  BY <2>1, <2>3 DEF Preceded
<1>. QED  BY <1>1, <1>2, Zenon DEF MovesFollow, RatesFollow

\* The row lock lets one evaluation of a ride at a time write.
LEMMA OneHolds ==
  ASSUME Typed, ServedInv, [Next]_vars
  PROVE  OneEvaluator'
<1>1. ASSUME NEW p \in Users \X UserConns, NEW q \in Users \X UserConns,
             Holds(p)', Holds(q)', userReq'[p].ride = userReq'[q].ride, p # q,
             userReq'[q] = userReq[q]
      PROVE  FALSE
  <2>1. Holds(q)
    BY <1>1 DEF Holds
  <2>2. CASE userReq'[p] = userReq[p]
    BY <1>1, <2>1, <2>2 DEF Holds, ServedInv, OneEvaluator
  <2>3. CASE userReq'[p] # userReq[p]
    <3>1. Moved(p) /\ userReq'[p].stage # "read"
      BY <1>1, <2>3, RequestMoves DEF Holds
    <3>2. userReq[p].ride = userReq[q].ride /\ (Holds(p) \/ ~Locked(userReq[p].ride))
      BY <1>1, <3>1 DEF Moved
    <3>3. Locked(userReq[p].ride)
      BY <2>1, <3>2 DEF Locked, Holds
    <3>. QED  BY <1>1, <2>1, <3>2, <3>3 DEF ServedInv, OneEvaluator
  <2>. QED  BY <2>2, <2>3
<1>2. ASSUME NEW p \in Users \X UserConns, NEW q \in Users \X UserConns,
             Holds(p)', Holds(q)', userReq'[p].ride = userReq'[q].ride, p # q
      PROVE  FALSE
  <2>1. CASE userReq'[q] = userReq[q]
    BY <1>1, <1>2, <2>1
  <2>2. CASE userReq'[q] # userReq[q]
    <3>1. userReq'[p] = userReq[p]
      BY <1>2, <2>2, RequestMoves DEF Moved, Holds
    <3>. QED  BY <1>1, <1>2, <3>1
  <2>. QED  BY <2>1, <2>2
<1>3. ASSUME NEW p \in Users \X UserConns, NEW q \in Users \X UserConns
      PROVE  (Holds(p) /\ Holds(q) /\ userReq[p].ride = userReq[q].ride => p = q)'
  BY <1>2
<1>. QED  BY <1>3, Zenon DEF OneEvaluator

LEMMA MarksStayNew ==
  ASSUME Typed, ServedInv, [Next]_vars
  PROVE  MarksDiffer'
<1>1. ASSUME NEW q \in Users \X UserConns, Holds(q)'
      PROVE  rides'[userReq'[q].ride].evaluation # userReq'[q].evaluation
  <2>1. CASE userReq'[q] # userReq[q]
    <3>1. Moved(q) /\ userReq'[q].stage # "read"
      BY <1>1, <2>1, RequestMoves DEF Holds
    <3>. QED  BY <3>1 DEF Moved, ServedInv, MarksDiffer
  <2>2. CASE userReq'[q] = userReq[q]
    <3>1. Holds(q)
      BY <1>1, <2>2 DEF Holds
    <3>2. PICK r \in RideIds : r = userReq[q].ride
      BY <3>1 DEF Holds, Typed, UserReqOK
    <3>3. rides[r].evaluation # userReq[q].evaluation
      BY <3>1, <3>2 DEF ServedInv, MarksDiffer
    <3>4. CASE rides'[r].evaluation = rides[r].evaluation
      BY <2>2, <3>2, <3>3, <3>4
    <3>5. CASE rides'[r].evaluation # rides[r].evaluation
      <4>1. PICK p \in Users \X UserConns :
              RateCommit(p[1], p[2]) /\ userReq[p].ride = r
        BY <3>5, MarkChanges
      <4>2. p = <<p[1], p[2]>>
        OBVIOUS
      <4>3. Holds(p) /\ userReq' = [userReq EXCEPT ![p] = Idle]
        BY <4>1, <4>2, Zenon DEF RateCommit, Holds
      <4>4. p = q
        BY <3>1, <3>2, <4>1, <4>3 DEF ServedInv, OneEvaluator
      <4>5. userReq'[q] = Idle
        BY <4>3, <4>4 DEF Typed, UserReqOK
      <4>. QED  BY <1>1, <4>5, RequestTypes DEF Holds
    <3>. QED  BY <3>4, <3>5
  <2>. QED  BY <2>1, <2>2
<1>. QED  BY <1>1 DEF MarksDiffer

LEMMA NextServed ==
  ASSUME Typed, ServedInv, [Next]_vars
  PROVE  ServedInv'
<1>1. /\ HasRows' /\ NoStateSkipped'
      /\ \A r \in RideIds : \A status : Preceded(r, status) => Preceded(r, status)'
  BY NextServes, OrderKept DEF ServedInv
<1>. QED  BY <1>1, RequestsFollow, OneHolds, MarksStayNew DEF ServedInv

LEMMA InitServed == Init => ServedInv
<1>. SUFFICES ASSUME Init PROVE ServedInv
  OBVIOUS
<1>1. HasRows /\ NoStateSkipped
  BY DEF Init, HasRows, NoStateSkipped, RideIds
<1>2. /\ \A q \in Users \X UserConns : userReq[q].op = "idle"
      /\ \A q \in Chairs \X ChairConns : chairReq[q].op = "idle"
  BY RequestTypes DEF Init
<1>. QED  BY <1>1, <1>2 DEF ServedInv, MovesFollow, RatesFollow, OneEvaluator,
            MarksDiffer, Holds

THEOREM ServedHolds == Spec => []ServedInv
<1>. QED  BY InitServed, NextServed, TypesHold, PTL DEF Spec

\* However the commands of users and chairs overlap and whatever is sent again,
\* no ride enters a state before the one that leads to it.
THEOREM OrderCorrect == Spec => []NoStateSkipped
<1>1. ServedInv => NoStateSkipped
  BY DEF ServedInv
<1>. QED  BY <1>1, ServedHolds, PTL

\* However evaluations of a ride overlap, one that completes the ride again
\* brings another mark: the UPDATE waits for the row lock and sees the mark
\* that was committed before.
THEOREM CompletionsCorrect == Spec => CompletedAgainByNewMark
<1>1. ASSUME Typed, ServedInv, [Next]_vars, NEW r \in RideIds,
             NEW i \in DOMAIN log'[r] \ DOMAIN log[r],
             log'[r][i].status = "COMPLETED", Typed'
      PROVE  rides'[r].evaluation # rides[r].evaluation
  <2>1. Served(r) /\ RideIds \subseteq RideIds'
    BY <1>1, NextServes
  <2>2. /\ DOMAIN log[r] = 1 .. Len(log[r]) /\ Len(log[r]) \in Nat
        /\ DOMAIN log'[r] = 1 .. Len(log'[r]) /\ Len(log'[r]) \in Nat
    <3>1. log' \in Seq(Seq(StatusRow)) /\ r \in DOMAIN log'
      BY <1>1, <2>1 DEF Typed, RowsOK, RideIds
    <3>2. log'[r] \in Seq(StatusRow)
      BY <3>1, ElementOfSeq
    <3>. QED  BY <1>1, <3>2, LogTyped
  <2>3. ~RowsKept(r)
    BY <1>1, <2>2 DEF RowsKept
  <2>4. PICK status \in Status :
          /\ RowAdded(r, status)
          /\ status = "COMPLETED" =>
               \E q \in Users \X UserConns :
                 RateCommit(q[1], q[2]) /\ userReq[q].ride = r
    BY <2>1, <2>3 DEF Served
  <2>5. status = "COMPLETED"
    <3>1. i = Len(log[r]) + 1
      BY <1>1, <2>2, <2>4 DEF RowAdded
    <3>. QED  BY <1>1, <2>4, <3>1 DEF RowAdded
  <2>6. PICK q \in Users \X UserConns : RateCommit(q[1], q[2]) /\ userReq[q].ride = r
    BY <2>4, <2>5
  <2>7. q = <<q[1], q[2]>>
    OBVIOUS
  <2>8. PICK e : e = userReq[q].evaluation
    OBVIOUS
  <2>9. Holds(q) /\ rides' = [rides EXCEPT ![r].evaluation = e]
    BY <2>6, <2>7, <2>8, Zenon DEF RateCommit, Holds
  <2>10. rides[r].evaluation # e
    BY <1>1, <2>6, <2>8, <2>9 DEF ServedInv, MarksDiffer
  <2>11. rides'[r].evaluation = e
    <3>1. rides[r] \in Ride
      BY <1>1, ElementOfSeq DEF Typed, RowsOK, RideIds
    <3>. QED  BY <2>9, <3>1 DEF Ride, RideIds
  <2>. QED  BY <2>10, <2>11
<1>2. Typed /\ Typed' /\ ServedInv /\ [Next]_vars
        => [\A r \in RideIds : \A i \in DOMAIN log'[r] \ DOMAIN log[r] :
              log'[r][i].status = "COMPLETED"
                => rides'[r].evaluation # rides[r].evaluation]_vars
  BY <1>1
<1>. QED  BY <1>2, ServedHolds, TypesHold, PTL DEF Spec, CompletedAgainByNewMark
=============================================================================
