------------------------ MODULE DispatchTypes_proofs ------------------------
(***************************************************************************)
(* Type correctness of Dispatch, for every value of its constants.         *)
(***************************************************************************)
EXTENDS Dispatch, SequenceTheorems, FiniteSetTheorems, TLAPS

-----------------------------------------------------------------------------
(* The helpers.                                                            *)

LEMMA FlowIsStatus ==
  /\ Len(Flow) = 6
  /\ \A i \in 1 .. 6 : Flow[i] \in Status
  /\ \A i, j \in 1 .. 6 : Flow[i] = Flow[j] => i = j
  BY DEF Flow, Status

\* Redeeming a coupon leaves the list of coupons a list of coupons.
LEMMA RedeemType ==
  ASSUME NEW cs \in Seq(Coupon), NEW first \in BOOLEAN, NEW ride \in Nat
  PROVE  Redeem(cs, first, ride) \in Seq(Coupon)
<1>1. ASSUME NEW i \in DOMAIN cs
      PROVE  cs[i] \in Coupon /\ [cs[i] EXCEPT !.usedBy = ride] \in Coupon
  <2>1. cs[i] \in Coupon
    BY ElementOfSeq
  <2>. QED  BY <2>1 DEF Coupon
<1>2. Redeem(cs, first, ride) \in [1 .. Len(cs) -> Coupon]
  BY <1>1 DEF Redeem
<1>. QED  BY <1>2

\* A discount is a natural number.
LEMMA DiscountType ==
  ASSUME NEW cs \in Seq(Coupon), NEW ride
  PROVE  DiscountOf(cs, ride) \in Nat
<1>. DEFINE rows == {i \in DOMAIN cs : cs[i].usedBy = ride}
<1>1. CASE rows = {}
  BY <1>1 DEF DiscountOf
<1>2. CASE rows # {}
  <2>1. (CHOOSE i \in rows : TRUE) \in rows
    BY <1>2
  <2>2. cs[CHOOSE i \in rows : TRUE] \in Coupon
    BY <2>1
  <2>. QED  BY <1>2, <2>2 DEF DiscountOf, Coupon
<1>. QED  BY <1>1, <1>2

LEMMA FareType ==
  ASSUME NEW distance \in Nat, NEW discount \in Nat
  PROVE  DiscountedFare(distance, discount) \in Nat
  BY DEF DiscountedFare, InitialFare, FarePerDistance

\* Adding a row changes one log, by one row at its end.
LEMMA AddStatusEffect ==
  ASSUME log \in Seq(Seq(StatusRow)), NEW r \in DOMAIN log,
         NEW status \in Status, AddStatus(r, status)
  PROVE  /\ log' \in Seq(Seq(StatusRow)) /\ Len(log') = Len(log)
         /\ \A s \in DOMAIN log : s # r => log'[s] = log[s]
         /\ Len(log'[r]) = Len(log[r]) + 1
         /\ \A i \in 1 .. Len(log[r]) : log'[r][i] = log[r][i]
         /\ log'[r][Len(log[r]) + 1] = NewRow(status)
<1>. DEFINE new == Append(log[r], NewRow(status))
<1>1. NewRow(status) \in StatusRow
  BY DEF NewRow, StatusRow
<1>2. log[r] \in Seq(StatusRow)
  BY ElementOfSeq
<1>3. /\ new \in Seq(StatusRow)
      /\ Len(new) = Len(log[r]) + 1
      /\ \A i \in 1 .. Len(log[r]) : new[i] = log[r][i]
      /\ new[Len(log[r]) + 1] = NewRow(status)
  BY <1>1, <1>2, AppendProperties
<1>4. log' = [log EXCEPT ![r] = new]
  BY DEF AddStatus
<1>5. /\ log' \in Seq(Seq(StatusRow)) /\ Len(log') = Len(log)
      /\ \A s \in DOMAIN log : log'[s] = IF s = r THEN new ELSE log[s]
  BY <1>3, <1>4, ExceptSeq
<1>. QED  BY <1>3, <1>5

\* Setting the flag of a row changes nothing else.
LEMMA FlagEffect ==
  ASSUME log \in Seq(Seq(StatusRow)), NEW r \in DOMAIN log,
         NEW i \in DOMAIN log[r], NEW flag \in {"app", "chair"},
         log' = [log EXCEPT ![r][i][flag] = TRUE]
  PROVE  /\ log' \in Seq(Seq(StatusRow)) /\ Len(log') = Len(log)
         /\ \A s \in DOMAIN log : s # r => log'[s] = log[s]
         /\ Len(log'[r]) = Len(log[r])
         /\ \A j \in DOMAIN log[r] :
              log'[r][j] = IF j = i THEN [log[r][j] EXCEPT ![flag] = TRUE]
                                    ELSE log[r][j]
<1>. DEFINE row == [log[r][i] EXCEPT ![flag] = TRUE]
            new == [log[r] EXCEPT ![i] = row]
<1>1. log[r] \in Seq(StatusRow) /\ log[r][i] \in StatusRow
  BY ElementOfSeq
<1>2. row \in StatusRow
  BY <1>1 DEF StatusRow
<1>3. /\ new \in Seq(StatusRow) /\ Len(new) = Len(log[r])
      /\ \A j \in 1 .. Len(log[r]) : new[j] = IF j = i THEN row ELSE log[r][j]
  BY <1>1, <1>2, ExceptSeq
<1>4. log' = [log EXCEPT ![r] = new]
  OBVIOUS
<1>5. /\ log' \in Seq(Seq(StatusRow)) /\ Len(log') = Len(log)
      /\ \A s \in DOMAIN log : log'[s] = IF s = r THEN new ELSE log[s]
  BY <1>3, <1>4, ExceptSeq
<1>. QED  BY <1>1, <1>3, <1>5

\* Touching a ride renumbers the update order.
LEMMA TouchType ==
  ASSUME updatedAt \in Seq(Nat), NEW r \in DOMAIN updatedAt, Touch(r)
  PROVE  updatedAt' \in Seq(Nat) /\ Len(updatedAt') = Len(updatedAt)
<1>1. updatedAt' \in [1 .. Len(updatedAt) -> Nat]
  BY DEF Touch
<1>. QED  BY <1>1
-----------------------------------------------------------------------------
(* Types.                                                                  *)

\* Requests in progress are requests, and work on rides that exist.
UserReqOK ==
  /\ userReq \in [Users \X UserConns -> UserRequest]
  /\ \A q \in Users \X UserConns :
       userReq[q].op = "rate" => userReq[q].ride \in RideIds

ChairReqOK ==
  /\ chairReq \in [Chairs \X ChairConns -> ChairRequest]
  /\ \A q \in Chairs \X ChairConns :
       chairReq[q].op = "move" => chairReq[q].ride \in RideIds

MatchOK ==
  /\ match \in [Matchers -> MatchRequest]
  /\ \A m \in Matchers : match[m].op # "idle" => match[m].ride \in RideIds

\* The tables whose rows are indexed by ride, and the other ones.
RowsOK ==
  /\ rides \in Seq(Ride)
  /\ updatedAt \in Seq(Nat) /\ Len(updatedAt) = Len(rides)
  /\ log \in Seq(Seq(StatusRow)) /\ Len(log) = Len(rides)
  /\ quoted \in Seq(Nat) /\ Len(quoted) = Len(rides)

OthersOK ==
  /\ active \in [Chairs -> BOOLEAN]
  /\ coupons \in [Users -> Seq(Coupon)]
  /\ tokens \subseteq Users
  /\ acked \subseteq Chairs \X Nat
  /\ payments \in [Users -> Seq(PaymentRequest)]

Typed == RowsOK /\ OthersOK /\ UserReqOK /\ ChairReqOK /\ MatchOK

LEMMA TypedIsTypeOK == Typed => TypeOK
  BY DEF Typed, TypeOK, RowsOK, OthersOK, UserReqOK, ChairReqOK, MatchOK

LEMMA RequestTypes ==
  /\ Idle \in UserRequest /\ Idle \in ChairRequest /\ Idle \in MatchRequest
  /\ Idle.op = "idle"
  /\ \A q \in UserRequest :
       /\ q.op \in {"idle", "book", "rate"}
       /\ q.op = "idle" <=> q = Idle
       /\ q.op = "book" <=> q \in [op : {"book"}, first : BOOLEAN]
       /\ q.op = "rate" <=>
            q \in [op : {"rate"}, stage : {"read", "locked", "paid"}, ride : Nat,
                   evaluation : 1 .. 5, rides : Nat, token : BOOLEAN]
  /\ \A q \in ChairRequest :
       /\ q.op \in {"idle", "move"}
       /\ q.op = "idle" <=> q = Idle
       /\ q.op = "move" <=> q \in [op : {"move"}, ride : Nat, status : Status]
  /\ \A q \in MatchRequest :
       /\ q.op \in {"idle", "pick", "check", "assign"}
       /\ q.op = "idle" <=> q = Idle
       /\ q.op # "idle" <=> q \in [op : {"pick", "check", "assign"}, ride : Nat,
                                   chair : ChairId, tries : Nat]
  BY DEF UserRequest, ChairRequest, MatchRequest, Idle

LEMMA InitType == Init => Typed
<1>. SUFFICES ASSUME Init PROVE Typed
  OBVIOUS
<1>1. \A u \in Users : coupons[u] \in Seq(Coupon)
  BY DispatchAssumption DEF Init
<1>2. RowsOK
  BY DEF Init, RowsOK
<1>3. OthersOK
  BY <1>1 DEF Init, OthersOK
<1>4. UserReqOK /\ ChairReqOK /\ MatchOK
  BY RequestTypes DEF Init, UserReqOK, ChairReqOK, MatchOK
<1>. QED  BY <1>2, <1>3, <1>4 DEF Typed

\* A function on 1 .. n is a sequence.
LEMMA SeqOfValues ==
  ASSUME NEW S, NEW n \in Nat, NEW f \in [1 .. n -> S]
  PROVE  f \in Seq(S)
  BY SeqDef

\* A request may be replaced by any other that works on an existing ride, and
\* rides may be added.
LEMMA UserReqStep ==
  ASSUME UserReqOK, NEW q \in Users \X UserConns, NEW new \in UserRequest,
         new.op = "rate" => new.ride \in RideIds,
         userReq' = [userReq EXCEPT ![q] = new], RideIds \subseteq RideIds'
  PROVE  UserReqOK'
  BY DEF UserReqOK

LEMMA ChairReqStep ==
  ASSUME ChairReqOK, NEW q \in Chairs \X ChairConns, NEW new \in ChairRequest,
         new.op = "move" => new.ride \in RideIds,
         chairReq' = [chairReq EXCEPT ![q] = new], RideIds \subseteq RideIds'
  PROVE  ChairReqOK'
  BY DEF ChairReqOK

LEMMA MatchReqStep ==
  ASSUME MatchOK, NEW m \in Matchers, NEW new \in MatchRequest,
         new.op # "idle" => new.ride \in RideIds,
         match' = [match EXCEPT ![m] = new], RideIds \subseteq RideIds'
  PROVE  MatchOK'
  BY DEF MatchOK

LEMMA Kept ==
  /\ RowsOK /\ UNCHANGED <<rides, updatedAt, log, quoted>> => RowsOK'
  /\ OthersOK /\ UNCHANGED <<active, coupons, tokens, acked, payments>>
       => OthersOK'
  /\ UserReqOK /\ UNCHANGED userReq /\ RideIds \subseteq RideIds' => UserReqOK'
  /\ ChairReqOK /\ UNCHANGED chairReq /\ RideIds \subseteq RideIds' => ChairReqOK'
  /\ MatchOK /\ UNCHANGED match /\ RideIds \subseteq RideIds' => MatchOK'
  /\ UNCHANGED rides => RideIds \subseteq RideIds'
  BY DEF RowsOK, OthersOK, UserReqOK, ChairReqOK, MatchOK, RideIds

\* A step that only adds a row, sets a flag or touches a ride.
LEMMA LogKept ==
  ASSUME Typed, NEW r \in RideIds,
         \/ \E status \in Status : AddStatus(r, status)
         \/ \E i \in DOMAIN log[r], flag \in {"app", "chair"} :
               log' = [log EXCEPT ![r][i][flag] = TRUE],
         UNCHANGED <<rides, updatedAt, quoted>>
  PROVE  RowsOK'
<1>. USE DEF Typed, RowsOK, RideIds
<1>0. r \in DOMAIN log
  OBVIOUS
<1>1. CASE \E status \in Status : AddStatus(r, status)
  <2>1. PICK status \in Status : AddStatus(r, status)
    BY <1>1
  <2>2. log' \in Seq(Seq(StatusRow)) /\ Len(log') = Len(log)
    BY <1>0, <2>1, AddStatusEffect
  <2>. QED  BY <2>2
<1>2. CASE \E i \in DOMAIN log[r], flag \in {"app", "chair"} :
             log' = [log EXCEPT ![r][i][flag] = TRUE]
  <2>1. PICK i \in DOMAIN log[r], flag \in {"app", "chair"} :
          log' = [log EXCEPT ![r][i][flag] = TRUE]
    BY <1>2
  <2>2. log' \in Seq(Seq(StatusRow)) /\ Len(log') = Len(log)
    BY <1>0, <2>1, FlagEffect
  <2>. QED  BY <2>2
<1>. QED  BY <1>1, <1>2

\* Each user action leaves every variable in its type.
LEMMA UserType ==
  ASSUME Typed, NEW u \in Users, UserStep(u)
  PROVE  Typed'
<1>. USE DEF Typed, tables
<1>0. ASSUME NEW k \in UserConns
      PROVE  /\ <<u, k>> \in Users \X UserConns
             /\ userReq[<<u, k>>] \in UserRequest
             /\ userReq[<<u, k>>].op = "rate" => userReq[<<u, k>>].ride \in RideIds
  BY DEF UserReqOK
<1>1. CASE RegisterPaymentMethod(u)
  <2>1. OthersOK'
    BY <1>1 DEF RegisterPaymentMethod, OthersOK
  <2>. QED  BY <1>1, <2>1, Kept DEF RegisterPaymentMethod
<1>2. CASE AppNotify(u)
  <2>1. PICK r \in LatestOfUser(u) : \E i \in OldestUnsent(r, "app") :
          log' = [log EXCEPT ![r][i].app = TRUE]
    BY <1>2 DEF AppNotify
  <2>2. PICK i \in OldestUnsent(r, "app") : log' = [log EXCEPT ![r][i].app = TRUE]
    BY <2>1
  <2>3. r \in RideIds /\ i \in DOMAIN log[r]
    BY <2>1, <2>2 DEF LatestOfUser, RidesOf, OldestUnsent
  <2>4. log' = [log EXCEPT ![r][i]["app"] = TRUE]
    BY <2>2
  <2>5. RowsOK'
    BY <1>2, <2>3, <2>4, LogKept DEF AppNotify
  <2>. QED  BY <1>2, <2>5, Kept DEF AppNotify
<1>3. ASSUME NEW k \in UserConns, BookBegin(u, k)
      PROVE  Typed'
  <2>1. PICK b \in BOOLEAN :
          userReq' = [userReq EXCEPT ![<<u, k>>] = [op |-> "book", first |-> b]]
    BY <1>3, Zenon DEF BookBegin
  <2>2. [op |-> "book", first |-> b] \in UserRequest
    BY DEF UserRequest
  <2>3. UserReqOK'
    BY <1>0, <1>3, <2>1, <2>2, UserReqStep, Kept DEF BookBegin
  <2>. QED  BY <1>3, <2>3, Kept DEF BookBegin
<1>4. ASSUME NEW k \in UserConns, BookCommit(u, k)
      PROVE  Typed'
  <2>. DEFINE req == userReq[<<u, k>>]
              new == Len(rides) + 1
  <2>1. req.op = "book" /\ req.first \in BOOLEAN
    BY <1>0, <1>4, RequestTypes DEF BookCommit
  <2>2. PICK d \in Distances :
          /\ rides' = Append(rides, [user |-> u, chair |-> NoChair,
                                     distance |-> d, evaluation |-> 0])
          /\ coupons' = [coupons EXCEPT ![u] = Redeem(@, req.first, new)]
          /\ quoted' = Append(quoted,
                         DiscountedFare(d, DiscountOf(coupons'[u], new)))
    BY <1>4 DEF BookCommit
  <2>3. d \in Nat
    BY DispatchAssumption
  <2>4. /\ rides' \in Seq(Ride) /\ Len(rides') = new
        /\ RideIds \subseteq RideIds'
    <3>1. [user |-> u, chair |-> NoChair, distance |-> d, evaluation |-> 0] \in Ride
      BY <2>3 DEF Ride
    <3>. QED  BY <2>2, <3>1, AppendProperties DEF RowsOK, RideIds
  <2>5. coupons' \in [Users -> Seq(Coupon)]
    <3>1. Redeem(coupons[u], req.first, new) \in Seq(Coupon)
      BY <2>1, RedeemType DEF OthersOK, RowsOK
    <3>. QED  BY <2>2, <3>1 DEF OthersOK
  <2>6. quoted' \in Seq(Nat) /\ Len(quoted') = new
    <3>1. DiscountedFare(d, DiscountOf(coupons'[u], new)) \in Nat
      BY <2>3, <2>5, DiscountType, FareType
    <3>. QED  BY <2>2, <3>1, AppendProperties DEF RowsOK
  <2>7. updatedAt' \in Seq(Nat) /\ Len(updatedAt') = new
    BY <1>4, AppendProperties DEF BookCommit, RowsOK
  <2>8. log' \in Seq(Seq(StatusRow)) /\ Len(log') = new
    <3>1. <<NewRow("MATCHING")>> \in Seq(StatusRow)
      BY DEF NewRow, StatusRow, Status
    <3>. QED  BY <1>4, <3>1, AppendProperties DEF BookCommit, RowsOK
  <2>9. UserReqOK'
    BY <1>0, <1>4, <2>4, RequestTypes, UserReqStep DEF BookCommit
  <2>10. RowsOK'
    BY <2>4, <2>6, <2>7, <2>8 DEF RowsOK
  <2>11. OthersOK'
    BY <1>4, <2>5 DEF BookCommit, OthersOK
  <2>. QED  BY <1>4, <2>4, <2>9, <2>10, <2>11, Kept DEF BookCommit
<1>5. ASSUME NEW k \in UserConns, NEW r \in RideIds, NEW e \in Evaluations,
             RateBegin(u, k, r, e)
      PROVE  Typed'
  <2>1. r \in Nat /\ e \in 1 .. 5
    BY DispatchAssumption DEF RideIds, RowsOK
  <2>2. Cardinality(RidesOf(u)) \in Nat
    <3>1. IsFiniteSet(1 .. Len(rides))
      BY FS_Interval DEF RowsOK
    <3>2. RidesOf(u) \subseteq 1 .. Len(rides)
      BY DEF RidesOf, RideIds, RowsOK
    <3>. QED  BY <3>1, <3>2, FS_Subset, FS_CardinalityType
  <2>3. PICK b \in BOOLEAN :
          userReq' = [userReq EXCEPT
                        ![<<u, k>>] = [op |-> "rate", stage |-> "read",
                                       ride |-> r, evaluation |-> e,
                                       rides |-> Cardinality(RidesOf(u)),
                                       token |-> b]]
    <3>1. (u \in tokens) \in BOOLEAN
      OBVIOUS
    <3>. QED  BY <1>5, <3>1, Zenon DEF RateBegin
  <2>4. [op |-> "rate", stage |-> "read", ride |-> r, evaluation |-> e,
         rides |-> Cardinality(RidesOf(u)), token |-> b] \in UserRequest
    BY <2>1, <2>2 DEF UserRequest
  <2>5. UserReqOK'
    BY <1>0, <1>5, <2>3, <2>4, UserReqStep, Kept DEF RateBegin
  <2>. QED  BY <1>5, <2>5, Kept DEF RateBegin
<1>6. ASSUME NEW k \in UserConns, RateUpdate(u, k)
      PROVE  Typed'
  <2>1. PICK new \in {Idle, [userReq[<<u, k>>] EXCEPT !.stage = "locked"]} :
          userReq' = [userReq EXCEPT ![<<u, k>>] = new]
    BY <1>6 DEF RateUpdate
  <2>2. new \in UserRequest /\ (new.op = "rate" => new.ride \in RideIds)
    BY <1>0, <1>6, <2>1, RequestTypes DEF RateUpdate, UserRequest
  <2>3. UserReqOK'
    BY <1>0, <1>6, <2>1, <2>2, UserReqStep, Kept DEF RateUpdate
  <2>. QED  BY <1>6, <2>3, Kept DEF RateUpdate
<1>7. ASSUME NEW k \in UserConns, RatePay(u, k)
      PROVE  Typed'
  <2>. DEFINE req == userReq[<<u, k>>]
              sent(o) == [i \in 1 .. o.charged + o.late |->
                            [ride |-> req.ride, listed |-> i <= o.charged]]
  <2>1. PICK o \in GatewayOutcomes(Cardinality(Listed(u)), req.rides) :
          /\ payments' = [payments EXCEPT ![u] = @ \o sent(o)]
          /\ userReq' = [userReq EXCEPT
                            ![<<u, k>>] = IF o.ok
                                          THEN [req EXCEPT !.stage = "paid"]
                                          ELSE Idle]
    BY <1>7 DEF RatePay
  <2>2. o.charged \in Nat /\ o.late \in Nat
    BY DispatchAssumption DEF GatewayOutcomes, ChargeOutcomes
  <2>3. req.op = "rate" /\ req.ride \in Nat
    BY <1>0, <1>7 DEF RatePay, RideIds, RowsOK
  <2>4. sent(o) \in Seq(PaymentRequest)
    <3>1. o.charged + o.late \in Nat
      BY <2>2
    <3>2. \A i \in 1 .. o.charged + o.late :
            [ride |-> req.ride, listed |-> i <= o.charged] \in PaymentRequest
      BY <2>2, <2>3 DEF PaymentRequest
    <3>3. sent(o) \in [1 .. o.charged + o.late -> PaymentRequest]
      BY <3>2, Zenon
    <3>. HIDE DEF sent, req
    <3>. QED  BY <3>1, <3>3, SeqOfValues
  <2>5. OthersOK'
    <3>1. payments[u] \o sent(o) \in Seq(PaymentRequest)
      BY <2>4, ConcatProperties DEF OthersOK
    <3>. QED  BY <1>7, <2>1, <3>1 DEF RatePay, OthersOK
  <2>6. PICK new \in {Idle, [req EXCEPT !.stage = "paid"]} :
          userReq' = [userReq EXCEPT ![<<u, k>>] = new]
    BY <2>1
  <2>7. new \in UserRequest /\ (new.op = "rate" => new.ride \in RideIds)
    BY <1>0, <2>3, <2>6, RequestTypes DEF UserRequest
  <2>8. UserReqOK'
    BY <1>0, <1>7, <2>6, <2>7, UserReqStep, Kept DEF RatePay
  <2>. QED  BY <1>7, <2>5, <2>8, Kept DEF RatePay
<1>8. ASSUME NEW k \in UserConns, RateCommit(u, k)
      PROVE  Typed'
  <2>. DEFINE req == userReq[<<u, k>>]
  <2>1. req.op = "rate" /\ req.ride \in RideIds /\ req.evaluation \in 1 .. 5
    BY <1>0, <1>8, RequestTypes DEF RateCommit
  <2>2. rides' \in Seq(Ride) /\ Len(rides') = Len(rides)
    <3>1. [rides[req.ride] EXCEPT !.evaluation = req.evaluation] \in Ride
      <4>1. rides[req.ride] \in Ride
        BY <2>1, ElementOfSeq DEF RideIds, RowsOK
      <4>2. req.evaluation \in 0 .. 5
        BY <2>1
      <4>. HIDE DEF req
      <4>. QED  BY <4>1, <4>2 DEF Ride
    <3>2. rides' = [rides EXCEPT
                      ![req.ride] = [rides[req.ride] EXCEPT
                                       !.evaluation = req.evaluation]]
      BY <1>8 DEF RateCommit
    <3>. QED  BY <2>1, <3>1, <3>2, ExceptSeq DEF RideIds, RowsOK
  <2>3. updatedAt' \in Seq(Nat) /\ Len(updatedAt') = Len(updatedAt)
    BY <1>8, <2>1, TouchType DEF RateCommit, RideIds, RowsOK
  <2>4. log' \in Seq(Seq(StatusRow)) /\ Len(log') = Len(log)
    BY <1>8, <2>1, AddStatusEffect DEF RateCommit, Status, RideIds, RowsOK
  <2>5. RowsOK' /\ RideIds \subseteq RideIds'
    BY <1>8, <2>2, <2>3, <2>4 DEF RowsOK, RideIds, RateCommit
  <2>6. UserReqOK'
    BY <1>0, <1>8, <2>5, RequestTypes, UserReqStep DEF RateCommit
  <2>. QED  BY <1>8, <2>5, <2>6, Kept DEF RateCommit
<1>9. ASSUME NEW k \in UserConns, UserAbort(u, k)
      PROVE  Typed'
  <2>1. UserReqOK'
    BY <1>0, <1>9, RequestTypes, UserReqStep, Kept DEF UserAbort
  <2>. QED  BY <1>9, <2>1, Kept DEF UserAbort
<1>10. CASE LatePayment(u)
  <2>1. PICK i \in DOMAIN payments[u] :
          payments' = [payments EXCEPT ![u][i].listed = TRUE]
    BY <1>10 DEF LatePayment
  <2>2. [payments[u][i] EXCEPT !.listed = TRUE] \in PaymentRequest
    <3>1. payments[u][i] \in PaymentRequest
      BY <2>1, ElementOfSeq DEF OthersOK
    <3>. QED  BY <3>1 DEF PaymentRequest
  <2>3. [payments[u] EXCEPT ![i] = [payments[u][i] EXCEPT !.listed = TRUE]]
          \in Seq(PaymentRequest)
    BY <2>1, <2>2, ExceptSeq DEF OthersOK
  <2>4. OthersOK'
    BY <1>10, <2>1, <2>3 DEF LatePayment, OthersOK
  <2>. QED  BY <1>10, <2>4, Kept DEF LatePayment
<1>. QED
  BY <1>1, <1>2, <1>3, <1>4, <1>5, <1>6, <1>7, <1>8, <1>9, <1>10 DEF UserStep

\* Each chair action leaves every variable in its type.
LEMMA ChairType ==
  ASSUME Typed, NEW c \in Chairs, ChairStep(c)
  PROVE  Typed'
<1>. USE DEF Typed, tables
<1>0. ASSUME NEW k \in ChairConns
      PROVE  /\ <<c, k>> \in Chairs \X ChairConns
             /\ chairReq[<<c, k>>] \in ChairRequest
             /\ chairReq[<<c, k>>].op = "move"
                  => /\ chairReq[<<c, k>>].ride \in RideIds
                     /\ chairReq[<<c, k>>].status \in Status
  BY RequestTypes DEF ChairReqOK
<1>1. ASSUME NEW on \in BOOLEAN, SetActivity(c, on)
      PROVE  Typed'
  <2>1. OthersOK'
    BY <1>1 DEF SetActivity, OthersOK
  <2>. QED  BY <1>1, <2>1, Kept DEF SetActivity
<1>2. CASE ChairNotify(c)
  <2>1. PICK r \in LatestOfChair(c) : \E i \in OldestUnsent(r, "chair") :
          log' = [log EXCEPT ![r][i].chair = TRUE]
    BY <1>2 DEF ChairNotify
  <2>2. PICK i \in OldestUnsent(r, "chair") :
          log' = [log EXCEPT ![r][i].chair = TRUE]
    BY <2>1
  <2>3. r \in RideIds /\ i \in DOMAIN log[r]
    BY <2>1, <2>2 DEF LatestOfChair, RidesOfChair, OldestUnsent
  <2>4. log' = [log EXCEPT ![r][i]["chair"] = TRUE]
    BY <2>2
  <2>5. RowsOK'
    BY <1>2, <2>3, <2>4, LogKept DEF ChairNotify
  <2>. QED  BY <1>2, <2>5, Kept DEF ChairNotify
<1>3. ASSUME NEW k \in ChairConns, NEW r \in RideIds, Accept(c, k, r)
      PROVE  Typed'
  <2>1. RowsOK'
    BY <1>3, LogKept DEF Accept, Status
  <2>2. OthersOK'
    BY <1>3 DEF Accept, OthersOK, RowsOK, RideIds
  <2>. QED  BY <1>3, <2>1, <2>2, Kept DEF Accept
<1>4. ASSUME NEW k \in ChairConns, NEW r \in RideIds, Depart(c, k, r)
      PROVE  Typed'
  <2>1. RowsOK'
    BY <1>4, LogKept DEF Depart, Status
  <2>. QED  BY <1>4, <2>1, Kept DEF Depart
<1>5. ASSUME NEW k \in ChairConns, MoveBegin(c, k)
      PROVE  Typed'
  <2>1. PICK r \in RideIds, status \in Status :
          chairReq' = [chairReq EXCEPT
                         ![<<c, k>>] = [op |-> "move", ride |-> r,
                                        status |-> status]]
    <3>1. PICK r \in LatestOfChair(c) :
            \E step \in {<<"ENROUTE", "PICKUP">>, <<"CARRYING", "ARRIVED">>} :
              chairReq' = [chairReq EXCEPT
                             ![<<c, k>>] = [op |-> "move", ride |-> r,
                                            status |-> step[2]]]
      BY <1>5 DEF MoveBegin
    <3>2. r \in RideIds
      BY <3>1 DEF LatestOfChair, RidesOfChair
    <3>3. /\ <<"ENROUTE", "PICKUP">>[2] \in Status
          /\ <<"CARRYING", "ARRIVED">>[2] \in Status
      BY DEF Status
    <3>. QED  BY <3>1, <3>2, <3>3
  <2>2. [op |-> "move", ride |-> r, status |-> status] \in ChairRequest
    BY DEF ChairRequest, RideIds, RowsOK
  <2>3. ChairReqOK'
    BY <1>0, <1>5, <2>1, <2>2, ChairReqStep, Kept DEF MoveBegin
  <2>. QED  BY <1>5, <2>3, Kept DEF MoveBegin
<1>6. ASSUME NEW k \in ChairConns, MoveCommit(c, k)
      PROVE  Typed'
  <2>1. RowsOK'
    BY <1>0, <1>6, LogKept DEF MoveCommit
  <2>2. ChairReqOK'
    BY <1>0, <1>6, RequestTypes, ChairReqStep, Kept DEF MoveCommit
  <2>. QED  BY <1>6, <2>1, <2>2, Kept DEF MoveCommit
<1>7. ASSUME NEW k \in ChairConns, ChairAbort(c, k)
      PROVE  Typed'
  <2>1. ChairReqOK'
    BY <1>0, <1>7, RequestTypes, ChairReqStep, Kept DEF ChairAbort
  <2>. QED  BY <1>7, <2>1, Kept DEF ChairAbort
<1>. QED
  BY <1>1, <1>2, <1>3, <1>4, <1>5, <1>6, <1>7 DEF ChairStep

\* Each matching action leaves every variable in its type.
LEMMA MatchType ==
  ASSUME Typed, NEW m \in Matchers, MatchStep(m)
  PROVE  Typed'
<1>. USE DEF Typed, tables
<1>0. /\ match[m] \in MatchRequest
      /\ match[m].op # "idle" => /\ match[m].ride \in RideIds
                                 /\ match[m].chair \in ChairId
                                 /\ match[m].tries \in Nat
  BY RequestTypes DEF MatchOK
<1>1. CASE MatchRide(m)
  <2>1. PICK r \in RideIds :
          match' = [match EXCEPT ![m] = [op |-> "pick", ride |-> r,
                                         chair |-> BlankChair, tries |-> 0]]
    BY <1>1 DEF MatchRide, RidesOfChair
  <2>2. [op |-> "pick", ride |-> r, chair |-> BlankChair, tries |-> 0]
          \in MatchRequest
    BY DEF MatchRequest, ChairId, RideIds, RowsOK
  <2>3. MatchOK'
    BY <1>1, <2>1, <2>2, MatchReqStep, Kept DEF MatchRide
  <2>. QED  BY <1>1, <2>3, Kept DEF MatchRide
<1>2. ASSUME NEW new \in MatchRequest, new.op # "idle" => new.ride \in RideIds,
             match' = [match EXCEPT ![m] = new],
             UNCHANGED <<tables, userReq, chairReq, acked, payments, quoted>>
      PROVE  Typed'
  <2>1. MatchOK'
    BY <1>2, MatchReqStep, Kept
  <2>. QED  BY <1>2, <2>1, Kept
<1>3. ASSUME NEW c \in Chairs, MatchChair(m, c)
      PROVE  Typed'
  <2>. DEFINE new == [match[m] EXCEPT !.op = "check", !.chair = c]
  <2>1. new \in MatchRequest /\ new.ride = match[m].ride
    BY <1>0, <1>3, RequestTypes DEF MatchChair, MatchRequest, ChairId
  <2>2. match' = [match EXCEPT ![m] = new]
    BY <1>3 DEF MatchChair
  <2>. HIDE DEF new
  <2>. QED  BY <1>0, <1>2, <1>3, <2>1, <2>2, RequestTypes DEF MatchChair
<1>4. CASE MatchNoChair(m)
  BY <1>2, <1>4, RequestTypes DEF MatchNoChair
<1>5. CASE MatchChairError(m)
  <2>. DEFINE new == [match[m] EXCEPT !.op = "check"]
  <2>1. new \in MatchRequest /\ new.ride = match[m].ride
    BY <1>0, <1>5, RequestTypes DEF MatchChairError, MatchRequest
  <2>2. match' = [match EXCEPT ![m] = new]
    BY <1>5 DEF MatchChairError
  <2>. HIDE DEF new
  <2>. QED  BY <1>0, <1>2, <1>5, <2>1, <2>2, RequestTypes DEF MatchChairError
<1>6. CASE MatchCheck(m)
  <2>. DEFINE assign == [match[m] EXCEPT !.op = "assign"]
              again  == [match[m] EXCEPT !.op = "pick", !.tries = match[m].tries + 1]
  <2>1. /\ assign \in MatchRequest /\ assign.ride = match[m].ride
        /\ again \in MatchRequest /\ again.ride = match[m].ride
    <3>1. match[m] \in [op : {"pick", "check", "assign"}, ride : Nat,
                        chair : ChairId, tries : Nat]
      BY <1>0, <1>6, RequestTypes DEF MatchCheck
    <3>2. [match[m] EXCEPT !.op = "assign"] \in MatchRequest
      BY <3>1 DEF MatchRequest
    <3>3. again \in MatchRequest
      <4>1. ASSUME NEW q \in [op : {"pick", "check", "assign"}, ride : Nat,
                              chair : ChairId, tries : Nat], NEW n \in Nat
            PROVE  [q EXCEPT !.op = "pick", !.tries = n]
                     \in [op : {"pick", "check", "assign"}, ride : Nat,
                         chair : ChairId, tries : Nat]
        OBVIOUS
      <4>2. match[m].tries + 1 \in Nat
        BY <3>1
      <4>3. again \in [op : {"pick", "check", "assign"}, ride : Nat,
                       chair : ChairId, tries : Nat]
        BY <3>1, <4>1, <4>2
      <4>. QED  BY <4>3, Zenon DEF MatchRequest
    <3>. QED  BY <3>1, <3>2, <3>3
  <2>2. \/ match' = [match EXCEPT ![m] = assign]
        \/ match' = [match EXCEPT ![m] = again]
        \/ match' = [match EXCEPT ![m] = Idle]
    <3>1. CASE Free(match[m].chair)
      BY <1>6, <3>1 DEF MatchCheck
    <3>2. CASE ~Free(match[m].chair) /\ match[m].tries + 1 < MaxTries
      BY <1>6, <3>2, Zenon DEF MatchCheck
    <3>3. CASE ~Free(match[m].chair) /\ ~(match[m].tries + 1 < MaxTries)
      BY <1>6, <3>3 DEF MatchCheck
    <3>. QED  BY <3>1, <3>2, <3>3
  <2>. HIDE DEF assign, again
  <2>3. match[m].ride \in RideIds
    BY <1>0, <1>6 DEF MatchCheck
  <2>4. UNCHANGED <<tables, userReq, chairReq, acked, payments, quoted>>
    BY <1>6 DEF MatchCheck
  <2>. QED  BY <1>2, <2>1, <2>2, <2>3, <2>4, RequestTypes
<1>7. CASE MatchAssign(m)
  <2>. DEFINE r == match[m].ride
              c == match[m].chair
  <2>1. r \in RideIds /\ c \in ChairId
    BY <1>0, <1>7 DEF MatchAssign
  <2>2. rides' \in Seq(Ride) /\ Len(rides') = Len(rides)
    <3>1. rides[r] \in Ride
      BY <2>1, ElementOfSeq DEF RideIds, RowsOK
    <3>2. rides' = [rides EXCEPT ![r] = [rides[r] EXCEPT !.chair = c]]
      BY <1>7 DEF MatchAssign
    <3>. HIDE DEF r, c
    <3>3. [rides[r] EXCEPT !.chair = c] \in Ride
      BY <2>1, <3>1 DEF Ride
    <3>. QED  BY <2>1, <3>2, <3>3, ExceptSeq DEF RideIds, RowsOK
  <2>3. updatedAt' \in Seq(Nat) /\ Len(updatedAt') = Len(updatedAt)
    BY <1>7, <2>1, TouchType DEF MatchAssign, RideIds, RowsOK
  <2>4. RowsOK' /\ RideIds \subseteq RideIds'
    BY <1>7, <2>2, <2>3 DEF RowsOK, RideIds, MatchAssign
  <2>5. MatchOK'
    BY <1>7, <2>4, RequestTypes, MatchReqStep DEF MatchAssign
  <2>. QED  BY <1>7, <2>4, <2>5, Kept DEF MatchAssign
<1>8. CASE MatchAbort(m)
  BY <1>2, <1>8, RequestTypes DEF MatchAbort
<1>. QED
  BY <1>1, <1>3, <1>4, <1>5, <1>6, <1>7, <1>8 DEF MatchStep

LEMMA NextType ==
  ASSUME Typed, [Next]_vars
  PROVE  Typed'
<1>1. CASE UNCHANGED vars
  BY <1>1, Kept DEF vars, Typed
<1>2. CASE Settled
  BY <1>2, Kept DEF Settled, vars, Typed
<1>. QED  BY <1>1, <1>2, UserType, ChairType, MatchType DEF Next

\* Whatever handlers interleave and whatever fails, every row and every
\* request in progress is of its type, and works on a ride that exists.
THEOREM TypesHold == Spec => []Typed
<1>. QED  BY InitType, NextType, PTL DEF Spec

THEOREM TypeCorrect == Spec => []TypeOK
<1>. QED  BY TypesHold, TypedIsTypeOK, PTL
=============================================================================
