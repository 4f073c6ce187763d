------------------------------ MODULE Dispatch ------------------------------
(***************************************************************************)
(* The dispatch core of the webapp: every handler that changes a ride, its *)
(* status log, its chair or its payment, over the tables rides,            *)
(* ride_statuses, chairs, coupons and payment_tokens.                      *)
(*                                                                         *)
(* Granularity.  The transactions run at InnoDB's REPEATABLE READ: plain   *)
(* SELECTs read a snapshot, locking reads and writes see the latest        *)
(* committed row.  A handler that checks a snapshot and writes later is    *)
(* one action per side of that gap (Begin / Commit), with what it          *)
(* remembers in userReq or chairReq; a handler that locks the ride row     *)
(* before it looks is one action.  The inserts of a transaction become     *)
(* visible at its commit and are ordered by it.                            *)
(*                                                                         *)
(* Clients.  A client works over connections, with one command at a time   *)
(* each (the benchmarker's users and chairs keep one), next to the         *)
(* notification stream they poll in parallel.                              *)
(***************************************************************************)
EXTENDS RideStatus, Coupons, PaymentContract, FiniteSets

CONSTANTS
  Users, Chairs,   \* the registered users and chairs
  NoChair,         \* chair_id IS NULL
  BlankChair,      \* chair_id = '', the id of a Chair no row was scanned into
  UserConns, ChairConns,   \* command connections of a user, and of a chair
  Matchers,        \* concurrent calls of GET /api/internal/matching
  CouponLists,     \* the coupons a user may hold when the run starts
  Distances,       \* distances between pickup and destination
  Evaluations,     \* the marks users give: a subset of 1..5
  MaxTries,        \* chairs one matching call looks at (10 in the code)
  MaxAttempts,     \* POST /payments of one evaluation (6 in the code)
  MaxRides, MaxStatuses, MaxPayments,   \* bounds of the instance
  Env              \* what the environment may do, a subset of EnvEvents

\* "abort": a transaction ends without commit (the client went away and its
\*          context is cancelled, the server stopped, the database failed);
\* "gateway": POST /payments fails, before or after it takes effect;
\* "reply_lost": the answer to a chair's ENROUTE is lost, so that it is sent again;
\* "deactivate": chairs go off duty again;
\* "db_error": the query for a chair in internalGetMatching fails.
EnvEvents == {"abort", "gateway", "reply_lost", "deactivate", "db_error"}

ASSUME DispatchAssumption ==
  /\ NoChair \notin Chairs /\ BlankChair \notin Chairs /\ NoChair # BlankChair
  /\ CouponLists \subseteq Seq(Coupon)
  /\ \A cs \in CouponLists : /\ \A i \in DOMAIN cs : cs[i].usedBy = NoRide
                            /\ OneCampaignCoupon(cs)
  /\ Distances \subseteq Nat
  /\ Evaluations \subseteq 1 .. 5
  /\ MaxTries \in Nat \ {0}
  /\ MaxAttempts \in Nat \ {0}
  /\ {MaxRides, MaxStatuses, MaxPayments} \subseteq Nat
  /\ Env \subseteq EnvEvents

VARIABLES
  rides,      \* table rides, in created_at order; a ride id is its index
  updatedAt,  \* rides.updated_at, as its rank among all rides
  log,        \* table ride_statuses: the rows of each ride in created_at order
  active,     \* chairs.is_active
  coupons,    \* table coupons, per user
  tokens,     \* users with a row in payment_tokens
  userReq,    \* the command in progress on each user connection
  chairReq,   \* the command in progress on each chair connection
  match,      \* the matching calls in progress
  acked,      \* <<chair, ride>>: the chair had an answer to its acceptance
  payments,   \* the payment service: the requests per user's token
  quoted      \* history: the fare answered to POST /rides

tables == <<rides, updatedAt, log, active, coupons, tokens>>
vars == <<rides, updatedAt, log, active, coupons, tokens, userReq, chairReq,
          match, acked, payments, quoted>>

-----------------------------------------------------------------------------
(* Rows and requests.                                                      *)

ChairId == Chairs \cup {BlankChair}

\* evaluation = 0 stands for NULL.
Ride == [user : Users, chair : ChairId \cup {NoChair}, distance : Nat,
         evaluation : 0 .. 5]

\* app and chair: whether app_sent_at and chair_sent_at are set.
StatusRow == [status : Status, app : BOOLEAN, chair : BOOLEAN]

Idle == [op |-> "idle"]

UserRequest ==
  {Idle}
    \cup [op : {"book"}, first : BOOLEAN]
    \cup [op : {"rate"}, stage : {"read", "locked", "paid"}, ride : Nat,
          evaluation : 1 .. 5, rides : Nat, token : BOOLEAN]

ChairRequest == {Idle} \cup [op : {"move"}, ride : Nat, status : Status]

MatchRequest ==
  {Idle} \cup [op : {"pick", "check", "assign"}, ride : Nat,
               chair : ChairId, tries : Nat]

\* listed: on record; otherwise the service still handles the request.
PaymentRequest == [ride : Nat, listed : BOOLEAN]

NewRow(status) == [status |-> status, app |-> FALSE, chair |-> FALSE]

-----------------------------------------------------------------------------
(* Queries.                                                                *)

RideIds == DOMAIN rides

RidesOf(u) == {r \in RideIds : rides[r].user = u}

RidesOfChair(c) == {r \in RideIds : rides[r].chair = c}

\* getLatestRideStatus.
LatestStatus(r) == log[r][Len(log[r])].status

\* The ride a user's, and a chair's, endpoint works on.
LatestOfUser(u) == {r \in RidesOf(u) : \A s \in RidesOf(u) : s <= r}

LatestOfChair(c) ==
  {r \in RidesOfChair(c) :
     \A s \in RidesOfChair(c) : updatedAt[s] <= updatedAt[r]}

\* Mutant: ORDER BY created_at DESC.
NewestUnsent(r, flag) ==
  {i \in DOMAIN log[r] :
     ~log[r][i][flag] /\ \A j \in DOMAIN log[r] : j > i => log[r][j][flag]}

\* The oldest row whose flag is not set yet.
OldestUnsent(r, flag) ==
  {i \in DOMAIN log[r] :
     ~log[r][i][flag] /\ \A j \in 1 .. i - 1 : log[r][j][flag]}

\* Mutant: the row of MATCHING is forgotten in the count.
FiveSent(r) == Cardinality({i \in DOMAIN log[r] : log[r][i].chair}) = FullLog - 1

\* The chair has been sent exactly FullLog rows of the ride.
FullySent(r) == Cardinality({i \in DOMAIN log[r] : log[r][i].chair}) = FullLog

\* Mutant: a chair is free before it has been sent COMPLETED.
FreeWhenCompleted(c) == \A r \in RidesOfChair(c) : LatestStatus(r) = "COMPLETED"

\* The check of internalGetMatching: no ride of the chair is unfinished.
Free(c) == \A r \in RidesOfChair(c) : FullySent(r)

FareOf(r) ==
  DiscountedFare(rides[r].distance, DiscountOf(coupons[rides[r].user], r))

\* POST /api/app/rides/estimated-fare: what a ride of this distance would cost
\* the user now.
EstimatedFare(u, distance) ==
  DiscountedFare(distance, EstimatedDiscount(coupons[u]))

\* GET /payments.
Listed(u) == {i \in DOMAIN payments[u] : payments[u][i].listed}

\* An evaluation holds the row lock of the ride it has updated.
Locked(r) ==
  \E q \in Users \X UserConns : /\ userReq[q].op = "rate"
                            /\ userReq[q].stage \in {"locked", "paid"}
                            /\ userReq[q].ride = r

-----------------------------------------------------------------------------
(* Writes.                                                                 *)

AddStatus(r, status) ==
  /\ Len(log[r]) < MaxStatuses
  /\ log' = [log EXCEPT ![r] = Append(@, NewRow(status))]

\* ON UPDATE CURRENT_TIMESTAMP: the ride becomes the one updated last.
Touch(r) ==
  updatedAt' = [s \in DOMAIN updatedAt |->
                  IF s = r THEN Len(updatedAt)
                  ELSE IF updatedAt[s] > updatedAt[r] THEN updatedAt[s] - 1
                  ELSE updatedAt[s]]

-----------------------------------------------------------------------------
(* Users.                                                                  *)

\* appPostPaymentMethods; a second registration violates the primary key.
RegisterPaymentMethod(u) ==
  /\ u \notin tokens
  /\ tokens' = tokens \cup {u}
  /\ UNCHANGED <<rides, updatedAt, log, active, coupons, userReq, chairReq,
                 match, acked, payments, quoted>>

\* Mutant: a ride that has arrived does not count as unfinished.
BookBeginArrived(u, k) ==
  /\ userReq[<<u, k>>] = Idle
  /\ Len(rides) < MaxRides
  /\ \A r \in RidesOf(u) : LatestStatus(r) \in {"ARRIVED", "COMPLETED"}
  /\ userReq' = [userReq EXCEPT
                   ![<<u, k>>] = [op |-> "book", first |-> RidesOf(u) = {}]]
  /\ UNCHANGED <<tables, chairReq, match, acked, payments, quoted>>

\* appPostRides up to the conflict check: the snapshot holds no ride of the
\* user that is not COMPLETED (409 otherwise).
BookBegin(u, k) ==
  /\ userReq[<<u, k>>] = Idle
  /\ Len(rides) < MaxRides
  /\ \A r \in RidesOf(u) : LatestStatus(r) = "COMPLETED"
  /\ userReq' = [userReq EXCEPT
                   ![<<u, k>>] = [op |-> "book", first |-> RidesOf(u) = {}]]
  /\ UNCHANGED <<tables, chairReq, match, acked, payments, quoted>>

\* The rest of appPostRides: the ride, its MATCHING row and the coupon, which
\* a locking read finds in the latest committed rows.
BookCommit(u, k) ==
  LET req == userReq[<<u, k>>]
      new == Len(rides) + 1
  IN  /\ req.op = "book"
      /\ new <= MaxRides
      /\ \E d \in Distances :
           /\ rides' = Append(rides, [user |-> u, chair |-> NoChair,
                                      distance |-> d, evaluation |-> 0])
           /\ coupons' = [coupons EXCEPT ![u] = Redeem(@, req.first, new)]
           /\ quoted' = Append(quoted,
                          DiscountedFare(d, DiscountOf(coupons'[u], new)))
      /\ updatedAt' = Append(updatedAt, new)
      /\ log' = Append(log, <<NewRow("MATCHING")>>)
      /\ userReq' = [userReq EXCEPT ![<<u, k>>] = Idle]
      /\ UNCHANGED <<active, tokens, chairReq, match, acked, payments>>

\* Mutant: any ride can be rated.
RateBeginUnchecked(u, k, r, e) ==
  /\ userReq[<<u, k>>] = Idle
  /\ r \in RidesOf(u)
  /\ userReq' = [userReq EXCEPT
                   ![<<u, k>>] = [op |-> "rate", stage |-> "read", ride |-> r,
                                  evaluation |-> e,
                                  rides |-> Cardinality(RidesOf(u)),
                                  token |-> u \in tokens]]
  /\ UNCHANGED <<tables, chairReq, match, acked, payments, quoted>>

\* appPostRideEvaluatation up to the status check; the snapshot fixes the
\* payment token and the list of rides the gateway's answer is compared with.
RateBegin(u, k, r, e) ==
  /\ userReq[<<u, k>>] = Idle
  /\ r \in RidesOf(u)
  /\ LatestStatus(r) = "ARRIVED"
  /\ userReq' = [userReq EXCEPT
                   ![<<u, k>>] = [op |-> "rate", stage |-> "read", ride |-> r,
                                  evaluation |-> e,
                                  rides |-> Cardinality(RidesOf(u)),
                                  token |-> u \in tokens]]
  /\ UNCHANGED <<tables, chairReq, match, acked, payments, quoted>>

\* Mutant: the UPDATE looks at the row without waiting for its lock.
RateUpdateUnlocked(u, k) ==
  LET req == userReq[<<u, k>>]
      refused == rides[req.ride].evaluation = req.evaluation \/ ~req.token
  IN  /\ req.op = "rate" /\ req.stage = "read"
      /\ userReq' = [userReq EXCEPT
                       ![<<u, k>>] = IF refused THEN Idle
                                     ELSE [req EXCEPT !.stage = "locked"]]
      /\ UNCHANGED <<tables, chairReq, match, acked, payments, quoted>>

\* UPDATE rides SET evaluation: waits for the row lock.  No affected row (the
\* committed evaluation is the same) is a 404, no payment token a 400: both
\* roll back.
RateUpdate(u, k) ==
  LET req == userReq[<<u, k>>]
      refused == rides[req.ride].evaluation = req.evaluation \/ ~req.token
  IN  /\ req.op = "rate" /\ req.stage = "read"
      /\ ~Locked(req.ride)
      /\ userReq' = [userReq EXCEPT
                       ![<<u, k>>] = IF refused THEN Idle
                                     ELSE [req EXCEPT !.stage = "locked"]]
      /\ UNCHANGED <<tables, chairReq, match, acked, payments, quoted>>

\* Mutant: a failed attempt is taken for a payment without asking.
GatewayUnchecked(listed, rideCount) ==
  [charged : 0 .. MaxAttempts, late : {0}, ok : BOOLEAN]

\* What requestPaymentGatewayPostPayment may come back with.
GatewayOutcomes(listed, rideCount) ==
  IF "gateway" \in Env THEN ChargeOutcomes(MaxAttempts, listed, rideCount)
                       ELSE {[charged |-> 1, late |-> 0, ok |-> TRUE]}

RatePay(u, k) ==
  LET req == userReq[<<u, k>>]
  IN  /\ req.op = "rate" /\ req.stage = "locked"
      /\ \E o \in GatewayOutcomes(Cardinality(Listed(u)), req.rides) :
           /\ Len(payments[u]) + o.charged + o.late <= MaxPayments
           /\ payments' = [payments EXCEPT
                ![u] = @ \o [i \in 1 .. o.charged + o.late |->
                               [ride |-> req.ride, listed |-> i <= o.charged]]]
           /\ userReq' = [userReq EXCEPT
                            ![<<u, k>>] = IF o.ok
                                          THEN [req EXCEPT !.stage = "paid"]
                                          ELSE Idle]
      /\ UNCHANGED <<tables, chairReq, match, acked, quoted>>

\* The service records a payment whose caller has stopped waiting for it.
LatePayment(u) ==
  /\ \E i \in DOMAIN payments[u] \ Listed(u) :
       payments' = [payments EXCEPT ![u][i].listed = TRUE]
  /\ UNCHANGED <<tables, userReq, chairReq, match, acked, quoted>>

RateCommit(u, k) ==
  LET req == userReq[<<u, k>>]
  IN  /\ req.op = "rate" /\ req.stage = "paid"
      /\ rides' = [rides EXCEPT ![req.ride].evaluation = req.evaluation]
      /\ Touch(req.ride)
      /\ AddStatus(req.ride, "COMPLETED")
      /\ userReq' = [userReq EXCEPT ![<<u, k>>] = Idle]
      /\ UNCHANGED <<active, coupons, tokens, chairReq, match, acked, payments,
                     quoted>>

\* The deferred tx.Rollback of a handler that stops before its commit.
UserAbort(u, k) ==
  /\ "abort" \in Env
  /\ userReq[<<u, k>>] # Idle
  /\ userReq' = [userReq EXCEPT ![<<u, k>>] = Idle]
  /\ UNCHANGED <<tables, chairReq, match, acked, payments, quoted>>

\* appGetNotification when there is a row to send; otherwise it answers with
\* the latest status and changes nothing.  A chair no row of chairs has is a 500
\* that leaves the row unsent.
AppNotify(u) ==
  /\ \E r \in LatestOfUser(u) : \E i \in OldestUnsent(r, "app") :
       /\ rides[r].chair # BlankChair
       /\ log' = [log EXCEPT ![r][i].app = TRUE]
  /\ UNCHANGED <<rides, updatedAt, active, coupons, tokens, userReq, chairReq,
                 match, acked, payments, quoted>>

-----------------------------------------------------------------------------
(* Chairs.                                                                 *)

\* chairPostActivity.
SetActivity(c, on) ==
  /\ active[c] # on
  /\ on \/ "deactivate" \in Env
  /\ active' = [active EXCEPT ![c] = on]
  /\ UNCHANGED <<rides, updatedAt, log, coupons, tokens, userReq, chairReq,
                 match, acked, payments, quoted>>

\* The chair has learnt the ride's id from a notification.
Knows(c, r) == r \in RidesOfChair(c) /\ log[r][1].chair

\* chairPostRideStatus "ENROUTE": locks the ride, looks at no status.
Accept(c, k, r) ==
  /\ chairReq[<<c, k>>] = Idle
  /\ Knows(c, r) /\ <<c, r>> \notin acked /\ ~Locked(r)
  /\ AddStatus(r, "ENROUTE")
  /\ \/ acked' = acked \cup {<<c, r>>}
     \/ "reply_lost" \in Env /\ UNCHANGED acked
  /\ UNCHANGED <<rides, updatedAt, active, coupons, tokens, userReq, chairReq,
                 match, payments, quoted>>

\* chairPostRideStatus "CARRYING": 400 unless the latest status is PICKUP.
Depart(c, k, r) ==
  /\ chairReq[<<c, k>>] = Idle
  /\ Knows(c, r) /\ ~Locked(r)
  /\ LatestStatus(r) = "PICKUP"
  /\ AddStatus(r, "CARRYING")
  /\ UNCHANGED <<rides, updatedAt, active, coupons, tokens, userReq, chairReq,
                 match, acked, payments, quoted>>

\* chairPostCoordinate up to its reads, for a position that changes the state
\* of the ride: the pickup point when ENROUTE, the destination when CARRYING.
MoveBegin(c, k) ==
  /\ chairReq[<<c, k>>] = Idle
  /\ \E r \in LatestOfChair(c) :
       \E step \in {<<"ENROUTE", "PICKUP">>, <<"CARRYING", "ARRIVED">>} :
         /\ LatestStatus(r) = step[1]
         /\ chairReq' = [chairReq EXCEPT
                           ![<<c, k>>] = [op |-> "move", ride |-> r,
                                          status |-> step[2]]]
  /\ UNCHANGED <<tables, userReq, match, acked, payments, quoted>>

MoveCommit(c, k) ==
  LET req == chairReq[<<c, k>>]
  IN  /\ req.op = "move"
      /\ AddStatus(req.ride, req.status)
      /\ chairReq' = [chairReq EXCEPT ![<<c, k>>] = Idle]
      /\ UNCHANGED <<rides, updatedAt, active, coupons, tokens, userReq, match,
                     acked, payments, quoted>>

ChairAbort(c, k) ==
  /\ "abort" \in Env
  /\ chairReq[<<c, k>>] # Idle
  /\ chairReq' = [chairReq EXCEPT ![<<c, k>>] = Idle]
  /\ UNCHANGED <<tables, userReq, match, acked, payments, quoted>>

\* chairGetNotification when there is a row to send.
ChairNotify(c) ==
  /\ \E r \in LatestOfChair(c) : \E i \in OldestUnsent(r, "chair") :
       log' = [log EXCEPT ![r][i].chair = TRUE]
  /\ UNCHANGED <<rides, updatedAt, active, coupons, tokens, userReq, chairReq,
                 match, acked, payments, quoted>>

-----------------------------------------------------------------------------
(* internalGetMatching: four statements outside any transaction.           *)

\* The ride that has waited longest.
MatchRide(m) ==
  /\ match[m] = Idle
  /\ \E r \in RidesOfChair(NoChair) :
       /\ \A s \in RidesOfChair(NoChair) : r <= s
       /\ match' = [match EXCEPT ![m] = [op |-> "pick", ride |-> r,
                                         chair |-> BlankChair, tries |-> 0]]
  /\ UNCHANGED <<tables, userReq, chairReq, acked, payments, quoted>>

\* A random active chair; without one the call ends.
MatchChair(m, c) ==
  /\ match[m].op = "pick"
  /\ active[c]
  /\ match' = [match EXCEPT ![m] = [@ EXCEPT !.op = "check", !.chair = c]]
  /\ UNCHANGED <<tables, userReq, chairReq, acked, payments, quoted>>

MatchNoChair(m) ==
  /\ match[m].op = "pick"
  /\ \A c \in Chairs : ~active[c]
  /\ match' = [match EXCEPT ![m] = Idle]
  /\ UNCHANGED <<tables, userReq, chairReq, acked, payments, quoted>>

\* The query fails: the handler answers 500 but goes on with the chair it
\* scanned last, or with a blank one.
MatchChairError(m) ==
  /\ "db_error" \in Env
  /\ match[m].op = "pick"
  /\ match' = [match EXCEPT ![m].op = "check"]
  /\ UNCHANGED <<tables, userReq, chairReq, acked, payments, quoted>>

\* Mutant: after the last try the loop is left with a chair that is not free.
MatchCheckFallsThrough(m) ==
  LET req == match[m]
  IN  /\ req.op = "check"
      /\ match' = [match EXCEPT
                     ![m] = IF Free(req.chair) \/ req.tries + 1 = MaxTries
                            THEN [req EXCEPT !.op = "assign"]
                            ELSE [req EXCEPT !.op = "pick",
                                             !.tries = req.tries + 1]]
      /\ UNCHANGED <<tables, userReq, chairReq, acked, payments, quoted>>

MatchCheck(m) ==
  LET req == match[m]
  IN  /\ req.op = "check"
      /\ match' = [match EXCEPT
                     ![m] = IF Free(req.chair) THEN [req EXCEPT !.op = "assign"]
                            ELSE IF req.tries + 1 < MaxTries
                            THEN [req EXCEPT !.op = "pick",
                                             !.tries = req.tries + 1]
                            ELSE Idle]
      /\ UNCHANGED <<tables, userReq, chairReq, acked, payments, quoted>>

\* Mutant: the assignment does not count as an update of the ride.
MatchAssignUntouched(m) ==
  LET req == match[m]
  IN  /\ req.op = "assign"
      /\ ~Locked(req.ride)
      /\ rides' = [rides EXCEPT ![req.ride].chair = req.chair]
      /\ match' = [match EXCEPT ![m] = Idle]
      /\ UNCHANGED <<updatedAt, log, active, coupons, tokens, userReq, chairReq,
                     acked, payments, quoted>>

\* UPDATE rides SET chair_id: unconditional, waits for the row lock.
MatchAssign(m) ==
  LET req == match[m]
  IN  /\ req.op = "assign"
      /\ ~Locked(req.ride)
      /\ rides' = [rides EXCEPT ![req.ride].chair = req.chair]
      /\ IF rides[req.ride].chair = req.chair THEN UNCHANGED updatedAt
                                              ELSE Touch(req.ride)
      /\ match' = [match EXCEPT ![m] = Idle]
      /\ UNCHANGED <<log, active, coupons, tokens, userReq, chairReq, acked,
                     payments, quoted>>

MatchAbort(m) ==
  /\ "abort" \in Env
  /\ match[m] # Idle
  /\ match' = [match EXCEPT ![m] = Idle]
  /\ UNCHANGED <<tables, userReq, chairReq, acked, payments, quoted>>

-----------------------------------------------------------------------------
Init ==
  /\ rides = <<>>
  /\ updatedAt = <<>>
  /\ log = <<>>
  /\ active = [c \in Chairs |-> FALSE]
  /\ coupons \in [Users -> CouponLists]
  /\ tokens = {}
  /\ userReq = [q \in Users \X UserConns |-> Idle]
  /\ chairReq = [q \in Chairs \X ChairConns |-> Idle]
  /\ match = [m \in Matchers |-> Idle]
  /\ acked = {}
  /\ payments = [u \in Users |-> <<>>]
  /\ quoted = <<>>

UserStep(u) ==
  \/ RegisterPaymentMethod(u)
  \/ AppNotify(u)
  \/ LatePayment(u)
  \/ \E k \in UserConns :
       \/ BookBegin(u, k) \/ BookCommit(u, k)
       \/ \E r \in RideIds, e \in Evaluations : RateBegin(u, k, r, e)
       \/ RateUpdate(u, k) \/ RatePay(u, k) \/ RateCommit(u, k)
       \/ UserAbort(u, k)

ChairStep(c) ==
  \/ \E on \in BOOLEAN : SetActivity(c, on)
  \/ ChairNotify(c)
  \/ \E k \in ChairConns :
       \/ \E r \in RideIds : Accept(c, k, r) \/ Depart(c, k, r)
       \/ MoveBegin(c, k) \/ MoveCommit(c, k) \/ ChairAbort(c, k)

MatchStep(m) ==
  \/ MatchRide(m)
  \/ \E c \in Chairs : MatchChair(m, c)
  \/ MatchNoChair(m) \/ MatchChairError(m)
  \/ MatchCheck(m) \/ MatchAssign(m) \/ MatchAbort(m)

\* Polls that find nothing to send: the only step left once every ride the
\* bounds allow is over, or one waits for a blank chair, so that TLC reports any
\* other standstill.
Settled ==
  /\ \/ \E r \in RideIds : Len(log[r]) = MaxStatuses
     \/ \E r \in RideIds : rides[r].chair = BlankChair
     \/ /\ Len(rides) = MaxRides
        /\ \A r \in RideIds : LatestStatus(r) = "COMPLETED" /\ FullySent(r)
        /\ \A u \in Users : \A r \in LatestOfUser(u) : OldestUnsent(r, "app") = {}
  /\ UNCHANGED vars

Next ==
  \/ \E u \in Users : UserStep(u)
  \/ \E c \in Chairs : ChairStep(c)
  \/ \E m \in Matchers : MatchStep(m)
  \/ Settled

Spec == Init /\ [][Next]_vars

\* The matcher unit polls for ever and ORDER BY RAND() passes over no active
\* chair for ever; notifications are polled for ever; chairs go on duty, accept
\* and drive, users rate, and a handler that has started runs to its end.
\* Nobody is obliged to request a ride or to go off duty.
Fairness ==
  /\ \A m \in Matchers :
       /\ WF_vars(MatchRide(m)) /\ WF_vars(MatchCheck(m))
       /\ WF_vars(MatchAssign(m)) /\ WF_vars(MatchNoChair(m))
       /\ \A c \in Chairs : SF_vars(MatchChair(m, c))
  /\ \A c \in Chairs :
       /\ WF_vars(SetActivity(c, TRUE)) /\ WF_vars(ChairNotify(c))
       /\ \A k \in ChairConns :
            /\ WF_vars(\E r \in RideIds : Accept(c, k, r))
            /\ WF_vars(\E r \in RideIds : Depart(c, k, r))
            /\ WF_vars(MoveBegin(c, k)) /\ WF_vars(MoveCommit(c, k))
  /\ \A u \in Users :
       /\ WF_vars(RegisterPaymentMethod(u)) /\ WF_vars(AppNotify(u))
       /\ \A k \in UserConns :
            /\ WF_vars(\E r \in RideIds, e \in Evaluations : RateBegin(u, k, r, e))
            /\ WF_vars(RateUpdate(u, k)) /\ WF_vars(RatePay(u, k))
            /\ WF_vars(RateCommit(u, k)) /\ WF_vars(BookCommit(u, k))

FairSpec == Spec /\ Fairness

-----------------------------------------------------------------------------
(* Properties.                                                             *)

\* One client per user and chair and one matching call at a time, as in the
\* benchmarker and the matcher unit, and no acceptance sent twice.  The last is
\* an assumption on the network: a chair of the benchmarker that gets no answer
\* in time sends its acceptance again, whether it took effect or not.
Serial ==
  /\ \A j, k \in UserConns : j = k
  /\ \A j, k \in ChairConns : j = k
  /\ \A l, m \in Matchers : l = m
  /\ "reply_lost" \notin Env

TypeOK ==
  /\ rides \in Seq(Ride)
  /\ updatedAt \in Seq(Nat) /\ Len(updatedAt) = Len(rides)
  /\ log \in Seq(Seq(StatusRow)) /\ Len(log) = Len(rides)
  /\ active \in [Chairs -> BOOLEAN]
  /\ coupons \in [Users -> Seq(Coupon)]
  /\ tokens \subseteq Users
  /\ userReq \in [Users \X UserConns -> UserRequest]
  /\ chairReq \in [Chairs \X ChairConns -> ChairRequest]
  /\ match \in [Matchers -> MatchRequest]
  /\ acked \subseteq Chairs \X Nat
  /\ payments \in [Users -> Seq(PaymentRequest)]
  /\ quoted \in Seq(Nat) /\ Len(quoted) = Len(rides)

Completed(r) == LatestStatus(r) = "COMPLETED"

\* The rows of a ride run through the six states in order, none skipped and
\* none repeated, whatever handlers of user, chair and matcher interleave.
StatusLogIsPath ==
  \A r \in RideIds : /\ Len(log[r]) \in 1 .. FullLog
                     /\ \A i \in DOMAIN log[r] : log[r][i].status = Flow[i]

\* A user never has two rides that are not COMPLETED, although appPostRides
\* checks a snapshot and inserts later.
OneOpenRidePerUser ==
  \A r, s \in RideIds :
    r # s /\ rides[r].user = rides[s].user => Completed(r) \/ Completed(s)

\* A chair never has two unfinished rides, although internalGetMatching
\* checks and assigns in separate statements.
OneOpenRidePerChair ==
  \A r, s \in RideIds :
    r # s /\ rides[r].chair = rides[s].chair /\ rides[r].chair # NoChair
      => FullySent(r) \/ FullySent(s)

\* Every endpoint of a user or a chair works on "the latest" ride, by
\* created_at or updated_at: that is the unfinished one, if there is one.
OpenRideIsLatest ==
  \A r \in RideIds :
    /\ ~Completed(r) => r \in LatestOfUser(rides[r].user)
    /\ rides[r].chair # NoChair /\ ~FullySent(r)
         => LatestOfChair(rides[r].chair) = {r}

\* A ride gets one chair, once, and the chair has by then been told every
\* state of each of its earlier rides.
AssignedOnceToFreeChair ==
  [][\A r \in RideIds :
       rides'[r].chair # rides[r].chair
         => rides[r].chair = NoChair /\ Free(rides'[r].chair)]_vars

Follows(next, status) ==
  \E k \in 1 .. FullLog - 1 : status = Flow[k] /\ next = Flow[k + 1]

\* A ride enters no state before the one that leads to it, even if commands of a
\* client overlap and acceptances are sent again, which lets states be entered
\* twice: the status a handler has checked may be outdated when it writes.
NoStateSkipped ==
  \A r \in RideIds :
    /\ log[r][1].status = "MATCHING"
    /\ \A i \in 2 .. Len(log[r]) :
         \E j \in 1 .. i - 1 : Follows(log[r][i].status, log[r][j].status)

\* Of two evaluations that both saw ARRIVED, the one that had to wait completes
\* the ride a second time only if it gives another mark: with the same mark its
\* UPDATE, which sees what the first one committed, affects no row.
CompletedAgainByNewMark ==
  [][\A r \in RideIds : \A i \in DOMAIN log'[r] \ DOMAIN log[r] :
       log'[r][i].status = "COMPLETED"
         => rides'[r].evaluation # rides[r].evaluation]_vars

\* The fare computed for a ride (notifications, history, evaluation) is the
\* one answered when it was requested: coupons never move between rides.
QuoteHonoured == \A r \in RideIds : FareOf(r) = quoted[r]

\* A ride is requested at the fare an estimate gives at that moment, although
\* the estimate prefers the campaign coupon always, and the request only when
\* its snapshot holds no other ride of the user.
EstimateHonoured ==
  [][\A r \in RideIds' \ RideIds :
       quoted'[r] = EstimatedFare(rides'[r].user, rides'[r].distance)]_vars

CompletedRidesOf(u) == {r \in RidesOf(u) : Completed(r)}

Charges(u, r) == Cardinality({i \in Listed(u) : payments[u][i].ride = r})

\* A user has made at least as many payments as they have completed rides,
\* whatever the gateway answers and wherever a transaction stops: for serial
\* clients, and, if a user's commands overlap, as long as one chair serves them.
\* (With two chairs, of two rides requested at the same time one can be completed
\* on the other's payment, by an evaluation that counts the rides too early.)
PaidAsOftenAsCompleted ==
  \A u \in Users : Cardinality(CompletedRidesOf(u)) <= Cardinality(Listed(u))

\* docs/ISURIDE.md: retrying only what did not complete avoids duplicates.
NoDuplicatePayment == \A u \in Users : \A r \in RidesOf(u) : Charges(u, r) <= 1

Told(r, flag) == \A i \in DOMAIN log[r] : log[r][i][flag]

NewlyTold(r, i, flag) == log'[r][i][flag] /\ ~log[r][i][flag]

\* A chair is told every state of every ride in the order they happened: never
\* one of a ride before all those of the rides it had before.
ChairToldInOrder ==
  [][\A r \in RideIds : \A i \in DOMAIN log[r] :
       NewlyTold(r, i, "chair")
         => /\ \A j \in 1 .. i - 1 : log[r][j].chair
            /\ \A s \in RidesOfChair(rides[r].chair) :
                 updatedAt[s] < updatedAt[r] => Told(s, "chair")]_vars

\* A ride that left the pool of waiting rides has a row of chairs behind it.
AssignedToRegisteredChair ==
  \A r \in RideIds : rides[r].chair \in Chairs \cup {NoChair}

\* A coupon pays for one ride and a ride uses one coupon, even when a user's
\* transactions overlap.
OneCouponPerRide ==
  /\ \A u \in Users : \A i, j \in DOMAIN coupons[u] :
       i # j /\ coupons[u][i].usedBy # NoRide
         => coupons[u][i].usedBy # coupons[u][j].usedBy
  /\ \A u \in Users : \A i \in DOMAIN coupons[u] :
       coupons[u][i].usedBy \in RidesOf(u) \cup {NoRide}

\* Every ride requested is completed in the end.
EveryRideCompletes ==
  \A r \in 1 .. MaxRides : r \in RideIds ~> r \in RideIds /\ Completed(r)

\* Every chair that takes a ride becomes available to internalGetMatching again.
EveryChairIsReleased == \A c \in Chairs : ~Free(c) ~> Free(c)

-----------------------------------------------------------------------------
(* The abstract service.                                                   *)

Trips == [r \in RideIds |-> [user |-> rides[r].user, chair |-> rides[r].chair,
                             status |-> LatestStatus(r)]]

Service == INSTANCE RideService WITH Chairs <- ChairId, trips <- Trips

\* The handlers implement the ride life cycle of docs/ISURIDE.md.
ImplementsRideService == Service!Spec
=============================================================================
