# ISURIDE in TLA+

ISURIDE (`src/home/isucon`) is a chair-hailing service: a Go web application
over MySQL, a systemd unit that polls it to match rides with chairs, a payment
service with an unstable infrastructure, and a benchmarker that simulates users
and chairs and plays the payment service. This directory holds its formal
models, the TLC runs that check them and the proofs that hold for every size of
the system. Paths below are relative to `src/home/isucon`.

## Inventory

| component | state | operations | what makes it correct |
|---|---|---|---|
| ride dispatch (`webapp/go/app_handlers.go`, `chair_handlers.go`, `internal_handlers.go`) | tables `rides`, `ride_statuses`, `chairs.is_active`, `payment_tokens` | request, match, accept, move, depart, evaluate, notify | six states in order; one open ride per user and per chair; a ride assigned once, to a free chair; a chair told everything in order; every ride completes |
| coupons and fares (`app_handlers.go`, `owner_handlers.go`) | table `coupons` | grant, redeem, estimate, discount | a coupon pays for one ride; a ride costs what an estimate says, and later what it was requested at |
| payment gateway client (`payment_gateway.go`) | a call in progress | POST, compare with GET, retry | charged once; bounded retries; ends |
| payment service (`bench/payment`) | known keys, processed payments, retry counts | POST and GET /payments | 204 means recorded; a repetition adds no payment to one on record; the lock means in progress |
| registration (`app_handlers.go` `appPostUsers`) | tables `users`, `coupons` | register, invite, reward | three invitations per code; one reward each; registrations end |
| owners' sales and distances (`owner_handlers.go`, `chair_handlers.go`) | tables `chair_locations`, `rides` | record a coordinate, list chairs, serve sales | aggregates equal what the chairs have driven and the users have paid |
| owner and chair registration, history, nearby chairs, authentication | tables `owners`, `chairs` | inserts and reads | unique keys |
| benchmarker world (`bench/benchmarker/world/user.go`, `chair.go`, `request.go`, `world.go`) | requests with three statuses and a lock, users and chairs with notification queues, errors | tick, handle notification, call the server | every notification the server may send is accepted; the three statuses agree with the server's; nobody waits for ever |
| benchmarker geometry (`coordinate.go`, `chair_routes.go`) | positions over time | move, detour, distance until a time | a chair arrives, in a time that is known; it is never listed where it has not been |
| benchmarker owners (`owner.go`) | an audit in progress | read the server's answer and the own totals | a correct server is rejected only in known races |
| benchmarker scenario, clients, command line, generated code | - | HTTP, validation, reporting | - |

The parts meet in four places. All handlers of the web application share the
database, whose transactions run at REPEATABLE READ: a plain SELECT reads a
snapshot, a locking read or a write the latest committed row. The evaluation of
a ride calls the payment service over HTTP while its transaction is open. And
clients learn what happened only from notifications, which are polled and which
set `app_sent_at` and `chair_sent_at`; the latter decides whether a chair may
get another ride. The benchmarker keeps its own picture of every ride, updated
by the answers to its calls and by notifications, which overtake one another, and
ends the run when the two pictures differ.

What is hard: handlers that check a snapshot and write later; matching, which
is four statements without a transaction; a payment that is made before the
commit of the transaction it belongs to; a loop that infers from two counts
whether a failed attempt was one; a service that records a payment and answers
with an error; locks of a scan without an index; "the latest ride", by two
different columns; and, in the benchmarker, comparing a server's answer with a
state that changes while the comparison is made. `PROJECT.json` lists each of them with its line under
`hazards`.

## Modules

| module | what it is | code |
|---|---|---|
| `RideStatus` | the six states and their order | `ride_statuses.status` |
| `Coupons` | redemption, estimate and discounted fare, as functions | `appPostRides` 358-416, `calculateDiscountedFare` |
| `PaymentContract` | what one call of the gateway client may come back with | `requestPaymentGatewayPostPayment` |
| `RideService` | abstract: request, assign, advance, each in one step | the ride life cycle of `docs/ISURIDE.md` |
| `Dispatch` | every handler that writes a ride, its log, its chair or its payment | the three handler files |
| `DispatchInvariant` | the inductive invariant | |
| `DispatchTypes_proofs`, `DispatchFares_proofs`, `DispatchSafety_proofs` | theorems about `Dispatch`: types; what holds for any clients; what holds for serial ones | |
| `PaymentServer` | the payment service, one access to shared data per step | `bench/payment/handler.go` |
| `PaymentServer_proofs` | theorems about `PaymentServer` | |
| `PaymentGateway` | the retry loop, composed with `PaymentServer` | `payment_gateway.go` |
| `PaymentGateway_proofs` | theorems about the loop | |
| `Registration` | registration with its locks | `appPostUsers` |
| `Registration_proofs` | theorems about `Registration` | |
| `World` | users and chairs of the benchmarker, composed with the server's promises | `world/user.go`, `chair.go`, `request.go`, `world.go`, `scenario/worldclient` |
| `World_proofs` | theorems about `World` | |
| `Geometry` | coordinates, moves, detours, as functions | `world/coordinate.go` |
| `Driving` | a chair on its way, the rows the server keeps of it, the audit of its distance | `world/chair.go`, `chair_routes.go`, `owner.go`; `chairPostCoordinate`, `ownerGetChairs` |
| `Sales` | evaluations in progress, the sales served, their audit | `ownerGetSales`, `world/owner.go` |
| `Audits` | composes `Driving` and `Sales` as an owner's hour | `Owner.Tick` |
| `Audits_proofs` | theorems about moves, `Driving`, `Sales` and `Audits` | |
| `MC*` | instances for TLC | |

### Dispatch

`rides` is the table in `created_at` order, so a ride's id is its index; `log[r]`
holds the status rows of ride `r`; `updatedAt` ranks the rides by `updated_at`,
and `Touch` is MySQL's ON UPDATE CURRENT_TIMESTAMP. `userReq`, `chairReq` and
`match` hold what a handler in progress has read and will use after it.

| action | handler |
|---|---|
| `RegisterPaymentMethod` | `appPostPaymentMethods` |
| `BookBegin`, `BookCommit` | `appPostRides`: check of the snapshot; inserts, coupon, commit |
| `RateBegin`, `RateUpdate`, `RatePay`, `RateCommit` | `appPostRideEvaluatation`: reads; UPDATE that takes the row lock, payment token; payment; commit |
| `LatePayment` | a payment recorded after its caller gave up |
| `AppNotify`, `ChairNotify` | the two notification endpoints when a row is unsent |
| `SetActivity` | `chairPostActivity` |
| `Accept`, `Depart` | `chairPostRideStatus`, which locks the ride first |
| `MoveBegin`, `MoveCommit` | `chairPostCoordinate` at the pickup point or the destination |
| `MatchRide`, `MatchChair`, `MatchNoChair`, `MatchChairError`, `MatchCheck`, `MatchAssign` | the statements of `internalGetMatching` |
| `UserAbort`, `ChairAbort`, `MatchAbort` | the deferred rollback, or the end of the handler |

Choices worth knowing:

- The rows of a transaction are ordered by its commit. The code orders them by
  the time of their INSERT; the two differ only while a transaction of the same
  ride or user is open. Two rows never share a microsecond.
- A request that is refused, and a poll that finds nothing to send, change
  nothing and are left out. `Settled` stands for such polls at the end, so that
  TLC's deadlock check still finds every other standstill.
- A notification is one step: its row is marked at the time of its snapshot.
  Nothing that could intervene reads the difference, since a chair with an
  unsent row is not free and a client polls one stream.
- `appPostRideEvaluatation` does not look who owns the ride. Users of the model
  rate their own rides, since nobody else learns a ride's id.
- Chair positions are abstract: a chair may arrive when its ride is ENROUTE or
  CARRYING, for the handler compares coordinates only then.
- An estimate changes nothing, so it is no action but the operator
  `EstimatedFare`, which `EstimateHonoured` compares with every booking.
- `RatePay` takes the whole retry loop as one step whose outcomes are
  `ChargeOutcomes`. The run `gateway_calls` shows that the loop keeps to them.
- The tokens of users are known to the payment service. With one that is not
  (`Registered` without it in `PaymentGateway`), the service answers 400, lists
  the payment all the same, and the count of payments accepts the ride.

### PaymentServer and PaymentGateway

The maps and the slice of the service lock each access, not a sequence, so each
access is a step of `PaymentServer`: the retry count is read in one and written
in the next. A draw may always fail, since the failure rate is never below one in
a hundred, unless the count forces it. Verification is reduced to whether the
token is known: the check of the amount (`world/payment.go:28`) is a conjunction
no amount satisfies. `PostPaymentsHandler` writes `Token` and `Amount` of a new
key without a lock, and the model in two steps in either order, so that a
comparison may see one without the other. A string torn between its two words is
not modelled. Nothing rejects an empty token or the amount 0, and both equal a field
that is not written yet, so a repetition that sends one may pass the comparison
while the payload is half written: `OkMeansPaid` says what a 204 proves all the
same, and that a field sent empty by a repetition (`Agrees`) is not part of it. A
payment on record is a pointer to the one registered under its key, so what is
written there later shows in the record (`Payload`), and the answer to a later
request with the key is the status of that payment.

`PaymentGateway` EXTENDS `PaymentServer`: the slots of the service also handle
requests whose caller stopped waiting (`OrphanEnds`). Its users request a ride
only when the last one is completed, which is what `Dispatch` shows of them.

### Registration

A user is identified with their invitation code. `Scan` is the locking read: the
table has no index on `code`, so under REPEATABLE READ it locks every row and
gap, waits for all uncommitted rows of others, and keeps others from inserting
until its transaction ends. `DeadlockVictim` is InnoDB's answer to two scans
that wait for each other.

### World

A `Request` carries three statuses: `user` and `chair` are what each side has
been told or has done, `desired` what the server should say. Each entity is a
sequential process, since a tick that still runs is skipped; it is split at its
HTTP calls, between which the server and the others go on (`UserBook` and
`UserBooked`, `ChairAccept` and `ChairAccepted`, and so on). `holder` is the
write lock of a request's statuses, which evaluation and acceptance keep during
their call. `UserHandle` and `ChairHandle` take one notification off the queue
before the tick acts; each disjunct is one way out of `HandleNotification`, with
the error it returns. `UserPoll` and `ChairPoll` are a poll together with its
receiver, which waits for room in the queue; `LateAnswer` is the answer to a poll
whose stream was closed meanwhile.

The server is reduced to what `Dispatch` shows of it for such clients: the log of
a ride is a prefix of the path (`StatusLogIsPath`), told in order
(`ChairToldInOrder`), with one open ride each. `Match` serves the oldest ride
that waits, as `internalGetMatching` does. The faults a behaviour may have are
calls that are refused without effect, answers to polls that are lost after their
row was marked as sent, and an evaluation accepted without a payment.

An acceptance, departure or evaluation that takes effect and whose answer is lost
is not among them, although the client's call returns an error for it too
(`chair.go:122`, `185`, `user.go:177`; requests time out after 10 seconds,
`webapp/client.go:39`). `World` cannot say what follows, because the log is then no
prefix of the path or the ride stops: an acceptance is sent again and adds a second
ENROUTE, after which the chair is never free again (`"reply_lost"` in `Dispatch`);
a departure sent again is refused, and once the user has been told CARRYING the
chair does not try any more and waits for ever (`chair.go:178`); an evaluation sent
again is refused, and the COMPLETED the user is then told of, or the time-out
itself, is a critical error. A coordinate that is sent again adds a row but no state, which is
modelled in `Driving`. So `OnlyFaultsAreReported`, `StatusesAgree` and
`EveryRideCompletes` are claims about networks in which a call that fails has had
no effect, and say nothing of the others.

What the model shows of the code, beyond its properties:

- A user who misses the ENROUTE of their second ride keeps the `validated` event
  of the first one and refuses PICKUP and what follows: one lost answer is
  several soft errors (`user.go:447`).
- A notification states the chair's completed rides as of its poll and is checked
  against the count as of its handling. When the chair completes another ride in
  between, a correct notification is an error (`user.go:539`); `ChairWentOn`
  names this race.
- An evaluation that was not paid returns with the lock held (`user.go:190`). It
  is also a critical error, which ends the run, so nobody waits for it.
- Only the first critical error is received (`world.go:468`): the goroutines of
  later ones wait for ever at the channel, which is harmless since the run ends.

Not modelled in it: payment methods, which are registered before the first ride;
history and estimate, read before a booking and compared with nothing that
changes; leaving after a low mark, invitations and the creation of users, which
add processes of the same kind; the limits of real time (30 seconds until a match,
the deadline of an evaluation, the three seconds of nearby chairs); `forceStopped`.
The answer to the last poll of a closed stream is assumed to precede the
answers of the next stream.

### Geometry, Driving, Sales and Audits

Random draws of the code are parameters of `Geometry`'s operators and choices in
`Driving`. `Drive` is one tick of a chair: straight on, toward a detour point, or
one move away from the target. `Record` is `chairPostCoordinate` committing a row;
`Lose` loses the request or its answer, which is then sent again, so that the
server may hold a row twice. `owner` is the audit: the server's list
(`ListChairs`), the total up to the server's time, and the total now are read one
after the other while the chair drives on.

In `Sales` a ride is known to the server from its commit, carries the time of the
UPDATE before its payment, and is known to the owner once the answer has
reached the user. The audit chooses a period, copies its list, asks the server
and compares. Times are half milliseconds, since the server keeps microseconds and
answers milliseconds.

`Audits` puts both under `Owner.Tick`: distances in the middle of an hour, sales
in its last tick. They read different data, so a behaviour has one of them.

What the models show of the code:

- A detour costs two ticks and twice what its point overshoots the target by, not
  the one move its comment names (`chair.go:259`, `coordinate.go:169`). With
  enough overshoot the drive takes five ticks more than its ideal, the tolerance of
  `request.go:164` is exceeded, and the mark loses a point. A leg along one axis gets a detour
  point where it starts.
- The audits reject a correct server in one race each: a distance whose last move
  the server had recorded before the chair had its answer, when the chair moves
  again before the second comparison (`owner.go:254`); and sales with a ride whose
  answer is still under way while a later one's has arrived (`owner.go:192`).

New chairs bought for sales, the comparison of names and models, and the three
seconds after which a position counts as stale are not modelled, nor a ride with
two COMPLETED rows, which the sales count twice: it takes two evaluations at the
same time (`dispatch_overlap`), and the benchmarker's users send one.

## Runs

| run | instance | shows |
|---|---|---|
| `dispatch_serial` | 2 users, 2 chairs, 2 rides, 1 connection each, 1 matcher, aborts | life cycle, exclusion, order of notifications to chairs, the inductive invariant of the proofs, refinement of `RideService` |
| `dispatch_live` | 2 users share 1 chair, fair | every ride completes, every chair is released |
| `dispatch_overlap` | 1 user with 2 connections, 1 chair, 2 rides, two marks, coupons of three kinds, 2 attempts of a payment, gateway failures, aborts, failing queries | overlapping requests get a coupon of their own, cost what an estimate says and keep that fare; overlapping evaluations complete a ride again only with another mark; no more completed rides than payments; no state is skipped |
| `server_keys` | 2 requests at a time, 1 key or none, a token and the empty one, amounts 0 and 1, 3 payments, malformed requests | lock, 204, repetitions |
| `gateway_calls` | 6 attempts, 2 slots, 2 rides, lost messages, rollbacks, fair | exactly one payment per ride until a fault, never gives up until one, contract, every call returns |
| `registration_invitations` | 4 users, limit 2, 2 milliseconds, 1 failing handler, fair | limit, rewards, inviters, registrations end |
| `world_rides` | 2 users, 1 chair, 2 rides, queues of 1, 1 fault, error limit 1, fair | errors are reported for faults and one known race only, statuses agree, every ride completes or the run ends |
| `audits_hours` | 3 legs, 2 speeds, 1 lost answer; 3 rides of 2 chairs, 4 points of time | chairs arrive in the time that is known, distances and positions agree, audits are fair but for the two races |

Why the bounds are enough. Two users and two chairs are the fewest that compete
for each other; two rides in a row show a chair, or a user, that goes from one
to the next; `MaxStatuses` is one more than the six states, so that a row too
many is seen. In `dispatch_overlap` two connections let any two commands of the
user overlap, bookings of different rides and evaluations of one, and with one
chair a ride follows the other; with two chairs and two overlapping rides of one
user, an evaluation that has counted the rides before the second one was requested
can be completed on the other ride's payment, so `PaidAsOftenAsCompleted` is not
claimed for them (the theorem assumes `Serial`). Two marks are the fewest with
which a second evaluation may or may not change the first one's. `"deactivate"` and
`"reply_lost"` in `Env` are in no run: with them the instances that show anything
outgrow TLC. What holds with them is what the theorems say for every `Env`, those under
`Serial` excepting `"reply_lost"`. `MaxTries` is 2 instead of 10 (the loop only needs a first and a
last round). One attempt of a payment already fails before or after its charge;
two add a double charge. With a limit of two instead of three, two invited users
use a code up while a third overlaps with them; two milliseconds let rewards
collide or not. The models of the payment service keep the real limits, 5
retries and a count of 4. A second slot lets a request that was given up run next
to the one that repeats it; `MaxLost` 2 lets both slots be held by such requests,
and `MaxRollbacks` 1 lets one ride be evaluated again after it was paid. `MaxCount` bounds the counts, which two handlers that
overwrite each other's value can raise for ever; above 4 they all mean the same. It
is 1 in `server_keys`, whose properties do not depend on a draw that cannot fail;
`gateway_calls` has those.
`MaxProcessed` bounds the payments on record, and a request is let in only if
there is room for it, so that no handler is cut off in the middle.
In `world_rides` one chair and two users are the fewest for a chair that goes on to
another user's ride, or for a user who rides again, while an old notification waits
in a queue; a queue of one makes receivers wait for room; an error limit of one
is reached and exceeded by the repetitions of one fault, and each behaviour has
one fault, of any of the kinds in `MCFaults`: the losses that the next
notification makes good are left out. In `audits_hours` the legs cover both axes, one
axis, and either direction; the speeds divide the distances and do not; one lost
answer repeats a row; three rides are the fewest of which two share a chair and all
share a model, and four points of time are two milliseconds.
In the runs of `PaymentServer` and `Registration` clients may stop sending,
respectively everybody is registered in the end, and in `audits_hours` the chair
has arrived and the audit is over, so they are not checked for deadlock.

### Disagreements between code and documents

Each of these runs checks one property a document states and finds it violated.

| run | document | code |
|---|---|---|
| `dispatch_twobookings` | a user requests no other ride before COMPLETED (`ISURIDE.md:50`) | overlapping POST /rides both pass |
| `dispatch_recharge` | retries do not pay twice (`:187`) | paid, rolled back, paid again |
| `server_repeat` | requests with one `Idempotency-Key` are processed idempotently however often they are sent (`:193`) | a repetition that overtakes the request that registered the key is paid, and so is that request (`handler.go:89`) |
| `dispatch_blank` | `chair_id` is the assigned chair (`1-schema.sql:85`) | missing `return` at `internal_handlers.go:31` |

`ISURIDE.md:159` also promises users every state in order. `appGetNotification`
shows the newest ride only, so a client that requests the next ride before it has
polled the COMPLETED of the last one never sees that row; the benchmarker's users
request the next one only after it (`UserBook` in `World`).

A repeated acceptance (`"reply_lost"` in `Env`) adds a second ENROUTE, and a
surplus payment can hide a missing one for the user's next ride, which is why
`PaidAsOftenAsCompleted` counts payments per user and not per ride. In the payment
service the first request with a key does not look for an earlier payment;
`RepetitionsPayOnce` (`server_keys`) says that this is the only way to pay a key twice,
and `server_repeat` that it is one.

The consequences are why the positive results carry assumptions: exclusion and
the life cycle hold for `Serial` clients and matchers. One command at a time per
client and one matching call at a time is how the matcher unit works (a `while`
loop around `curl`), and the benchmarker's users and chairs (a tick that still
runs is skipped). That no acceptance is sent twice is an assumption on the network:
a chair of the benchmarker leaves its status at Matching after any error
(`chair.go:122`), an answer that was lost after the commit among them, and sends the
acceptance again. Of what is left then `NoStateSkipped` and the theorem
`OrderCorrect` speak, for any clients and any `Env`.

### Fairness

`dispatch_live` assumes weak fairness of every handler step, of the polls and of
the things the simulated users and chairs do as soon as they can: they poll for
ever, chairs go on duty, accept and drive, users rate. Strong fairness is
assumed only of the random choice of a chair: `ORDER BY RAND()` does not pass
over an active chair for ever. Nobody is obliged to request a ride. There are no
aborts in this run, since a transaction that fails every time never completes
anything. `gateway_calls` assumes that the loop and the service take their
steps, `registration_invitations` that lock waits are served and deadlocks
detected; the number of handlers that fail there is bounded (`MaxErrors`),
because a scan that waits for whole rows could otherwise be overtaken for ever.
`world_rides` assumes that the matcher runs, polls are answered, queues are handled,
ticks come again and `World.Tick` reads its channel, each weakly fair: the loops
around them never end by themselves. A user is not obliged to request a ride.

## Proofs

`tlapm` checks these theorems for any number of users, chairs, connections and
rides, and of payment requests, keys, tokens and amounts.

- `TypeCorrect`: `Spec => []TypeOK`, under `DispatchAssumption` alone.
- Under the assumption `Serial` (`DispatchSafety_proofs`):
  `Invariance` (`Spec => []IInv`), and from it `StatusPath`, `UserExclusion`,
  `ChairExclusion` and the action property `AssignmentSafe`.
- `Refinement`: `Spec` implements `RideService!Spec` under the mapping `Trips`,
  which forgets everything but each ride's user, chair and latest status.

The argument. The properties speak of tables, and handlers write to tables on
the strength of what they read before. So the invariant says, of every request
in progress, that what it checked is still true: a booking's user has no open
ride, an evaluation's ride is still ARRIVED, a move's ride still in the state
the chair left, a matching's ride still without a chair and its chair still
free. Each is kept because only that request could make it false, and there is
one of its kind (`Serial`). To see that assignment keeps `OneOpenRidePerChair`
the invariant ties the count of sent rows to the path: six rows sent means six
states reached, because the log is a path (`LogRow`, `Released`). The proofs of
`Refinement` map `BookCommit` to `Request`, `MatchAssign` to `Assign`, the
appending actions to `Advance` and every other action to a stutter.

- `LockCorrect`, `OkCorrect`, `RepetitionsCorrect` and `ServerTypesCorrect`
  (`PaymentServer_proofs`): the three safety properties of the run `server_keys`,
  under `PaymentServerAssumption` alone, and the types.

Their invariant `ServerInv` follows a key: nothing happens under a key that is
not known; one request at most registers it, and only that one writes its payload,
each field once and before its answer; whatever is past the comparison has compared
each field with what was written, or has sent it empty (`PayloadIsKept`), hence so
has whatever is answered 204; and the registrant, which alone may pay without
looking, has not paid before its answer is due. `LockIsHeld` says who holds the
lock, of which `LockMeansProcessing` counts the holders. Since `Token` and `Amount`
are written in two steps, it also says that what the registrant has not written yet
is empty: a repetition that passes the comparison before both are there has sent the
missing one empty.

- `CouponsCorrect`, `QuotesCorrect`, `EstimatesCorrect`
  (`DispatchFares_proofs`), for any clients, without `Serial`. A coupon is taken
  by a locking read that finds unused ones only, so the coupons of other rides
  stay as they are (`RedeemEffect`); that at most one row is taken needs the
  primary key of the table (`OneCampaignCoupon` in `DispatchAssumption`). For
  estimates the invariant says that a user with a ride has no campaign coupon
  left, and that a request which will not look for it has seen a ride
  (`EstimateInv`): two bookings at once may both believe to be the first, and
  the second then falls back to the oldest coupon, as an estimate does.
- `OrderCorrect`, `CompletionsCorrect` (`DispatchFares_proofs`), for any clients and
  any `Env`, overlapping commands and repeated acceptances included. `ServedInv` says
  that what a move or an evaluation in progress is about to write has been preceded by
  the state that leads to it, which stays so since rows are only added; that one
  evaluation at a time holds the row lock of a ride; and that its mark is not the
  committed one, so that its commit changes the mark.
- `LatestCorrect`, `TellingCorrect` (`DispatchSafety_proofs`), under `Serial`. `OrderInv` says that the ranks of `updated_at` are distinct and that
  the ride a chair has not been told all about has been updated after the chair's
  other rides: a chair gets a ride only when it has been told all about the
  others, the assignment touches that ride, and the only other touch, by an
  evaluation, is of the ride it still works on.
- `LimitCorrect`, `RewardsCorrect`, `InvitersCorrect`, `RegistrationTypes`
  (`Registration_proofs`), for any number of users, any limit and any failures.
  From its scan until its end a transaction is the only one that has scanned, and
  only such a transaction commits an invitation or a reward; so what it has read
  is still true when it commits.
- `PaymentsCorrect` (`DispatchSafety_proofs`), under `Serial`. A call of the client
  that returns nil without a payment has found as many payments as the snapshot
  had rides. So `PaidInv` says of an evaluation in progress that the rides of its
  snapshot outnumber the user's completed ones, since the ride it evaluates is
  ARRIVED, and, once the call has succeeded, that the payments do. The commit then
  completes one ride and leaves them even. Completed rides are counted as those
  with six rows, which no other step of a serial client adds.
- `GatewayTypesCorrect`, `ContractKept`, `ChargedExactlyOnce`, `NeverRefused`
  (`PaymentGateway_proofs`), for any number of users, evaluations, slots, lost
  messages and rollbacks; `NeverRefused` for `RetryLimit` 5 or more, as in the code.
  The argument follows the requests a call owns: each is the call's alone and may
  be recorded once, so what is on record and what may still come never exceed the
  attempts. While no message is lost, the only requests are those a call waits
  for; then a user who pays alone has one payment on record for each ride before the
  current one, and the service has counted each attempt that failed, so that it lets
  the fifth or the sixth through. Two evaluations of one user at the same time share a
  token, and each may take the other's payment for its own; the last two properties
  are therefore about callers that pay alone (`PaysAlone`), the contract about all.
- `WorldInvariant`, `WorldTypes`, `ReportsExplained`, `StatusesTogether`
  (`World_proofs`), for any number of users, chairs, rides and faults, any capacity
  of the queues and any error limit. A chair works on one ride, and the four
  numbers of a ride (the server's stage, the desired status, what the chair and what
  the user has been told) are those of a row of a short table that the chair's
  step names (`UnderWay`); a ride without a chair at work has not begun or is over.
  Queues are sorted by ride and status, so that what is left in one of a past ride
  is its end; and the total of a notification is the number of the chair's
  rides before this one. From these, each error of `HandleNotification` needs a
  fault, or `ChairWentOn`.
- `MoveCoversStep`, `LastMoveArrives` (`Audits_proofs`), for any coordinates, step
  and draw: a move covers its whole step toward the target, and the last one ends
  there.
- `DriveInvariant`, and from it `ListedPositionsAreKnown`,
  `ArrivesWhateverIsDrawn`, `DistancesAlwaysAgree`, `DistanceAuditFair`
  (`Audits_proofs`), for any legs, speeds, draws and number of lost answers.
  `DetourOK` says that a detour point is one the planner may draw, `OutOK` that a chair
  on its way there is on a shortest way, and `BackOK` that after it, or without one,
  the chair comes nearer to its destination by its speed in each tick, starting from
  its whole way with twice the overshoot (`Needed`); this gives the time of
  arrival, and `StraightOK` the total on a way without a detour. `HistoryOK` and `RowsOK` say that only the last move
  may be without an answer, and that the server's rows end where the chair is or was
  before that move, at the same length: a row that is repeated adds no way.
- `SalesAuditFair` (`Audits_proofs`), an action property, for any finite set of
  rides, any sales and any groups. The set the server sums lies between the sets
  the audit computes its bounds from, and a sum over a subset is not larger. That a
  ride the owner has not seen is in a state "completed" is what makes the second error a
  race. `AuditTypes` covers both halves of the hour.

`WayAlong` and the sums are recursive functions and folds, of which the provers know
only the defining equation, and not even that without a proof that a function
satisfying it exists. `Audits_proofs` gets both from least counterexamples: the
naturals are well-founded (`NatLessThanWellFounded`), so a set of numbers that is
not empty has a least one (`LeastNumber`), and a statement about `n` that fails
somewhere fails at a least `n` (`SumExists`, `SumUnique`, `SumStep`,
`SumMonotonic`, and the lemmas on ways). This replaces the induction theorems of the
library.

Proving changed the models where they were wrong or said too little:

- `DriveTypeOK` bounded the total by the leg and one tick's speed. A detour from
  `<<0, 0>>` to `<<1, 5>>` at speed 1 drives further; the bound is now the leg and
  the overshoot.
- `ChairObjection` (`World`) was a CASE with arms that overlap, of which TLC takes
  the first and the semantics any; it is now a chain of conditions, in the order
  of the code.
- `PaymentServer` assumed amounts above 0 and tokens that are not empty, which the
  service does not, and said that a 204 proves the whole payload.
- `PaymentGateway` did not say that its service gets no other requests
  (`Requests = {}`) and no keys (`Keys = {}`), and two of its properties are false when two callers share a
  token.

Only model-checked: liveness (`EveryRideCompletes`, `EveryChairIsReleased`,
`EveryCallReturns`, and those of `Registration` and `World`) and ENABLED, which are out
of the prover's reach, hence also that a run has no deadlock. Every invariant and
every action property of a run that passes is the subject of a theorem;
`PaidAsOftenAsCompleted` is proved under `Serial` and, for one user and one chair with
overlapping commands, model-checked.

## Plan

Done: the dispatch core with coupons, fares and estimates; the payment service; the
gateway client; registration; the benchmarker's world, geometry and audits; and
a theorem for each safety property. What is left, most useful first:

1. `World` with calls that take effect and whose answer is lost: the log of a ride
   becomes a sequence, and what is promised without them is weakened to what each
   of these losses leaves.
2. That `PaymentGateway` implements a one-step call with the outcomes of
   `PaymentContract`, as a refinement: `ContractKept` is about the outcome only, and
   not about when the payments of a call that is over are recorded.
3. Notification streams in `Dispatch`: an answer lost after its row was marked is
   a fault of `World` only, where the log is a number.
4. Users who leave, and invitations, composed with `World`.

## Not modelled

- Owner and chair registration, and authentication: single inserts guarded by
  unique keys, and a lookup by cookie. The models start after them.
- Initialisation: it runs before any load. The payment mock: an append under a
  mutex. Rides history: a read whose fares are those of `QuoteHonoured`.
- The verification of payments is reduced to whether the token is known, and the
  channel of its errors (`handler.go:101`) is left out; the benchmarker ends the
  run at the first one.
- A second payment caused by a lost answer to an evaluation is a matter of
  `Dispatch` (`dispatch_recharge`) and not of `World`, whose evaluations are
  answered or refused.
- The scenario, its validation before the load and the HTTP clients do one thing
  after the other; the containers of `internal/concurrent` are one mutex each, and
  the models rely on them being atomic per call.
- Command line, metrics, initial data, the front end, the machine configuration,
  and the generated code of the API and of the portal, which is most of the
  benchmarker's Go: they hold no state of their own, or none that interacts.
