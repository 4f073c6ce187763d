------------------------------- MODULE World -------------------------------
(***************************************************************************)
(* The rides of the benchmarker's world (bench/benchmarker/world): users   *)
(* and chairs that tick, handle their notification queues and drive the    *)
(* web application.  A Request carries three statuses: User and Chair are  *)
(* what each side has been told or has done, Desired is what the server    *)
(* should say.  A tick that still runs is skipped, so each entity is a     *)
(* sequential process; it is split at its HTTP calls, between which the    *)
(* server and the others go on.                                            *)
(*                                                                         *)
(* The server is reduced to what Dispatch shows of it for such clients:    *)
(* the log of a ride is a prefix of Flow, so a number says how long it is, *)
(* and app and chr say how many of its rows have been sent to each side.   *)
(*                                                                         *)
(* Faults: a call made in some status of the ride is "refused" and has no  *)
(* effect, the answer to a poll with some status is lost ("user", "chair") *)
(* after its row was marked as sent, an evaluation is accepted without a   *)
(* payment ("unpaid").  That an acceptance, a departure or an evaluation   *)
(* takes effect and its answer is lost is assumed not to happen here: the  *)
(* log of the ride is then no prefix of Flow (see Dispatch, "reply_lost")  *)
(* or the ride cannot go on.                                               *)
(***************************************************************************)
EXTENDS RideStatus, FiniteSetsExt

CONSTANTS
  Users, Chairs,
  NoOne,           \* no chair assigned yet, nobody holds the lock
  MaxRides,        \* bound of the instance: rides requested
  QueueCapacity,   \* 500: the buffer of a notification queue
  ErrorLimit,      \* 200: errors the benchmark puts up with
  Faults,          \* faults that may happen: <<kind, status>>
  MaxFaults        \* bound of the instance: faults in one behaviour

ASSUME WorldAssumption ==
  /\ Users \cap Chairs = {} /\ NoOne \notin Users \cup Chairs
  /\ MaxRides \in Nat /\ QueueCapacity \in Nat \ {0}
  /\ ErrorLimit \in Nat /\ MaxFaults \in Nat
  /\ Faults \subseteq {"refused", "user", "chair", "unpaid"} \X (1 .. FullLog)

VARIABLES
  rides,     \* server: rides in created_at order
  reqs,      \* Request and its RequestStatuses, per ride
  user,      \* per user: step of the tick, Request, stream, queue
  chair,     \* per chair: likewise
  errors,    \* ErrorCounter: number of errors, up to one above the limit
  reports,   \* <<code, ride>> of every error
  sending,   \* whether a goroutine waits at criticalErrorCh
  stopped,   \* World.Tick has returned an error, which ends the load
  faults     \* what has gone wrong: <<kind, ride, status>>

vars == <<rides, reqs, user, chair, errors, reports, sending, stopped, faults>>
errorVars == <<errors, reports, sending>>

Matching    == 1
Dispatching == 2
Dispatched  == 3
Carrying    == 4
Arrived     == 5
Completed   == 6
RequestStatus == Matching .. Completed

Nothing == 0
Ids == 1 .. MaxRides

Ride == [user : Users, chair : Chairs \cup {NoOne},
         stage : RequestStatus, app : 0 .. FullLog, chr : 0 .. FullLog]

Request == [known : BOOLEAN, desired : RequestStatus, chair : RequestStatus,
            user : RequestStatus, holder : Users \cup Chairs \cup {NoOne},
            evaluated : BOOLEAN, paid : BOOLEAN]

\* A notification; total is the chair's number of rides it reports.
Event == [ride : Ids, status : RequestStatus, total : 0 .. MaxRides]

User == [pc : {"idle", "booked", "rated", "refused"},
         req : {Nothing} \cup Ids, conn : {"none", "open", "closing"},
         queue : Seq(Event), validated : [ride : {Nothing} \cup Ids, total : 0 .. MaxRides]]

Chair == [pc : {"idle", "accepted", "refused", "departed", "sending"},
          req : {Nothing} \cup Ids, matching : {Nothing} \cup Ids,
          active : BOOLEAN, queue : Seq(Event)]

TypeOK ==
  /\ rides \in Seq(Ride) /\ reqs \in Seq(Request)
  /\ Len(rides) = Len(reqs) /\ Len(rides) <= MaxRides
  /\ user \in [Users -> User] /\ chair \in [Chairs -> Chair]
  /\ \A u \in Users : Len(user[u].queue) <= QueueCapacity
  /\ \A c \in Chairs : Len(chair[c].queue) <= QueueCapacity
  /\ errors \in 0 .. ErrorLimit + 1
  /\ sending \in BOOLEAN /\ stopped \in BOOLEAN

-----------------------------------------------------------------------------
(* Errors *)

Critical == {"UserNotRequestingButStatusChanged", "ChairNotAssignedButStatusChanged",
             "UnexpectedUserRequestStatusTransition", "UnexpectedChairRequestStatusTransition",
             "ChairAlreadyHasRequest", "SkippedPaymentButEvaluated"}

\* handleTickError with ErrorCounter.Add.
Report(code, r) ==
  /\ reports' = reports \cup {<<code, r>>}
  /\ errors' = Min({errors + 1, ErrorLimit + 1})
  /\ sending' = (sending \/ code \in Critical \/ errors' > ErrorLimit)

Fault(kind, r, status) ==
  /\ <<kind, status>> \in Faults
  /\ <<kind, r, status>> \notin faults /\ Cardinality(faults) < MaxFaults
  /\ faults' = faults \cup {<<kind, r, status>>}

-----------------------------------------------------------------------------
(* The server *)

RidesOfUser(u)  == {r \in 1 .. Len(rides) : rides[r].user = u}
RidesOfChair(c) == {r \in 1 .. Len(rides) : rides[r].chair = c}

\* Stats.TotalRidesCount of a chair, which is 0 until there is one.
TotalRides(c) == Cardinality({r \in RidesOfChair(c) : c # NoOne /\ rides[r].stage = Completed})

\* internalGetMatching: the oldest ride without a chair and a free chair.
Match ==
  \E c \in Chairs :
    LET waiting == {r \in 1 .. Len(rides) : rides[r].chair = NoOne} IN
    /\ waiting # {}
    /\ chair[c].active
    /\ \A r \in RidesOfChair(c) : rides[r].chr = FullLog
    /\ rides' = [rides EXCEPT ![Min(waiting)].chair = c]
    /\ UNCHANGED <<reqs, user, chair, errorVars, faults>>

\* What a poll that found sent rows of ride r sent answers with: the oldest
\* row not sent yet, or the latest once more.
\* Mutant: a poll that finds nothing new does not repeat the latest row.
NextRowBlind(sent, r) == sent + 1
NextRow(sent, r) == Min({sent + 1, rides[r].stage})
Notification(sent, r) ==
  [ride |-> r, status |-> NextRow(sent, r), total |-> TotalRides(rides[r].chair)]

\* A user polls while the stream is open.  The receiver waits for room in the
\* queue, and the next poll for the receiver.
UserPoll(u) ==
  LET r == Max(RidesOfUser(u)) IN
  /\ user[u].conn = "open" /\ Len(user[u].queue) < QueueCapacity
  /\ rides' = [rides EXCEPT ![r].app = NextRow(@, r)]
  /\ user' = [user EXCEPT ![u].queue = Append(@, Notification(rides[r].app, r))]
  /\ UNCHANGED <<reqs, chair, errorVars, faults>>

UserPollLost(u) ==
  LET r == Max(RidesOfUser(u)) IN
  /\ user[u].conn = "open" /\ rides[r].app < rides[r].stage
  /\ rides' = [rides EXCEPT ![r].app = @ + 1]
  /\ Fault("user", r, rides[r].app + 1)
  /\ UNCHANGED <<reqs, user, chair, errorVars>>

\* The answer to the last poll of a stream that was closed meanwhile.
LateAnswer(u) ==
  LET r == Max({q \in RidesOfUser(u) : reqs[q].user = Completed}) IN
  /\ user[u].conn = "closing" /\ Len(user[u].queue) < QueueCapacity
  /\ user' = [user EXCEPT ![u].conn = "none",
                          ![u].queue = Append(@, Notification(rides[r].app, r))]
  /\ UNCHANGED <<rides, reqs, chair, errorVars, faults>>

ChairPoll(c) ==
  LET r == Max(RidesOfChair(c)) IN
  /\ chair[c].active /\ RidesOfChair(c) # {} /\ Len(chair[c].queue) < QueueCapacity
  /\ rides' = [rides EXCEPT ![r].chr = NextRow(@, r)]
  /\ chair' = [chair EXCEPT ![c].queue = Append(@, Notification(rides[r].chr, r))]
  /\ UNCHANGED <<reqs, user, errorVars, faults>>

ChairPollLost(c) ==
  LET r == Max(RidesOfChair(c)) IN
  /\ chair[c].active /\ RidesOfChair(c) # {} /\ rides[r].chr < rides[r].stage
  /\ rides' = [rides EXCEPT ![r].chr = @ + 1]
  /\ Fault("chair", r, rides[r].chr + 1)
  /\ UNCHANGED <<reqs, user, chair, errorVars>>

-----------------------------------------------------------------------------
(* Users *)

\* Mutant: a CARRYING that overtakes the answer to the departure is unexpected.
LagsTwo == {<<Matching, Dispatched, Dispatching>>, <<Dispatched, Arrived, Carrying>>}

\* The transitions that are neither the status the user knows nor the desired
\* one and are accepted all the same: <<User, Desired, status>>.
Lags == {<<Matching, Dispatched, Dispatching>>,
         <<Dispatched, Arrived, Carrying>>,
         <<Dispatched, Dispatched, Carrying>>}

Expected(q, status) ==
  status \in {q.user, q.desired} \/ <<q.user, q.desired, status>> \in Lags

\* A COMPLETED of a ride the user has rated before.
OfThePast(u, e) ==
  /\ e.status = Completed /\ e.ride \in RidesOfUser(u)
  /\ reqs[e.ride].known /\ reqs[e.ride].desired = Completed

\* ValidateNotificationEvent: the ride's data, and those of its chair.
EvaluatedRides(c) == Cardinality({r \in RidesOfChair(c) : reqs[r].evaluated})
Validates(u, e) ==
  /\ e.ride = user[u].req
  /\ e.status # Matching => e.total = EvaluatedRides(rides[e.ride].chair)

\* The validators of HandleNotification.
Accepts(u, e) ==
  IF e.status \in Dispatched .. Arrived /\ user[u].validated.ride # Nothing
  THEN user[u].validated = [ride |-> e.ride, total |-> e.total]
  ELSE Validates(u, e)

Remembers(u, e) ==
  IF e.status \in Dispatching .. Arrived THEN [ride |-> e.ride, total |-> e.total]
                                         ELSE user[u].validated

UserHandle(u) ==
  LET e == Head(user[u].queue)
      r == user[u].req
      taken == [user EXCEPT ![u].queue = Tail(@)]
  IN
  /\ user[u].pc = "idle" /\ user[u].queue # <<>>
  /\ r # Nothing => reqs[r].holder = NoOne
  /\ \/ /\ r # Nothing /\ Expected(reqs[r], e.status) /\ Accepts(u, e)
        /\ user' = [taken EXCEPT ![u].validated = Remembers(u, e)]
        /\ reqs' = [reqs EXCEPT ![r].user = e.status]
        /\ UNCHANGED errorVars
     \/ /\ r # Nothing /\ Expected(reqs[r], e.status) /\ ~Accepts(u, e)
        /\ user' = taken
        /\ Report("UserReceivedDataIsWrong", e.ride)
        /\ UNCHANGED reqs
     \/ /\ r # Nothing => ~Expected(reqs[r], e.status)
        /\ OfThePast(u, e)
        /\ user' = taken
        /\ reqs' = [reqs EXCEPT ![e.ride].user = Completed]
        /\ UNCHANGED errorVars
     \/ /\ r # Nothing => ~Expected(reqs[r], e.status)
        /\ ~OfThePast(u, e)
        /\ user' = taken
        /\ Report(IF r = Nothing THEN "UserNotRequestingButStatusChanged"
                                 ELSE "UnexpectedUserRequestStatusTransition", e.ride)
        /\ UNCHANGED reqs
  /\ UNCHANGED <<rides, chair, faults>>

\* CreateRequest: POST /rides is served, which a refusal leaves without effect.
UserBook(u) ==
  /\ user[u].pc = "idle" /\ user[u].req = Nothing
  /\ Len(rides) < MaxRides
  /\ rides' = Append(rides, [user |-> u, chair |-> NoOne,
                             stage |-> Matching, app |-> 0, chr |-> 0])
  /\ reqs' = Append(reqs, [known |-> FALSE, desired |-> Matching, chair |-> Matching,
                           user |-> Matching, holder |-> NoOne,
                           evaluated |-> FALSE, paid |-> FALSE])
  /\ user' = [user EXCEPT ![u].pc = "booked"]
  /\ UNCHANGED <<chair, errorVars, faults>>

\* Its answer arrives: the request enters RequestDB.
UserBooked(u) ==
  LET r == Max(RidesOfUser(u)) IN
  /\ user[u].pc = "booked"
  /\ user' = [user EXCEPT ![u].pc = "idle", ![u].req = r]
  /\ reqs' = [reqs EXCEPT ![r].known = TRUE]
  /\ UNCHANGED <<rides, chair, errorVars, faults>>

UserConnect(u) ==
  /\ user[u].pc = "idle" /\ user[u].req # Nothing /\ user[u].conn = "none"
  /\ user' = [user EXCEPT ![u].conn = "open"]
  /\ UNCHANGED <<rides, reqs, chair, errorVars, faults>>

\* SendEvaluation under the write lock: accepted, paid for or not, or refused.
UserRate(u) ==
  LET r == user[u].req IN
  /\ user[u].pc = "idle" /\ r # Nothing
  /\ user[u].conn = "open"
  /\ reqs[r].user = Arrived /\ ~reqs[r].evaluated /\ reqs[r].holder = NoOne
  /\ \/ /\ user' = [user EXCEPT ![u].pc = "rated"]
        /\ rides' = [rides EXCEPT ![r].stage = Completed]
        /\ \/ reqs' = [reqs EXCEPT ![r].holder = u, ![r].paid = TRUE]
              /\ UNCHANGED faults
           \/ reqs' = [reqs EXCEPT ![r].holder = u]
              /\ Fault("unpaid", r, Arrived)
     \/ /\ Fault("refused", r, rides[r].stage)
        /\ user' = [user EXCEPT ![u].pc = "refused"]
        /\ reqs' = [reqs EXCEPT ![r].holder = u]
        /\ UNCHANGED rides
  /\ UNCHANGED <<chair, errorVars>>

\* Mutant: a refused evaluation keeps the lock.
UserRateRefusedLocked(u) ==
  /\ user[u].pc = "refused"
  /\ user' = [user EXCEPT ![u].pc = "idle"]
  /\ Report("FailedToEvaluate", user[u].req)
  /\ UNCHANGED <<rides, reqs, chair, faults>>

UserRateRefused(u) ==
  LET r == user[u].req IN
  /\ user[u].pc = "refused"
  /\ user' = [user EXCEPT ![u].pc = "idle"]
  /\ reqs' = [reqs EXCEPT ![r].holder = NoOne]
  /\ Report("FailedToEvaluate", r)
  /\ UNCHANGED <<rides, chair, faults>>

\* The answer: a payment that was skipped is reported with the lock held.
UserRated(u) ==
  LET r == user[u].req
      rated == [reqs EXCEPT ![r].desired = Completed, ![r].evaluated = TRUE]
  IN
  /\ user[u].pc = "rated"
  /\ user' = [user EXCEPT ![u].pc = "idle"]
  /\ \/ /\ reqs[r].paid
        /\ reqs' = [rated EXCEPT ![r].holder = NoOne]
        /\ UNCHANGED errorVars
     \/ /\ ~reqs[r].paid
        /\ reqs' = rated
        /\ Report("SkippedPaymentButEvaluated", r)
  /\ UNCHANGED <<rides, chair, faults>>

\* A completed request is forgotten and its stream closed, a poll being
\* under way or not.
UserLeaves(u) ==
  /\ user[u].pc = "idle" /\ user[u].req # Nothing
  /\ reqs[user[u].req].user = Completed
  /\ \E conn \in {"none", "closing"} :
       user' = [user EXCEPT ![u].req = Nothing, ![u].conn = conn]
  /\ UNCHANGED <<rides, reqs, chair, errorVars, faults>>

-----------------------------------------------------------------------------
(* Chairs *)

\* What HandleNotification asks of each notification.
ChairAccepts(c, e) ==
  LET r == chair[c].req IN
  CASE e.status = Matching  -> chair[c].matching \in {Nothing, e.ride}
    [] e.status # Completed /\ e.status # Matching -> chair[c].matching = e.ride
    [] e.status = Completed /\ r = Nothing ->
         reqs[e.ride].chair >= Dispatching /\ reqs[e.ride].desired = Completed
    [] OTHER -> reqs[r].desired = Completed /\ chair[c].matching = e.ride

ChairObjection(c, e) ==
  LET r == chair[c].req IN
  IF e.status = Matching THEN "ChairAlreadyHasRequest"
  ELSE IF e.status = Completed /\ r = Nothing THEN "ChairNotAssignedButStatusChanged"
  ELSE IF e.status = Completed /\ reqs[r].desired # Completed
       THEN "UnexpectedChairRequestStatusTransition"
  ELSE "ChairReceivedDataIsWrong"

ChairHandle(c) ==
  LET e == Head(chair[c].queue)
      r == chair[c].req
      completes == e.status = Completed /\ r # Nothing
      taken == [chair EXCEPT ![c].queue = Tail(@)]
  IN
  /\ chair[c].pc = "idle" /\ chair[c].queue # <<>>
  /\ completes => reqs[r].holder = NoOne
  /\ \/ /\ ChairAccepts(c, e)
        /\ chair' = CASE e.status = Matching -> [taken EXCEPT ![c].matching = e.ride]
                      [] completes -> [taken EXCEPT ![c].req = Nothing, ![c].matching = Nothing]
                      [] OTHER -> taken
        /\ reqs' = IF e.status = Completed
                   THEN [reqs EXCEPT ![IF completes THEN r ELSE e.ride].chair = Completed]
                   ELSE reqs
        /\ UNCHANGED errorVars
     \/ /\ ~ChairAccepts(c, e)
        /\ chair' = taken
        /\ Report(ChairObjection(c, e), e.ride)
        /\ UNCHANGED reqs
  /\ UNCHANGED <<rides, user, faults>>

\* The stream is opened and POST /chair/activity served.
ChairActivate(c) ==
  /\ ~chair[c].active
  /\ chair' = [chair EXCEPT ![c].active = TRUE]
  /\ UNCHANGED <<rides, reqs, user, errorVars, faults>>

\* The assigned ride is looked up in RequestDB, where it may not be yet.
ChairSees(c) ==
  LET r == chair[c].matching IN
  /\ chair[c].pc = "idle" /\ chair[c].req = Nothing /\ r # Nothing
  /\ reqs[r].known
  /\ chair' = [chair EXCEPT ![c].req = r]
  /\ UNCHANGED <<rides, reqs, user, errorVars, faults>>

\* SendAcceptRequest under the write lock.
ChairAccept(c) ==
  LET r == chair[c].req IN
  /\ chair[c].pc = "idle" /\ r # Nothing
  /\ reqs[r].chair = Matching /\ reqs[r].holder = NoOne
  /\ reqs' = [reqs EXCEPT ![r].holder = c]
  /\ \/ /\ rides' = [rides EXCEPT ![r].stage = Dispatching]
        /\ chair' = [chair EXCEPT ![c].pc = "accepted"]
        /\ UNCHANGED faults
     \/ /\ Fault("refused", r, rides[r].stage)
        /\ chair' = [chair EXCEPT ![c].pc = "refused"]
        /\ UNCHANGED rides
  /\ UNCHANGED <<user, errorVars>>

ChairAcceptRefused(c) ==
  LET r == chair[c].req IN
  /\ chair[c].pc = "refused"
  /\ chair' = [chair EXCEPT ![c].pc = "idle"]
  /\ reqs' = [reqs EXCEPT ![r].holder = NoOne]
  /\ Report("FailedToAcceptRequest", r)
  /\ UNCHANGED <<rides, user, faults>>

ChairAccepted(c) ==
  LET r == chair[c].req IN
  /\ chair[c].pc = "accepted"
  /\ chair' = [chair EXCEPT ![c].pc = "idle"]
  /\ reqs' = [reqs EXCEPT ![r].desired = Dispatching, ![r].chair = Dispatching,
                          ![r].holder = NoOne]
  /\ UNCHANGED <<rides, user, errorVars, faults>>

\* The last move to the pickup point or the destination: the chair changes
\* both statuses, without the lock, before it sends its coordinate.
ChairArrive(c) ==
  LET r == chair[c].req IN
  /\ chair[c].pc = "idle" /\ r # Nothing
  /\ reqs[r].chair \in {Dispatching, Carrying}
  /\ chair' = [chair EXCEPT ![c].pc = "sending"]
  /\ reqs' = [reqs EXCEPT ![r].desired = reqs[r].chair + 1, ![r].chair = @ + 1]
  /\ UNCHANGED <<rides, user, errorVars, faults>>

\* Mutant: a coordinate that was refused is not sent again.
ChairSendCoordinateOnce(c) ==
  LET r == chair[c].req IN
  /\ chair[c].pc = "sending"
  /\ chair' = [chair EXCEPT ![c].pc = "idle"]
  /\ \/ /\ rides' = [rides EXCEPT ![r].stage = IF @ \in {Dispatching, Carrying} THEN @ + 1 ELSE @]
        /\ UNCHANGED <<errorVars, faults>>
     \/ /\ Fault("refused", r, rides[r].stage)
        /\ Report("FailedToSendChairCoordinate", r)
        /\ UNCHANGED rides
  /\ UNCHANGED <<reqs, user>>

\* SendChairCoordinate, retried until it succeeds.
ChairSendCoordinate(c) ==
  LET r == chair[c].req IN
  /\ chair[c].pc = "sending"
  /\ \/ /\ rides' = [rides EXCEPT ![r].stage = IF @ \in {Dispatching, Carrying} THEN @ + 1 ELSE @]
        /\ chair' = [chair EXCEPT ![c].pc = "idle"]
        /\ UNCHANGED <<errorVars, faults>>
     \/ /\ Fault("refused", r, rides[r].stage)
        /\ Report("FailedToSendChairCoordinate", r)
        /\ UNCHANGED <<rides, chair>>
  /\ UNCHANGED <<reqs, user>>

\* SendDepart, once the user has seen the chair arrive.
ChairDepart(c) ==
  LET r == chair[c].req IN
  /\ chair[c].pc = "idle" /\ r # Nothing
  /\ reqs[r].chair = Dispatched /\ reqs[r].user = Dispatched
  /\ \/ /\ rides' = [rides EXCEPT ![r].stage = Carrying]
        /\ chair' = [chair EXCEPT ![c].pc = "departed"]
        /\ UNCHANGED <<errorVars, faults>>
     \/ /\ Fault("refused", r, rides[r].stage)
        /\ Report("FailedToDepart", r)
        /\ UNCHANGED <<rides, chair>>
  /\ UNCHANGED <<reqs, user>>

ChairDeparted(c) ==
  LET r == chair[c].req IN
  /\ chair[c].pc = "departed"
  /\ chair' = [chair EXCEPT ![c].pc = "idle"]
  /\ reqs' = [reqs EXCEPT ![r].desired = Carrying, ![r].chair = Carrying]
  /\ UNCHANGED <<rides, user, errorVars, faults>>

-----------------------------------------------------------------------------
(* Specification *)

Init ==
  /\ rides = <<>> /\ reqs = <<>>
  /\ user = [u \in Users |-> [pc |-> "idle", req |-> Nothing, conn |-> "none", queue |-> <<>>,
                              validated |-> [ride |-> Nothing, total |-> 0]]]
  /\ chair = [c \in Chairs |-> [pc |-> "idle", req |-> Nothing, matching |-> Nothing,
                                active |-> FALSE, queue |-> <<>>]]
  /\ errors = 0 /\ reports = {} /\ sending = FALSE
  /\ stopped = FALSE /\ faults = {}

\* World.Tick receives from criticalErrorCh and returns the error.
Stop ==
  /\ sending /\ ~stopped
  /\ stopped' = TRUE
  /\ UNCHANGED <<rides, reqs, user, chair, errorVars, faults>>

\* Nothing more happens to the rides of this run, save repeated notifications.
Ended ==
  /\ stopped
  /\ UNCHANGED vars

UserAnswer(u) == UserPoll(u) \/ LateAnswer(u)

\* The switch of User.Tick, and the answers to its calls.
UserAct(u) ==
  \/ UserBooked(u) \/ UserConnect(u) \/ UserRate(u) \/ UserRateRefused(u)
  \/ UserRated(u) \/ UserLeaves(u)

\* The switch of Chair.Tick, and the answers to its calls.
ChairAct(c) ==
  \/ ChairActivate(c) \/ ChairSees(c) \/ ChairAccept(c) \/ ChairAcceptRefused(c)
  \/ ChairAccepted(c) \/ ChairArrive(c) \/ ChairSendCoordinate(c)
  \/ ChairDepart(c) \/ ChairDeparted(c)

Running(A) == ~stopped /\ A /\ UNCHANGED stopped

Next ==
  \/ Running(Match)
  \/ \E u \in Users :
       Running(UserAnswer(u) \/ UserPollLost(u) \/ UserHandle(u) \/ UserBook(u) \/ UserAct(u))
  \/ \E c \in Chairs :
       Running(ChairPoll(c) \/ ChairPollLost(c) \/ ChairHandle(c) \/ ChairAct(c))
  \/ Stop
  \/ Ended

Spec == Init /\ [][Next]_vars

\* Ticks come for ever and drain the queue before they act, polls are answered
\* and World.Tick reads its channel.  Nobody is obliged to request a ride.
FairSpec ==
  /\ Spec
  /\ WF_vars(Running(Match)) /\ WF_vars(Stop)
  /\ \A u \in Users :
       /\ WF_vars(Running(UserAnswer(u)))
       /\ WF_vars(Running(UserHandle(u)))
       /\ WF_vars(Running(UserAct(u)))
  /\ \A c \in Chairs :
       /\ WF_vars(Running(ChairPoll(c)))
       /\ WF_vars(Running(ChairHandle(c)))
       /\ WF_vars(Running(ChairAct(c)))

-----------------------------------------------------------------------------
(* Properties *)

\* An outdated notification: the chair has completed another ride since r.
ChairWentOn(r) ==
  \E q \in RidesOfChair(rides[r].chair) : q > r /\ rides[q].stage = Completed

\* What explains a report: each error has one kind of cause, and the
\* transitions the clients call unexpected never happen.
Explained(code, r) ==
  CASE code = "ChairAlreadyHasRequest" ->
         \E q \in RidesOfChair(rides[r].chair) : q < r /\ <<"chair", q, Completed>> \in faults
    [] code = "SkippedPaymentButEvaluated" -> <<"unpaid", r, Arrived>> \in faults
    [] code = "UserReceivedDataIsWrong" ->
         \/ ChairWentOn(r)
         \/ /\ <<"user", r, Dispatching>> \in faults
            /\ \E q \in RidesOfUser(rides[r].user) : q < r
    [] code = "FailedToAcceptRequest" -> <<"refused", r, Matching>> \in faults
    [] code = "FailedToDepart" -> <<"refused", r, Dispatched>> \in faults
    [] code = "FailedToEvaluate" -> <<"refused", r, Arrived>> \in faults
    [] code = "FailedToSendChairCoordinate" ->
         \E s \in {Dispatching, Carrying} : <<"refused", r, s>> \in faults
    [] OTHER -> FALSE

\* A client reports an error only when a fault has caused it, or when a
\* notification waited in a queue while its chair completed another ride: as long
\* as calls that fail have no effect, the clients accept whatever a correct server
\* may send them, in any interleaving of ticks, calls and polls (user.go:376,
\* chair.go:416).
OnlyFaultsAreReported == \A x \in reports : Explained(x[1], x[2])

\* Desired is what the server has recorded, one step behind or ahead only
\* while the call that makes this step is under way; no side is told more than
\* was recorded (request.go:240).  A call that fails is one that had no effect.
StatusesAgree ==
  \A r \in 1 .. Len(rides) :
    LET u == rides[r].user
        calling(pc) == \E c \in Chairs : chair[c].req = r /\ chair[c].pc = pc
        behind == \/ calling("accepted") \/ calling("departed")
                  \/ user[u].req = r /\ user[u].pc = "rated"
    IN
    /\ rides[r].stage - reqs[r].desired =
         IF behind THEN 1 ELSE IF calling("sending") THEN -1 ELSE 0
    /\ reqs[r].user <= rides[r].stage
    /\ reqs[r].chair <= reqs[r].desired

\* Every ride that was requested is completed, for the user, for the chair and
\* at the server, and its lock released (an evaluation that was not paid keeps
\* it, user.go:190), or else an error has ended the run: however ticks, calls
\* and polls interleave, nobody waits for ever for a notification, a status or
\* the lock, if calls that fail had no effect.
Over(r) ==
  /\ rides[r].stage = Completed /\ reqs[r].desired = Completed
  /\ reqs[r].user = Completed /\ reqs[r].chair = Completed
  /\ reqs[r].holder = NoOne
EveryRideCompletes == []<>(stopped \/ \A r \in DOMAIN reqs : Over(r))
=============================================================================
