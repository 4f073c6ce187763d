---------------------------- MODULE World_proofs ----------------------------
(***************************************************************************)
(* The benchmarker's clients report no error of a correct service, for any *)
(* number of users, chairs, rides and faults and any capacity of their     *)
(* queues.                                                                 *)
(*                                                                         *)
(* The argument: a chair works on one ride, and the four numbers of a ride *)
(* (stage, Desired, Chair, User) are those of a row of a short table that  *)
(* the chair's step names (WorkOK).  The queues are sorted by ride and     *)
(* status, so that what is left of a past ride is its end only; and the    *)
(* total a notification states is the number of the chair's rides before   *)
(* this one, which no step changes.                                        *)
(***************************************************************************)
EXTENDS World, FiniteSetTheorems, SequenceTheorems, WellFoundedInduction, TLAPS

USE DEF Matching, Dispatching, Dispatched, Carrying, Arrived, Completed,
        Nothing, FullLog

-----------------------------------------------------------------------------
(* The invariant.                                                          *)

Given == 1 .. Len(rides)

\* A chair works on the ride.
Driven(q) == rides[q].chair # NoOne /\ chair[rides[q].chair].req = q

Unstarted(q) ==
  rides[q].stage = Matching /\ reqs[q].desired = Matching /\ reqs[q].chair = Matching

Finished(q) ==
  rides[q].stage = Completed /\ reqs[q].desired = Completed /\ reqs[q].chair = Completed

BeingRated(q) == user[rides[q].user].req = q /\ user[rides[q].user].pc = "rated"

\* What the server, the desired status and the chair's status are, by the
\* chair's step.
UnderWay(q) ==
  LET stage == rides[q].stage
      c     == rides[q].chair
      pc    == chair[c].pc
  IN
  \/ /\ pc = "idle" /\ stage \in Matching .. Arrived
     /\ reqs[q].desired = stage /\ reqs[q].chair = stage
  \/ /\ pc = "idle" /\ stage = Completed /\ reqs[q].chair = Arrived
     /\ \/ reqs[q].desired = Completed
        \/ reqs[q].desired = Arrived /\ BeingRated(q)
  \/ pc = "refused" /\ Unstarted(q) /\ reqs[q].holder = c
  \/ /\ pc = "accepted" /\ stage = Dispatching /\ reqs[q].holder = c
     /\ reqs[q].desired = Matching /\ reqs[q].chair = Matching
  \/ /\ pc = "sending" /\ stage \in {Dispatching, Carrying}
     /\ reqs[q].desired = stage + 1 /\ reqs[q].chair = stage + 1
  \/ /\ pc = "departed" /\ stage = Carrying
     /\ reqs[q].desired = Dispatched /\ reqs[q].chair = Dispatched

\* A ride without a chair at work has not begun or is over.
WorkOK(q) ==
  /\ Driven(q) => UnderWay(q)
  /\ ~Driven(q) => \/ Unstarted(q)
                   \/ /\ Finished(q) /\ rides[q].chair # NoOne
                      /\ chair[rides[q].chair].matching # q

\* The user's status is what was sent, and the server waits for it twice.
RideOK(q) ==
  /\ reqs[q].user = Matching \/ reqs[q].user <= rides[q].app
  /\ rides[q].app <= rides[q].stage /\ rides[q].chr <= rides[q].stage
  /\ reqs[q].evaluated <=> reqs[q].desired = Completed
  /\ rides[q].stage >= Carrying => reqs[q].user >= Dispatched
  /\ rides[q].stage = Completed => reqs[q].user >= Arrived
  /\ reqs[q].user = Completed => reqs[q].desired = Completed
  /\ rides[q].chair = NoOne => rides[q].chr = 0 /\ rides[q].stage = Matching
  /\ reqs[q].chair = Completed => rides[q].chr = FullLog

Latest(u, q) == \A p \in RidesOfUser(u) : p <= q

\* A ride is being booked, or its user's current one, or over for its user.
OwnedOK(q) ==
  LET u == rides[q].user IN
  /\ ~reqs[q].known => /\ user[u].pc = "booked" /\ Latest(u, q)
                       /\ rides[q].app = 0 /\ rides[q].stage = Matching
  /\ reqs[q].known /\ user[u].req # q => reqs[q].user = Completed

UserOK(u) ==
  LET r == user[u].req IN
  /\ r # Nothing => /\ r \in Given /\ rides[r].user = u /\ reqs[r].known
                    /\ Latest(u, r) /\ user[u].pc # "booked"
                    /\ user[u].conn # "open" => rides[r].app = 0
  /\ r = Nothing => user[u].pc \in {"idle", "booked"} /\ user[u].conn # "open"
  /\ user[u].pc = "booked" => \E q \in RidesOfUser(u) : ~reqs[q].known
  /\ user[u].conn = "closing" => \E q \in RidesOfUser(u) : reqs[q].user = Completed
  /\ user[u].pc = "rated" => /\ rides[r].stage = Completed /\ reqs[r].desired = Arrived
                             /\ reqs[r].holder = u
                             /\ reqs[r].paid \/ <<"unpaid", r, Arrived>> \in faults
  /\ user[u].pc = "refused" => <<"refused", r, Arrived>> \in faults /\ rides[r].stage >= Arrived

ChairOK(c) ==
  LET r == chair[c].req IN
  /\ chair[c].matching # Nothing => /\ chair[c].matching \in Given
                                    /\ rides[chair[c].matching].chair = c
  /\ r # Nothing => r = chair[c].matching /\ reqs[r].known
  /\ r = Nothing => chair[c].pc = "idle"
  /\ chair[c].pc = "refused" => <<"refused", r, Matching>> \in faults

\* Rides get their chairs in their order, and a chair its next ride when it
\* has been told everything about the one before.
OrderOK ==
  \A p, q \in Given : q < p =>
    /\ rides[p].chair # NoOne => rides[q].chair # NoOne
    /\ rides[p].chair = rides[q].chair /\ rides[p].chair # NoOne =>
         /\ rides[q].stage = Completed /\ rides[q].chr = FullLog
         /\ rides[p].stage # Matching => reqs[q].chair = Completed

Sorted(queue) ==
  \A i, j \in 1 .. Len(queue) : i < j =>
    /\ queue[i].ride <= queue[j].ride
    /\ queue[i].ride = queue[j].ride => queue[i].status <= queue[j].status

Holds(queue, r, status) ==
  \E i \in 1 .. Len(queue) : queue[i].ride = r /\ queue[i].status = status

\* A notification in the queue of a chair ...
ChairEventOK(c, e) ==
  /\ e.ride \in Given /\ rides[e.ride].chair = c
  /\ e.status <= rides[e.ride].chr
  /\ reqs[e.ride].chair = Completed => e.status = Completed
  /\ chair[c].matching <= e.ride

ChairQueueOK(c) ==
  LET queue == chair[c].queue
      r     == chair[c].matching
  IN
  /\ Sorted(queue)
  /\ \A i \in 1 .. Len(queue) : ChairEventOK(c, queue[i])
  /\ r # Nothing /\ rides[r].chr = FullLog =>
       <<"chair", r, Completed>> \in faults \/ Holds(queue, r, Completed)

\* The rides of r's chair before r, and r with them.
Before(r) == {q \in RidesOfChair(rides[r].chair) : q < r}
UpTo(r)   == {q \in RidesOfChair(rides[r].chair) : q <= r}

\* ... and of a user.
UserEventOK(u, e) ==
  /\ e.ride \in Given /\ rides[e.ride].user = u /\ reqs[e.ride].known
  /\ reqs[e.ride].user <= e.status /\ e.status <= rides[e.ride].app
  /\ user[u].req # Nothing /\ reqs[user[u].req].user # Matching => e.ride = user[u].req
  /\ e.status \in Dispatching .. Arrived => e.total = Cardinality(Before(e.ride))
  /\ e.status = Completed => ChairWentOn(e.ride) \/ e.total = Cardinality(UpTo(e.ride))

UserQueueOK(u) ==
  /\ Sorted(user[u].queue)
  /\ \A i \in 1 .. Len(user[u].queue) : UserEventOK(u, user[u].queue[i])

\* What the user remembers of the chair; an ENROUTE is on its way, or was lost.
ValidatedOK(u) ==
  LET v == user[u].validated
      r == user[u].req
  IN
  /\ v.ride # Nothing => /\ v.ride \in RidesOfUser(u) /\ rides[v.ride].chair # NoOne
                         /\ v.total = Cardinality(Before(v.ride))
  /\ r # Nothing =>
       /\ reqs[r].user # Matching => v.ride = r
       /\ rides[r].app >= Dispatching =>
            \/ v.ride = r \/ ChairWentOn(r)
            \/ <<"user", r, Dispatching>> \in faults
            \/ Holds(user[u].queue, r, Dispatching)

RidesInv == \A q \in Given : WorkOK(q) /\ RideOK(q) /\ OwnedOK(q)
ChairsInv == \A c \in Chairs : ChairOK(c)
UsersInv == \A u \in Users : UserOK(u)
ChairQueuesInv == \A c \in Chairs : ChairQueueOK(c)
UserQueuesInv == \A u \in Users : UserQueueOK(u) /\ ValidatedOK(u)

\* What was reported stays explained: its ride keeps its chair.
ReportsOK ==
  \A x \in reports :
    /\ x[2] \in Given /\ Explained(x[1], x[2])
    /\ x[1] = "ChairAlreadyHasRequest" => rides[x[2]].chair # NoOne

WorldInv ==
  /\ TypeOK /\ RidesInv /\ ChairsInv /\ UsersInv /\ OrderOK
  /\ ChairQueuesInv /\ UserQueuesInv /\ ReportsOK

-----------------------------------------------------------------------------
(* Numbers, sequences and records.                                         *)

LEMMA LeastIsThere ==
  ASSUME NEW S \in SUBSET Nat, S # {}
  PROVE  Min(S) \in S /\ \A x \in S : Min(S) <= x
<1>1. IsWellFoundedOn(OpToRel(<, Nat), Nat)
  BY NatLessThanWellFounded, ZenonT(40)
<1>2. PICK k \in S : \A m \in S : ~(<<m, k>> \in OpToRel(<, Nat))
  BY <1>1, WFMin, ZenonT(40)
<1>3. \A m \in S : ~(m < k)
  BY <1>2 DEF OpToRel
<1>4. \A m \in S : k <= m
  BY <1>3
<1>. QED  BY <1>4 DEF Min

LEMMA GreatestIsThere ==
  ASSUME NEW n \in Nat, NEW S \in SUBSET (1 .. n), S # {}
  PROVE  Max(S) \in S /\ \A x \in S : x <= Max(S)
<1> DEFINE T == {k \in Nat : n - k \in S}
<1>1. T # {} /\ T \in SUBSET Nat
  <2>1. PICK x \in S : TRUE
    OBVIOUS
  <2>2. n - x \in Nat /\ n - (n - x) = x
    BY <2>1
  <2>. QED  BY <2>1, <2>2
<1>2. PICK k \in T : \A m \in T : k <= m
  <2>. HIDE DEF T
  <2>. QED  BY <1>1, LeastIsThere
<1>3. ASSUME NEW y \in S
      PROVE  y <= n - k
  <2>1. n - y \in Nat /\ n - (n - y) = y
    OBVIOUS
  <2>2. k <= n - y
    BY <1>2, <2>1
  <2>. QED  BY <2>2, <1>2
<1>4. n - k \in S /\ \A y \in S : n - k >= y
  BY <1>2, <1>3
<1>5. Max(S) \in S /\ \A y \in S : Max(S) >= y
  BY <1>4 DEF Max
<1>. HIDE DEF T
<1>6. PICK m : m = Max(S)
  OBVIOUS
<1>7. m \in S /\ \A y \in S : m >= y
  BY <1>5, <1>6
<1>8. m \in S /\ \A y \in S : y <= m
  BY <1>7
<1>. QED  BY <1>6, <1>8

LEMMA LesserOfTwo ==
  ASSUME NEW a \in Int, NEW b \in Int
  PROVE  Min({a, b}) = IF a <= b THEN a ELSE b
<1>1. PICK x \in {a, b} : \A y \in {a, b} : x <= y
  OBVIOUS
<1>2. Min({a, b}) \in {a, b} /\ \A y \in {a, b} : Min({a, b}) <= y
  BY <1>1 DEF Min
<1>. QED  BY <1>2

\* A number of rides.
LEMMA CountType ==
  ASSUME NEW n \in Nat, NEW S \in SUBSET (1 .. n)
  PROVE  Cardinality(S) \in 0 .. n
<1>1. IsFiniteSet(1 .. n) /\ Cardinality(1 .. n) = n
  BY FS_Interval
<1>2. IsFiniteSet(S) /\ Cardinality(S) <= n
  BY <1>1, FS_Subset
<1>. QED  BY <1>2, FS_CardinalityType

\* One entry of a sequence changes.
LEMMA EntryChanges ==
  ASSUME NEW S, NEW s \in Seq(S), NEW i \in 1 .. Len(s), NEW x \in S
  PROVE  /\ [s EXCEPT ![i] = x] \in Seq(S)
         /\ Len([s EXCEPT ![i] = x]) = Len(s)
         /\ [s EXCEPT ![i] = x][i] = x
         /\ \A j \in 1 .. Len(s) : j # i => [s EXCEPT ![i] = x][j] = s[j]
OBVIOUS

\* A queue takes a notification.
LEMMA QueueGrows ==
  ASSUME NEW s \in Seq(Event), NEW e \in Event
  PROVE  /\ Append(s, e) \in Seq(Event) /\ Len(Append(s, e)) = Len(s) + 1
         /\ Append(s, e)[Len(s) + 1] = e
         /\ \A i \in 1 .. Len(s) : Append(s, e)[i] = s[i]
OBVIOUS

\* A queue gives its head away.
LEMMA QueueShrinks ==
  ASSUME NEW s \in Seq(Event), s # <<>>
  PROVE  /\ Len(s) \in Nat \ {0} /\ Head(s) = s[1] /\ Head(s) \in Event
         /\ Tail(s) \in Seq(Event) /\ Len(Tail(s)) = Len(s) - 1
         /\ \A i \in 1 .. Len(Tail(s)) : Tail(s)[i] = s[i + 1] /\ i + 1 \in 1 .. Len(s)
OBVIOUS

LEMMA EventFields ==
  ASSUME NEW s \in Seq(Event), NEW i \in 1 .. Len(s)
  PROVE  /\ s[i] \in Event /\ s[i].ride \in Ids /\ s[i].ride \in Nat \ {0}
         /\ s[i].status \in 1 .. 6 /\ s[i].total \in 0 .. MaxRides
<1>1. s[i] \in Event
  BY ElementOfSeq
<1>. QED  BY <1>1, WorldAssumption DEF Event, Ids, RequestStatus

LEMMA SortedGrows ==
  ASSUME NEW s \in Seq(Event), NEW e \in Event, Sorted(s),
         \A i \in 1 .. Len(s) :
           \/ s[i].ride < e.ride
           \/ s[i].ride = e.ride /\ s[i].status <= e.status
  PROVE  Sorted(Append(s, e))
<1> DEFINE t == Append(s, e)
<1>1. /\ Len(t) = Len(s) + 1 /\ t[Len(s) + 1] = e /\ Len(s) \in Nat
      /\ \A i \in 1 .. Len(s) : t[i] = s[i]
  BY QueueGrows
<1>2. \A i \in 1 .. Len(s) : s[i].ride \in Nat /\ s[i].status \in Nat
  BY EventFields
<1>3. e.ride \in Nat /\ e.status \in Nat
  BY WorldAssumption DEF Event, Ids, RequestStatus
<1>. HIDE DEF t
<1>4. ASSUME NEW i \in 1 .. Len(t), NEW j \in 1 .. Len(t), i < j
      PROVE  /\ t[i].ride <= t[j].ride
             /\ t[i].ride = t[j].ride => t[i].status <= t[j].status
  <2>1. i \in 1 .. Len(s) /\ t[i] = s[i]
    BY <1>1, <1>4
  <2>2. CASE j = Len(s) + 1
    BY <1>1, <1>2, <1>3, <2>1, <2>2
  <2>3. CASE j \in 1 .. Len(s)
    BY <1>1, <1>4, <2>1, <2>3 DEF Sorted
  <2>. QED  BY <1>1, <2>2, <2>3
<1>5. Sorted(t)
  BY <1>4 DEF Sorted
<1>. QED  BY <1>5 DEF t

\* What is left is sorted and not before what was taken.
LEMMA SortedShrinks ==
  ASSUME NEW s \in Seq(Event), s # <<>>, Sorted(s)
  PROVE  /\ Sorted(Tail(s))
         /\ \A i \in 1 .. Len(s) :
              /\ Head(s).ride <= s[i].ride
              /\ Head(s).ride = s[i].ride => Head(s).status <= s[i].status
<1>1. /\ Len(s) \in Nat \ {0} /\ Head(s) = s[1] /\ Len(Tail(s)) = Len(s) - 1
      /\ \A i \in 1 .. Len(Tail(s)) : Tail(s)[i] = s[i + 1] /\ i + 1 \in 1 .. Len(s)
  BY QueueShrinks
<1>2. Sorted(Tail(s))
  BY <1>1 DEF Sorted
<1>3. \A i \in 1 .. Len(s) : s[i].ride \in Nat /\ s[i].status \in Nat
  BY EventFields
<1>4. \A i \in 1 .. Len(s) : i = 1 \/ 1 < i
  BY <1>1
<1>5. 1 \in 1 .. Len(s)
  BY <1>1
<1>6. ASSUME NEW i \in 1 .. Len(s)
      PROVE  /\ s[1].ride <= s[i].ride
             /\ s[1].ride = s[i].ride => s[1].status <= s[i].status
  <2>1. CASE i = 1
    BY <1>3, <2>1
  <2>2. CASE 1 < i
    BY <1>5, <2>2 DEF Sorted
  <2>. QED  BY <1>4, <2>1, <2>2
<1>. QED  BY <1>1, <1>2, <1>6

-----------------------------------------------------------------------------
(* The fields.                                                             *)

LEMMA RideFields ==
  ASSUME TypeOK, NEW q \in Given
  PROVE  /\ q \in Ids /\ q \in Nat \ {0} /\ rides[q] \in Ride /\ reqs[q] \in Request
         /\ rides[q].user \in Users /\ rides[q].chair \in Chairs \cup {NoOne}
         /\ rides[q].stage \in 1 .. 6 /\ rides[q].app \in 0 .. 6 /\ rides[q].chr \in 0 .. 6
         /\ reqs[q].known \in BOOLEAN /\ reqs[q].evaluated \in BOOLEAN
         /\ reqs[q].desired \in 1 .. 6 /\ reqs[q].chair \in 1 .. 6
         /\ reqs[q].user \in 1 .. 6
<1>1. /\ q \in 1 .. Len(rides) /\ q \in 1 .. Len(reqs) /\ Len(rides) \in Nat
      /\ Len(rides) <= MaxRides /\ rides \in Seq(Ride) /\ reqs \in Seq(Request)
  BY DEF TypeOK, Given
<1>2. rides[q] \in Ride /\ reqs[q] \in Request
  BY <1>1, ElementOfSeq
<1>3. q \in Ids /\ q \in Nat \ {0}
  BY <1>1, WorldAssumption DEF Ids
<1>. QED  BY <1>2, <1>3 DEF Ride, Request, RequestStatus

LEMMA NewRideFields ==
  ASSUME TypeOK', NEW q \in Given'
  PROVE  /\ rides'[q].user \in Users /\ rides'[q].chair \in Chairs \cup {NoOne}
         /\ rides'[q].stage \in 1 .. 6 /\ rides'[q].app \in 0 .. 6 /\ rides'[q].chr \in 0 .. 6
         /\ reqs'[q].known \in BOOLEAN /\ reqs'[q].evaluated \in BOOLEAN
         /\ reqs'[q].desired \in 1 .. 6 /\ reqs'[q].chair \in 1 .. 6
         /\ reqs'[q].user \in 1 .. 6
<1>1. /\ q \in 1 .. Len(rides') /\ q \in 1 .. Len(reqs')
      /\ rides' \in Seq(Ride) /\ reqs' \in Seq(Request)
  BY DEF TypeOK, Given
<1>2. rides'[q] \in Ride /\ reqs'[q] \in Request
  BY <1>1, ElementOfSeq
<1>. QED  BY <1>2 DEF Ride, Request, RequestStatus

LEMMA UserFields ==
  ASSUME TypeOK, NEW u \in Users
  PROVE  /\ user[u] \in User /\ user[u].pc \in {"idle", "booked", "rated", "refused"}
         /\ user[u].req \in {Nothing} \cup Ids /\ user[u].req \in Nat
         /\ user[u].conn \in {"none", "open", "closing"}
         /\ user[u].queue \in Seq(Event)
         /\ user[u].validated \in [ride : {Nothing} \cup Ids, total : 0 .. MaxRides]
<1>1. user[u] \in User
  BY DEF TypeOK
<1>. QED  BY <1>1, WorldAssumption DEF User, Ids

LEMMA ChairFields ==
  ASSUME TypeOK, NEW c \in Chairs
  PROVE  /\ chair[c] \in Chair
         /\ chair[c].pc \in {"idle", "accepted", "refused", "departed", "sending"}
         /\ chair[c].req \in {Nothing} \cup Ids /\ chair[c].req \in Nat
         /\ chair[c].matching \in {Nothing} \cup Ids /\ chair[c].matching \in Nat
         /\ chair[c].active \in BOOLEAN /\ chair[c].queue \in Seq(Event)
<1>1. chair[c] \in Chair
  BY DEF TypeOK
<1>. QED  BY <1>1, WorldAssumption DEF Chair, Ids

-----------------------------------------------------------------------------
(* What a step leaves true of the rides, users and chairs it is not about. *)

\* Every step: rides keep their user and their chair and go on.
Grows ==
  /\ Len(rides) <= Len(rides') /\ faults \subseteq faults'
  /\ \A q \in Given :
       /\ rides'[q].user = rides[q].user
       /\ rides[q].chair # NoOne => rides'[q].chair = rides[q].chair
       /\ rides[q].stage <= rides'[q].stage

\* ... and of no new ride.
SameRides ==
  /\ Len(rides') = Len(rides)
  /\ \A q \in Given : rides'[q].user = rides[q].user /\ rides'[q].chair = rides[q].chair

LEMMA GivenGrows ==
  ASSUME TypeOK, TypeOK', Grows
  PROVE  Given \subseteq Given'
BY DEF TypeOK, Grows, Given

LEMMA RidesOfStay ==
  ASSUME SameRides
  PROVE  /\ Given' = Given
         /\ \A u : RidesOfUser(u)' = RidesOfUser(u)
         /\ \A c : RidesOfChair(c)' = RidesOfChair(c)
<1>1. Given' = Given
  BY DEF SameRides, Given
<1>2. \A u : RidesOfUser(u)' = RidesOfUser(u)
  BY DEF SameRides, Given, RidesOfUser
<1>3. \A c : RidesOfChair(c)' = RidesOfChair(c)
  BY DEF SameRides, Given, RidesOfChair
<1>. QED  BY <1>1, <1>2, <1>3

LEMMA WentOnStays ==
  ASSUME TypeOK, TypeOK', RidesInv, Grows, NEW r \in Given, ChairWentOn(r)
  PROVE  ChairWentOn(r)'
<1>1. PICK q \in RidesOfChair(rides[r].chair) : q > r /\ rides[q].stage = 6
  BY DEF ChairWentOn
<1>2. q \in Given /\ rides[q].chair = rides[r].chair
  BY <1>1 DEF RidesOfChair, Given
<1>3. rides[q].chair # NoOne
  BY <1>1, <1>2 DEF RidesInv, RideOK
<1>4. q \in Given' /\ rides'[q].chair = rides[q].chair /\ rides'[r].chair = rides[r].chair
  BY <1>2, <1>3, GivenGrows DEF Grows
<1>5. rides'[q].stage = 6
  BY <1>1, <1>2, <1>4, RideFields, NewRideFields DEF Grows
<1>6. q \in RidesOfChair(rides[r].chair)'
  BY <1>2, <1>4 DEF RidesOfChair, Given
<1>. QED  BY <1>1, <1>5, <1>6 DEF ChairWentOn

\* A ride's place among the rides of its chair is settled with the chair.
LEMMA PlaceStays ==
  ASSUME TypeOK, TypeOK', OrderOK, Grows, NEW r \in Given, rides[r].chair # NoOne
  PROVE  Before(r)' = Before(r) /\ UpTo(r)' = UpTo(r)
<1>1. r \in Given' /\ rides'[r].chair = rides[r].chair /\ r \in Nat
  BY GivenGrows, RideFields DEF Grows
<1>2. ASSUME NEW q \in Nat, q <= r
      PROVE  q \in RidesOfChair(rides[r].chair)' <=> q \in RidesOfChair(rides[r].chair)
  <2>1. q \in 1 .. Len(rides) <=> q \in 1 .. Len(rides')
    BY <1>1, <1>2 DEF Given, TypeOK
  <2>2. CASE q \in Given
    <3>1. rides[q].chair # NoOne
      <4>1. CASE q = r
        BY <4>1
      <4>2. CASE q < r
        BY <2>2, <4>2 DEF OrderOK
      <4>. QED  BY <1>1, <1>2, <4>1, <4>2
    <3>2. rides'[q].chair = rides[q].chair
      BY <2>2, <3>1 DEF Grows
    <3>. QED  BY <1>1, <2>1, <2>2, <3>2 DEF RidesOfChair, Given
  <2>3. CASE q \notin Given
    BY <2>1, <2>3 DEF RidesOfChair, Given
  <2>. QED  BY <2>2, <2>3
<1>3. /\ \A q \in RidesOfChair(rides[r].chair) : q \in Nat
      /\ \A q \in RidesOfChair(rides[r].chair)' : q \in Nat
  BY DEF RidesOfChair, TypeOK
<1>4. \A q \in Nat : q < r => q <= r
  BY <1>1
<1>5. Before(r)' = Before(r)
  BY <1>1, <1>2, <1>3, <1>4 DEF Before
<1>6. UpTo(r)' = UpTo(r)
  BY <1>1, <1>2, <1>3 DEF UpTo
<1>. QED  BY <1>5, <1>6

LEMMA ReportsStay ==
  ASSUME TypeOK, TypeOK', RidesInv, OrderOK, ReportsOK, Grows
  PROVE  \A x \in reports :
           /\ x[2] \in Given' /\ Explained(x[1], x[2])'
           /\ x[1] = "ChairAlreadyHasRequest" => rides'[x[2]].chair # NoOne
<1>1. SUFFICES ASSUME NEW x \in reports
               PROVE  /\ x[2] \in Given' /\ Explained(x[1], x[2])'
                      /\ x[1] = "ChairAlreadyHasRequest" => rides'[x[2]].chair # NoOne
  OBVIOUS
<1>2. PICK code, r : code = x[1] /\ r = x[2]
  OBVIOUS
<1>3. /\ r \in Given /\ r \in Given' /\ Explained(code, r)
      /\ code = "ChairAlreadyHasRequest" => rides[r].chair # NoOne
  BY <1>2, GivenGrows DEF ReportsOK
<1>4. rides'[r].user = rides[r].user
  BY <1>3 DEF Grows
<1>5. \A y \in faults : y \in faults'
  BY DEF Grows
<1>6. CASE code = "ChairAlreadyHasRequest"
  <2>1. PICK q \in RidesOfChair(rides[r].chair) : q < r /\ <<"chair", q, 6>> \in faults
    BY <1>3, <1>6 DEF Explained
  <2>2. q \in Given /\ rides[q].chair = rides[r].chair
    BY <2>1 DEF RidesOfChair, Given
  <2>3. q \in Given' /\ rides'[q].chair = rides[r].chair /\ rides'[r].chair = rides[r].chair
    BY <1>3, <1>6, <2>2, GivenGrows DEF Grows
  <2>4. q \in RidesOfChair(rides[r].chair)'
    BY <2>2, <2>3 DEF RidesOfChair, Given
  <2>. QED  BY <1>2, <1>3, <1>5, <1>6, <2>1, <2>3, <2>4 DEF Explained
<1>7. CASE code = "UserReceivedDataIsWrong"
  <2>1. CASE ChairWentOn(r)
    BY <1>2, <1>3, <1>7, <2>1, WentOnStays DEF Explained
  <2>2. CASE /\ <<"user", r, 2>> \in faults
             /\ \E q \in RidesOfUser(rides[r].user) : q < r
    <3>1. PICK q \in RidesOfUser(rides[r].user) : q < r
      BY <2>2
    <3>2. q \in Given /\ q \in Given' /\ rides'[q].user = rides[r].user
      BY <3>1, GivenGrows DEF Grows, RidesOfUser, Given
    <3>3. q \in RidesOfUser(rides[r].user)'
      BY <1>4, <3>2 DEF RidesOfUser, Given
    <3>. QED  BY <1>2, <1>3, <1>5, <1>7, <2>2, <3>1, <3>3 DEF Explained
  <2>. QED  BY <1>3, <1>7, <2>1, <2>2 DEF Explained
<1>8. CASE code \notin {"ChairAlreadyHasRequest", "UserReceivedDataIsWrong"}
  BY <1>2, <1>3, <1>5, <1>8 DEF Explained
<1>. QED  BY <1>6, <1>7, <1>8

LEMMA NothingReported ==
  ASSUME TypeOK, TypeOK', RidesInv, OrderOK, ReportsOK, Grows, reports' = reports
  PROVE  ReportsOK'
BY ReportsStay DEF ReportsOK

LEMMA ExplainedReport ==
  ASSUME TypeOK, TypeOK', RidesInv, OrderOK, ReportsOK, Grows,
         NEW code, NEW r \in Given', reports' = reports \cup {<<code, r>>},
         Explained(code, r)',
         code = "ChairAlreadyHasRequest" => rides'[r].chair # NoOne
  PROVE  ReportsOK'
<1>1. \A x \in reports' : x \in reports \/ x = <<code, r>>
  OBVIOUS
<1>. QED  BY <1>1, ReportsStay DEF ReportsOK

LEMMA ChairQueueStays ==
  ASSUME TypeOK, TypeOK', Grows, NEW c \in Chairs, ChairOK(c), ChairQueueOK(c),
         chair'[c].queue = chair[c].queue, chair'[c].matching = chair[c].matching,
         \A q \in Given : rides[q].chair = c =>
           /\ rides'[q].chr = rides[q].chr
           /\ reqs'[q].chair = Completed => reqs[q].chair = Completed
  PROVE  ChairQueueOK(c)'
<1>4. PICK queue : queue = chair[c].queue
  OBVIOUS
<1>0. c # NoOne
  BY WorldAssumption
<1>1. ASSUME NEW i \in 1 .. Len(queue)
      PROVE  ChairEventOK(c, queue[i])'
  <2>1. PICK e : e = queue[i]
    OBVIOUS
  <2>2. ChairEventOK(c, e)
    BY <1>4, <2>1 DEF ChairQueueOK
  <2>3. e.ride \in Given' /\ rides'[e.ride].chair = c
    BY <1>0, <2>2, GivenGrows DEF ChairEventOK, Grows
  <2>4. ChairEventOK(c, e)'
    BY <2>2, <2>3 DEF ChairEventOK
  <2>. QED  BY <2>1, <2>4
<1>2. Sorted(queue)
  BY <1>4 DEF ChairQueueOK
<1>3. ASSUME chair[c].matching # Nothing, rides'[chair[c].matching].chr = FullLog
      PROVE  \/ <<"chair", chair[c].matching, Completed>> \in faults'
             \/ Holds(queue, chair[c].matching, Completed)
  <2>1. chair[c].matching \in Given /\ rides[chair[c].matching].chair = c
    BY <1>3 DEF ChairOK
  <2>2. rides[chair[c].matching].chr = FullLog
    BY <1>3, <2>1
  <2>. QED  BY <1>3, <1>4, <2>2 DEF ChairQueueOK, Grows
<1>. QED  BY <1>1, <1>2, <1>3, <1>4 DEF ChairQueueOK

\* What a user's notification says stays right, ...
LEMMA UserEventStays ==
  ASSUME TypeOK, TypeOK', RidesInv, OrderOK, Grows, NEW u \in Users, NEW e \in Event,
         UserEventOK(u, e),
         reqs[e.ride].known => reqs'[e.ride].known,
         rides[e.ride].app <= rides'[e.ride].app,
         reqs'[e.ride].user <= e.status,
         user'[u].req # Nothing /\ reqs'[user'[u].req].user # Matching => e.ride = user'[u].req
  PROVE  UserEventOK(u, e)'
<1>1. /\ e.ride \in Given /\ e.ride \in Given' /\ rides'[e.ride].user = u
      /\ reqs'[e.ride].known /\ e.status \in 1 .. 6
  BY GivenGrows DEF UserEventOK, Grows, Event, RequestStatus
<1>2. e.status <= rides'[e.ride].app
  BY <1>1, RideFields, NewRideFields DEF UserEventOK
<1>3. e.status > 1 => rides[e.ride].chair # NoOne
  <2>1. RideOK(e.ride)
    BY <1>1 DEF RidesInv
  <2>. QED  BY <1>1, <2>1, RideFields DEF RideOK, UserEventOK
<1>4. e.status > 1 => Before(e.ride)' = Before(e.ride) /\ UpTo(e.ride)' = UpTo(e.ride)
  BY <1>1, <1>3, PlaceStays
<1>5. ChairWentOn(e.ride) => ChairWentOn(e.ride)'
  BY <1>1, WentOnStays
<1>. QED  BY <1>1, <1>2, <1>4, <1>5 DEF UserEventOK

\* ... and so does what the user remembers.
LEMMA RememberedStays ==
  ASSUME TypeOK, TypeOK', OrderOK, Grows, NEW u \in Users, NEW v,
         v.ride \in RidesOfUser(u), rides[v.ride].chair # NoOne,
         v.total = Cardinality(Before(v.ride))
  PROVE  /\ v.ride \in RidesOfUser(u)' /\ rides'[v.ride].chair # NoOne
         /\ v.total = Cardinality(Before(v.ride)')
<1>1. v.ride \in Given /\ rides[v.ride].user = u
  BY DEF RidesOfUser, Given
<1>2. /\ v.ride \in Given' /\ rides'[v.ride].user = u
      /\ rides'[v.ride].chair = rides[v.ride].chair
  BY <1>1, GivenGrows DEF Grows
<1>3. Before(v.ride)' = Before(v.ride)
  BY <1>1, PlaceStays
<1>. QED  BY <1>2, <1>3 DEF RidesOfUser, Given

LEMMA UserQueueStays ==
  ASSUME TypeOK, TypeOK', RidesInv, OrderOK, Grows,
         NEW u \in Users, UserOK(u), UserQueueOK(u), ValidatedOK(u),
         user'[u].queue = user[u].queue, user'[u].validated = user[u].validated,
         user'[u].req = user[u].req,
         \A q \in Given : rides[q].user = u =>
           /\ rides'[q].app = rides[q].app
           /\ reqs'[q].user = reqs[q].user /\ (reqs[q].known => reqs'[q].known)
  PROVE  UserQueueOK(u)' /\ ValidatedOK(u)'
<1>0. PICK queue, r, v : queue = user[u].queue /\ r = user[u].req /\ v = user[u].validated
  OBVIOUS
<1>1. r # Nothing => /\ r \in Given /\ rides[r].user = u
                     /\ rides'[r].app = rides[r].app /\ reqs'[r].user = reqs[r].user
  BY <1>0 DEF UserOK
<1>2. queue \in Seq(Event)
  BY <1>0, UserFields
<1>3. ASSUME NEW i \in 1 .. Len(queue)
      PROVE  UserEventOK(u, queue[i])'
  <2>1. PICK e \in Event : e = queue[i]
    BY <1>2, EventFields
  <2>2. UserEventOK(u, e)
    BY <1>0, <2>1 DEF UserQueueOK
  <2>3. /\ e.ride \in Given /\ rides[e.ride].user = u /\ e.status \in Int
        /\ reqs[e.ride].user <= e.status
        /\ r # Nothing /\ reqs[r].user # Matching => e.ride = r
    BY <1>0, <2>1, <2>2 DEF UserEventOK, Event, RequestStatus
  <2>4. rides[e.ride].app <= rides'[e.ride].app
    BY <2>3, RideFields
  <2>5. UserEventOK(u, e)'
    BY <1>0, <1>1, <2>2, <2>3, <2>4, UserEventStays
  <2>. QED  BY <2>1, <2>5
<1>4. Sorted(queue)
  BY <1>0 DEF UserQueueOK
<1>5. UserQueueOK(u)'
  BY <1>0, <1>3, <1>4 DEF UserQueueOK
<1>6. ASSUME v.ride # Nothing
      PROVE  /\ v.ride \in RidesOfUser(u)' /\ rides'[v.ride].chair # NoOne
             /\ v.total = Cardinality(Before(v.ride)')
  BY <1>0, <1>6, RememberedStays DEF ValidatedOK
<1>7. ASSUME r # Nothing
      PROVE  /\ reqs'[r].user # Matching => v.ride = r
             /\ rides'[r].app >= Dispatching =>
                  \/ v.ride = r \/ ChairWentOn(r)'
                  \/ <<"user", r, Dispatching>> \in faults'
                  \/ Holds(queue, r, Dispatching)
  <2>1. ChairWentOn(r) => ChairWentOn(r)'
    BY <1>1, <1>7, WentOnStays
  <2>. QED  BY <1>0, <1>1, <1>7, <2>1 DEF ValidatedOK, Grows
<1>8. ValidatedOK(u)'
  BY <1>0, <1>6, <1>7 DEF ValidatedOK
<1>. QED  BY <1>5, <1>8

LEMMA OrderStays ==
  ASSUME TypeOK, TypeOK', RidesInv, OrderOK, Grows, SameRides,
         \A q \in Given :
           /\ rides[q].chr <= rides'[q].chr /\ reqs[q].chair <= reqs'[q].chair
           /\ rides[q].stage = Matching /\ rides'[q].stage # Matching =>
                rides[q].chair # NoOne /\ chair[rides[q].chair].matching = q
                /\ chair[rides[q].chair].req = q
  PROVE  OrderOK'
<1>1. Given' = Given
  BY RidesOfStay
<1>2. SUFFICES ASSUME NEW p \in Given, NEW q \in Given, q < p
      PROVE  /\ rides'[p].chair # NoOne => rides'[q].chair # NoOne
             /\ rides'[p].chair = rides'[q].chair /\ rides'[p].chair # NoOne =>
                  /\ rides'[q].stage = 6 /\ rides'[q].chr = 6
                  /\ rides'[p].stage # 1 => reqs'[q].chair = 6
  BY <1>1 DEF OrderOK
<1>3. rides'[p].chair = rides[p].chair /\ rides'[q].chair = rides[q].chair
  BY DEF SameRides
<1>4. ASSUME rides[p].chair = rides[q].chair, rides[p].chair # NoOne
      PROVE  /\ rides'[q].stage = 6 /\ rides'[q].chr = 6
             /\ rides'[p].stage # 1 => reqs'[q].chair = 6
  <2>1. /\ rides[q].stage = 6 /\ rides[q].chr = 6
        /\ rides[p].stage # 1 => reqs[q].chair = 6
    BY <1>2, <1>4 DEF OrderOK
  <2>2. rides'[q].stage = 6 /\ rides'[q].chr = 6
    BY <1>1, <2>1, RideFields, NewRideFields, SMTT(40) DEF Grows
  <2>3. ASSUME rides'[p].stage # 1
        PROVE  reqs[q].chair = 6
    <3>1. CASE rides[p].stage # 1
      BY <2>1, <3>1
    <3>2. CASE rides[p].stage = 1
      <4>1. chair[rides[p].chair].matching = p /\ chair[rides[p].chair].req = p
        BY <2>3, <3>2
      <4>2. ~Driven(q)
        BY <1>2, <1>4, <4>1, RideFields DEF Driven
      <4>. QED  BY <2>1, <4>2 DEF RidesInv, WorkOK, Unstarted, Finished
    <3>. QED  BY <3>1, <3>2
  <2>4. reqs[q].chair = 6 => reqs'[q].chair = 6
    BY <1>1, RideFields, NewRideFields
  <2>. QED  BY <2>2, <2>3, <2>4
<1>. QED  BY <1>2, <1>3, <1>4 DEF OrderOK

LEMMA ChairStays ==
  ASSUME TypeOK, TypeOK', Grows, NEW c \in Chairs, ChairOK(c),
         chair'[c].req = chair[c].req, chair'[c].matching = chair[c].matching,
         chair'[c].pc = chair[c].pc,
         \A q \in Given : reqs[q].known => reqs'[q].known
  PROVE  ChairOK(c)'
<1>1. c # NoOne
  BY WorldAssumption
<1>2. chair[c].matching # Nothing => /\ chair[c].matching \in Given
                                     /\ chair[c].matching \in Given'
                                     /\ rides[chair[c].matching].chair = c
                                     /\ rides'[chair[c].matching].chair = c
  BY <1>1, GivenGrows DEF ChairOK, Grows
<1>3. chair[c].req # Nothing => chair[c].req = chair[c].matching /\ reqs'[chair[c].req].known
  BY <1>2 DEF ChairOK
<1>. QED  BY <1>2, <1>3 DEF ChairOK, Grows

LEMMA UserStays ==
  ASSUME TypeOK, TypeOK', Grows, SameRides, NEW u \in Users, UserOK(u),
         user'[u].req = user[u].req, user'[u].pc = user[u].pc, user'[u].conn = user[u].conn,
         \A q \in Given : rides[q].user = u =>
           /\ reqs'[q].known = reqs[q].known /\ reqs'[q].user = reqs[q].user
           /\ user[u].conn = "open" \/ rides'[q].app = rides[q].app
           /\ user[u].pc = "rated" /\ user[u].req = q =>
                /\ rides'[q].stage = rides[q].stage /\ reqs'[q].desired = reqs[q].desired
                /\ reqs'[q].holder = reqs[q].holder /\ reqs'[q].paid = reqs[q].paid
  PROVE  UserOK(u)'
<1>9. PICK r : r = user[u].req
  OBVIOUS
<1>1. Given' = Given /\ RidesOfUser(u)' = RidesOfUser(u)
  BY RidesOfStay
<1>2. \A q \in RidesOfUser(u) : q \in Given /\ rides[q].user = u
  BY DEF RidesOfUser, Given
<1>3. r # Nothing =>
        /\ r \in Given' /\ rides'[r].user = u /\ reqs'[r].known
        /\ Latest(u, r)' /\ user[u].pc # "booked"
        /\ user[u].conn # "open" => rides'[r].app = 0
  BY <1>1, <1>9 DEF UserOK, SameRides, Latest
<1>4. r = Nothing => user[u].pc \in {"idle", "booked"} /\ user[u].conn # "open"
  BY <1>9 DEF UserOK
<1>5. user[u].pc = "booked" => \E q \in RidesOfUser(u)' : ~reqs'[q].known
  BY <1>1, <1>2 DEF UserOK
<1>6. user[u].conn = "closing" => \E q \in RidesOfUser(u)' : reqs'[q].user = 6
  BY <1>1, <1>2 DEF UserOK
<1>7. user[u].pc = "rated" => /\ rides'[r].stage = 6 /\ reqs'[r].desired = 5
                              /\ reqs'[r].holder = u
                              /\ reqs'[r].paid \/ <<"unpaid", r, 5>> \in faults'
  <2>1. user[u].pc = "rated" => r # Nothing
    BY <1>4
  <2>2. user[u].pc = "rated" => r \in Given /\ rides[r].user = u
    BY <1>9, <2>1 DEF UserOK
  <2>. QED  BY <1>9, <2>2 DEF UserOK, Grows
<1>8. user[u].pc = "refused" => <<"refused", r, 5>> \in faults' /\ rides'[r].stage >= 5
  <2>1. user[u].pc = "refused" => r \in Given /\ rides[r].stage >= 5
    BY <1>4, <1>9 DEF UserOK
  <2>2. r \in Given => rides[r].stage \in Int /\ rides'[r].stage \in Int
                      /\ rides[r].stage <= rides'[r].stage
    BY <1>1, RideFields, NewRideFields DEF Grows
  <2>. QED  BY <1>9, <2>1, <2>2 DEF UserOK, Grows
<1>. QED  BY <1>3, <1>4, <1>5, <1>6, <1>7, <1>8, <1>9 DEF UserOK

\* A ride no field of which changes, and about which its user and its chair go
\* on as before.
UserStill(u, q) ==
  /\ user'[u].req = q <=> user[u].req = q
  /\ user[u].req = q => user'[u].pc = user[u].pc
  /\ ~reqs[q].known => user'[u].pc = user[u].pc

ChairStill(c, q) ==
  /\ chair'[c].req = q <=> chair[c].req = q
  /\ chair[c].req = q => chair'[c].pc = chair[c].pc
  /\ chair'[c].matching = q => chair[c].matching = q

LEMMA RideStays ==
  ASSUME TypeOK, TypeOK', SameRides, NEW q \in Given, WorkOK(q), RideOK(q), OwnedOK(q),
         rides'[q] = rides[q], reqs'[q] = reqs[q],
         UserStill(rides[q].user, q),
         rides[q].chair # NoOne => ChairStill(rides[q].chair, q)
  PROVE  WorkOK(q)' /\ RideOK(q)' /\ OwnedOK(q)'
<1>1. RidesOfUser(rides[q].user)' = RidesOfUser(rides[q].user)
  BY RidesOfStay
<1>2. RideOK(q)'
  BY DEF RideOK
<1>3. OwnedOK(q)'
  BY <1>1 DEF OwnedOK, UserStill, Latest
<1>4. (Unstarted(q)' <=> Unstarted(q)) /\ (Finished(q)' <=> Finished(q))
  BY DEF Unstarted, Finished
<1>5. Driven(q)' <=> Driven(q)
  BY DEF Driven, ChairStill
<1>6. CASE Driven(q)
  <2>1. chair'[rides[q].chair].pc = chair[rides[q].chair].pc
    BY <1>6 DEF Driven, ChairStill
  <2>2. BeingRated(q) => BeingRated(q)'
    BY DEF BeingRated, UserStill
  <2>3. UnderWay(q)
    BY <1>6 DEF WorkOK
  <2>4. UnderWay(q)'
    BY <1>4, <2>1, <2>2, <2>3 DEF UnderWay
  <2>. QED  BY <1>2, <1>3, <1>5, <1>6, <2>4 DEF WorkOK
<1>7. CASE ~Driven(q)
  BY <1>2, <1>3, <1>4, <1>5, <1>7 DEF WorkOK, ChairStill
<1>. QED  BY <1>6, <1>7

-----------------------------------------------------------------------------
(* The steps of a chair and of a user about their current ride.            *)

OnlyRide(r) ==
  \A q \in Given : q # r => rides'[q] = rides[q] /\ reqs'[q] = reqs[q]
OnlyUser(u)  == \A v \in Users : v # u => user'[v] = user[v]
OnlyChair(c) == \A d \in Chairs : d # c => chair'[d] = chair[d]

\* A call of a chair, or the answer to it.
ChairStep(c, r) ==
  /\ SameRides /\ OnlyRide(r) /\ OnlyChair(c) /\ user' = user /\ faults \subseteq faults'
  /\ chair'[c].req = r /\ chair'[c].matching = chair[c].matching
  /\ chair'[c].queue = chair[c].queue
  /\ rides'[r].app = rides[r].app /\ rides'[r].chr = rides[r].chr
  /\ rides[r].stage <= rides'[r].stage
  /\ reqs'[r].known = reqs[r].known /\ reqs'[r].user = reqs[r].user
  /\ reqs[r].chair <= reqs'[r].chair
  /\ reqs'[r].chair = Completed => reqs[r].chair = Completed

LEMMA ChairStepKeeps ==
  ASSUME WorldInv, TypeOK', NEW c \in Chairs, NEW r \in Given, r = chair[c].req,
         ChairStep(c, r), ~BeingRated(r),
         WorkOK(r)', RideOK(r)', chair'[c].pc = "refused" => <<"refused", r, Matching>> \in faults',
         ReportsOK'
  PROVE  WorldInv'
<1>1. /\ TypeOK /\ RidesInv /\ ChairsInv /\ UsersInv /\ OrderOK
      /\ ChairQueuesInv /\ UserQueuesInv
  BY DEF WorldInv
<1>2. Given' = Given /\ SameRides /\ r \in Nat \ {0}
  BY <1>1, RidesOfStay, RideFields DEF ChairStep
<1>3. ASSUME NEW q \in Given
      PROVE  rides[q].stage <= rides'[q].stage
  BY <1>1, <1>3, RideFields DEF ChairStep, OnlyRide
<1>4. Grows
  BY <1>2, <1>3 DEF Grows, SameRides, ChairStep, TypeOK
<1>5. chair[c].matching = r /\ rides[r].chair = c /\ Driven(r) /\ c # NoOne
  BY <1>1, <1>2, WorldAssumption DEF ChairsInv, ChairOK, Driven
<1>6. ASSUME NEW q \in Given
      PROVE  WorkOK(q)' /\ RideOK(q)' /\ OwnedOK(q)'
  <2>1. CASE q = r
    <3>1. OwnedOK(r)
      BY <1>1 DEF RidesInv
    <3>2. rides'[r].user = rides[r].user /\ RidesOfUser(rides[r].user)' = RidesOfUser(rides[r].user)
      BY <1>2, RidesOfStay DEF SameRides
    <3>3. reqs[r].known
      BY <1>1, <1>2 DEF ChairsInv, ChairOK
    <3>4. OwnedOK(r)'
      BY <3>1, <3>2, <3>3 DEF OwnedOK, ChairStep
    <3>. QED  BY <2>1, <3>4
  <2>2. CASE q # r
    <3>1. rides'[q] = rides[q] /\ reqs'[q] = reqs[q]
      BY <2>2 DEF ChairStep, OnlyRide
    <3>2. UserStill(rides[q].user, q)
      BY DEF UserStill, ChairStep
    <3>3. ASSUME rides[q].chair # NoOne
          PROVE  ChairStill(rides[q].chair, q)
      <4>1. rides[q].chair \in Chairs
        BY <1>1, <3>3, RideFields
      <4>. QED  BY <1>5, <2>2, <4>1 DEF ChairStill, ChairStep, OnlyChair
    <3>. QED  BY <1>1, <1>2, <3>1, <3>2, <3>3, RideStays DEF RidesInv
  <2>. QED  BY <2>1, <2>2
<1>7. ASSUME NEW d \in Chairs
      PROVE  ChairOK(d)' /\ ChairQueueOK(d)'
  <2>1. \A q \in Given :
          /\ rides'[q].chr = rides[q].chr /\ (reqs[q].known => reqs'[q].known)
          /\ reqs'[q].chair = Completed => reqs[q].chair = Completed
    BY DEF ChairStep, OnlyRide
  <2>2. chair'[d].queue = chair[d].queue /\ chair'[d].matching = chair[d].matching
    BY DEF ChairStep, OnlyChair
  <2>3. ChairQueueOK(d)'
    BY <1>1, <1>4, <2>1, <2>2, ChairQueueStays DEF ChairsInv, ChairQueuesInv
  <2>4. CASE d = c
    <3>1. reqs'[r].known
      BY <1>1, <1>2 DEF ChairsInv, ChairOK, ChairStep
    <3>2. ChairOK(c)'
      BY <1>2, <1>5, <3>1 DEF ChairOK, ChairStep, SameRides
    <3>. QED  BY <2>3, <2>4, <3>2
  <2>5. CASE d # c
    <3>1. chair'[d] = chair[d]
      BY <2>5 DEF ChairStep, OnlyChair
    <3>2. ChairOK(d)'
      BY <1>1, <1>4, <2>1, <3>1, ChairStays DEF ChairsInv
    <3>. QED  BY <2>3, <3>2
  <2>. QED  BY <2>4, <2>5
<1>8. ASSUME NEW u \in Users
      PROVE  UserOK(u)' /\ UserQueueOK(u)' /\ ValidatedOK(u)'
  <2>1. user'[u] = user[u]
    BY DEF ChairStep
  <2>2. \A q \in Given :
          /\ rides'[q].app = rides[q].app
          /\ reqs'[q].known = reqs[q].known /\ reqs'[q].user = reqs[q].user
    BY DEF ChairStep, OnlyRide
  <2>3. ASSUME NEW q \in Given, rides[q].user = u, user[u].pc = "rated", user[u].req = q
        PROVE  rides'[q] = rides[q] /\ reqs'[q] = reqs[q]
    <3>1. BeingRated(q)
      BY <2>3 DEF BeingRated
    <3>2. q # r
      BY <3>1
    <3>. QED  BY <3>2 DEF ChairStep, OnlyRide
  <2>4. UserOK(u)'
    BY <1>1, <1>2, <1>4, <2>1, <2>2, <2>3, UserStays DEF UsersInv
  <2>5. UserQueueOK(u)' /\ ValidatedOK(u)'
    BY <1>1, <1>4, <2>1, <2>2, UserQueueStays DEF UsersInv, UserQueuesInv
  <2>. QED  BY <2>4, <2>5
<1>9. OrderOK'
  <2>1. ASSUME NEW q \in Given
        PROVE  /\ rides[q].chr <= rides'[q].chr /\ reqs[q].chair <= reqs'[q].chair
               /\ rides[q].stage = Matching /\ rides'[q].stage # Matching =>
                    rides[q].chair # NoOne /\ chair[rides[q].chair].matching = q
                    /\ chair[rides[q].chair].req = q
    BY <1>1, <1>5, RideFields DEF ChairStep, OnlyRide
  <2>. QED  BY <1>1, <1>2, <1>4, <2>1, OrderStays
<1>. QED  BY <1>2, <1>6, <1>7, <1>8, <1>9 DEF WorldInv, RidesInv, ChairsInv, UsersInv,
                                           ChairQueuesInv, UserQueuesInv

\* A call of a user about the current ride, or the answer to it.
UserStep(u, r) ==
  /\ SameRides /\ OnlyRide(r) /\ OnlyUser(u) /\ chair' = chair /\ faults \subseteq faults'
  /\ user'[u].req = r /\ user'[u].conn = user[u].conn
  /\ user'[u].queue = user[u].queue /\ user'[u].validated = user[u].validated
  /\ rides'[r].app = rides[r].app /\ rides'[r].chr = rides[r].chr
  /\ rides[r].stage <= rides'[r].stage /\ rides[r].stage # Matching
  /\ reqs'[r].known = reqs[r].known /\ reqs'[r].user = reqs[r].user
  /\ reqs[r].chair = reqs'[r].chair

LEMMA UserStepKeeps ==
  ASSUME WorldInv, TypeOK', NEW u \in Users, NEW r \in Given, r = user[u].req,
         UserStep(u, r), WorkOK(r)', RideOK(r)', user'[u].pc # "booked",
         user'[u].pc = "rated" => /\ rides'[r].stage = Completed /\ reqs'[r].desired = Arrived
                                  /\ reqs'[r].holder = u
                                  /\ reqs'[r].paid \/ <<"unpaid", r, Arrived>> \in faults',
         user'[u].pc = "refused" =>
           <<"refused", r, Arrived>> \in faults' /\ rides'[r].stage >= Arrived,
         ReportsOK'
  PROVE  WorldInv'
<1>1. /\ TypeOK /\ RidesInv /\ ChairsInv /\ UsersInv /\ OrderOK
      /\ ChairQueuesInv /\ UserQueuesInv
  BY DEF WorldInv
<1>2. Given' = Given /\ SameRides /\ r \in Nat \ {0}
  BY <1>1, RidesOfStay, RideFields DEF UserStep
<1>3. ASSUME NEW q \in Given
      PROVE  rides[q].stage <= rides'[q].stage
  BY <1>1, <1>3, RideFields DEF UserStep, OnlyRide
<1>4. Grows
  BY <1>2, <1>3 DEF Grows, SameRides, UserStep, TypeOK
<1>5. rides[r].user = u /\ reqs[r].known /\ user[u].pc # "booked"
      /\ (user[u].conn # "open" => rides[r].app = 0) /\ Latest(u, r)
  BY <1>1, <1>2 DEF UsersInv, UserOK
<1>6. ASSUME NEW q \in Given
      PROVE  WorkOK(q)' /\ RideOK(q)' /\ OwnedOK(q)'
  <2>1. CASE q = r
    <3>1. OwnedOK(r)' <=> TRUE
      BY <1>2, <1>5 DEF OwnedOK, UserStep, SameRides
    <3>. QED  BY <2>1, <3>1
  <2>2. CASE q # r
    <3>1. rides'[q] = rides[q] /\ reqs'[q] = reqs[q]
      BY <2>2 DEF UserStep, OnlyRide
    <3>2. UserStill(rides[q].user, q)
      <4>1. CASE rides[q].user = u
        <5>1. reqs[q].known
          BY <1>1, <1>5, <4>1 DEF RidesInv, OwnedOK
        <5>. QED  BY <2>2, <4>1, <5>1 DEF UserStill, UserStep
      <4>2. CASE rides[q].user # u
        <5>1. rides[q].user \in Users
          BY <1>1, RideFields
        <5>. QED  BY <4>2, <5>1 DEF UserStill, UserStep, OnlyUser
      <4>. QED  BY <4>1, <4>2
    <3>3. rides[q].chair # NoOne => ChairStill(rides[q].chair, q)
      BY DEF ChairStill, UserStep
    <3>. QED  BY <1>1, <1>2, <3>1, <3>2, <3>3, RideStays DEF RidesInv
  <2>. QED  BY <2>1, <2>2
<1>7. ASSUME NEW d \in Chairs
      PROVE  ChairOK(d)' /\ ChairQueueOK(d)'
  <2>1. \A q \in Given :
          /\ rides'[q].chr = rides[q].chr /\ (reqs[q].known => reqs'[q].known)
          /\ reqs'[q].chair = Completed => reqs[q].chair = Completed
    BY DEF UserStep, OnlyRide
  <2>2. chair'[d] = chair[d]
    BY DEF UserStep
  <2>3. ChairQueueOK(d)'
    BY <1>1, <1>4, <2>1, <2>2, ChairQueueStays DEF ChairsInv, ChairQueuesInv
  <2>4. ChairOK(d)'
    BY <1>1, <1>4, <2>1, <2>2, ChairStays DEF ChairsInv
  <2>. QED  BY <2>3, <2>4
<1>8. ASSUME NEW v \in Users
      PROVE  UserOK(v)' /\ UserQueueOK(v)' /\ ValidatedOK(v)'
  <2>1. user'[v].queue = user[v].queue /\ user'[v].validated = user[v].validated
        /\ user'[v].req = user[v].req /\ user'[v].conn = user[v].conn
    BY DEF UserStep, OnlyUser
  <2>2. \A q \in Given :
          /\ rides'[q].app = rides[q].app
          /\ reqs'[q].known = reqs[q].known /\ reqs'[q].user = reqs[q].user
    BY DEF UserStep, OnlyRide
  <2>3. UserQueueOK(v)' /\ ValidatedOK(v)'
    BY <1>1, <1>4, <2>1, <2>2, UserQueueStays DEF UsersInv, UserQueuesInv
  <2>4. CASE v # u
    <3>1. user'[v] = user[v]
      BY <2>4 DEF UserStep, OnlyUser
    <3>2. \A q \in Given : rides[q].user = v => rides'[q] = rides[q] /\ reqs'[q] = reqs[q]
      BY <1>5, <2>4 DEF UserStep, OnlyRide
    <3>3. UserOK(v)'
      BY <1>1, <1>2, <1>4, <3>1, <3>2, UserStays DEF UsersInv
    <3>. QED  BY <2>3, <3>3
  <2>5. CASE v = u
    <3>1. RidesOfUser(u)' = RidesOfUser(u) /\ \A q \in RidesOfUser(u) : q \in Given
      BY <1>2, RidesOfStay DEF RidesOfUser, Given
    <3>2. Latest(u, r)'
      BY <1>5, <3>1 DEF Latest
    <3>3. user[u].conn = "closing" => \E q \in RidesOfUser(u)' : reqs'[q].user = Completed
      BY <1>1, <2>2, <3>1 DEF UsersInv, UserOK
    <3>4. UserOK(u)'
      BY <1>2, <1>5, <2>2, <3>2, <3>3 DEF UserOK, UserStep, SameRides
    <3>. QED  BY <2>3, <2>5, <3>4
  <2>. QED  BY <2>4, <2>5
<1>9. OrderOK'
  <2>1. ASSUME NEW q \in Given
        PROVE  /\ rides[q].chr <= rides'[q].chr /\ reqs[q].chair <= reqs'[q].chair
               /\ rides[q].stage = Matching => rides'[q].stage = Matching
    BY <1>1, RideFields DEF UserStep, OnlyRide
  <2>. QED  BY <1>1, <1>2, <1>4, <2>1, OrderStays
<1>. QED  BY <1>6, <1>7, <1>8, <1>9, <1>2 DEF WorldInv, RidesInv, ChairsInv, UsersInv,
                                           ChairQueuesInv, UserQueuesInv

-----------------------------------------------------------------------------
(* The effect of a step on the fields.                                     *)

LEMMA RidesChange ==
  ASSUME TypeOK, NEW r \in Given, NEW x \in Ride, rides' = [rides EXCEPT ![r] = x]
  PROVE  /\ rides' \in Seq(Ride) /\ Len(rides') = Len(rides) /\ rides'[r] = x
         /\ \A q \in Given : q # r => rides'[q] = rides[q]
BY EntryChanges DEF TypeOK, Given

LEMMA ReqsChange ==
  ASSUME TypeOK, NEW r \in Given, NEW x \in Request, reqs' = [reqs EXCEPT ![r] = x]
  PROVE  /\ reqs' \in Seq(Request) /\ Len(reqs') = Len(reqs) /\ reqs'[r] = x
         /\ \A q \in Given : q # r => reqs'[q] = reqs[q]
BY EntryChanges DEF TypeOK, Given

LEMMA UsersChange ==
  ASSUME TypeOK, NEW u \in Users, NEW x \in User, user' = [user EXCEPT ![u] = x],
         Len(x.queue) <= QueueCapacity
  PROVE  /\ user' \in [Users -> User] /\ user'[u] = x /\ OnlyUser(u)
         /\ \A v \in Users : Len(user'[v].queue) <= QueueCapacity
BY DEF TypeOK, OnlyUser

LEMMA ChairsChange ==
  ASSUME TypeOK, NEW c \in Chairs, NEW x \in Chair, chair' = [chair EXCEPT ![c] = x],
         Len(x.queue) <= QueueCapacity
  PROVE  /\ chair' \in [Chairs -> Chair] /\ chair'[c] = x /\ OnlyChair(c)
         /\ \A d \in Chairs : Len(chair'[d].queue) <= QueueCapacity
BY DEF TypeOK, OnlyChair

\* The server has recorded status n of ride r.
RideAt(r, n) ==
  /\ rides' \in Seq(Ride) /\ Len(rides') = Len(rides)
  /\ \A q \in Given : q # r => rides'[q] = rides[q]
  /\ rides'[r].stage = n /\ rides'[r].user = rides[r].user
  /\ rides'[r].chair = rides[r].chair /\ rides'[r].app = rides[r].app
  /\ rides'[r].chr = rides[r].chr

SetsStage(r, n) == rides' = [rides EXCEPT ![r].stage = n]

LEMMA StageSet ==
  ASSUME TypeOK, NEW r \in Given, NEW n \in 1 .. 6, SetsStage(r, n)
  PROVE  RideAt(r, n)
<1>1. PICK x : x = [rides[r] EXCEPT !.stage = n]
  OBVIOUS
<1>2. rides[r] \in Ride
  BY RideFields
<1>3. /\ x \in Ride /\ x.stage = n /\ x.user = rides[r].user
      /\ x.chair = rides[r].chair /\ x.app = rides[r].app /\ x.chr = rides[r].chr
  BY <1>1, <1>2 DEF Ride, RequestStatus
<1>4. rides' = [rides EXCEPT ![r] = x]
  BY <1>1 DEF SetsStage
<1>. QED  BY <1>3, <1>4, RidesChange DEF RideAt

LEMMA StageKept ==
  ASSUME TypeOK, NEW r \in Given, rides' = rides
  PROVE  RideAt(r, rides[r].stage)
BY DEF RideAt, TypeOK

\* The desired status of ride r is d, the chair's is s.
RequestAt(r, d, s) ==
  /\ reqs' \in Seq(Request) /\ Len(reqs') = Len(reqs)
  /\ \A q \in Given : q # r => reqs'[q] = reqs[q]
  /\ reqs'[r].desired = d /\ reqs'[r].chair = s
  /\ reqs'[r].known = reqs[r].known /\ reqs'[r].user = reqs[r].user

LEMMA HolderSet ==
  ASSUME TypeOK, NEW r \in Given, NEW h \in Users \cup Chairs \cup {NoOne},
         reqs' = [reqs EXCEPT ![r].holder = h]
  PROVE  /\ RequestAt(r, reqs[r].desired, reqs[r].chair)
         /\ reqs'[r].holder = h
         /\ reqs'[r].evaluated = reqs[r].evaluated /\ reqs'[r].paid = reqs[r].paid
<1>1. PICK x : x = [reqs[r] EXCEPT !.holder = h]
  OBVIOUS
<1>2. reqs[r] \in Request
  BY RideFields
<1>3. /\ x \in Request /\ x.known = reqs[r].known /\ x.desired = reqs[r].desired
      /\ x.chair = reqs[r].chair /\ x.user = reqs[r].user /\ x.holder = h
      /\ x.evaluated = reqs[r].evaluated /\ x.paid = reqs[r].paid
  BY <1>1, <1>2 DEF Request
<1>4. reqs' = [reqs EXCEPT ![r] = x]
  BY <1>1
<1>. QED  BY <1>3, <1>4, ReqsChange, ZenonT(40) DEF RequestAt

LEMMA RequestKept ==
  ASSUME TypeOK, NEW r \in Given, reqs' = reqs
  PROVE  RequestAt(r, reqs[r].desired, reqs[r].chair)
BY DEF RequestAt, TypeOK

\* A chair says what the desired status is, and leaves or keeps the lock.
SetsStatuses(r, n) ==
  \/ reqs' = [reqs EXCEPT ![r].desired = n, ![r].chair = n]
  \/ reqs' = [reqs EXCEPT ![r].desired = n, ![r].chair = n, ![r].holder = NoOne]

LEMMA StatusesSet ==
  ASSUME TypeOK, NEW r \in Given, NEW n \in 1 .. 6, SetsStatuses(r, n)
  PROVE  RequestAt(r, n, n) /\ reqs'[r].evaluated = reqs[r].evaluated
<1>1. reqs[r] \in Request
  BY RideFields
<1>2. PICK h : h \in {reqs[r].holder, NoOne}
               /\ reqs' = [reqs EXCEPT ![r] = [reqs[r] EXCEPT !.desired = n, !.chair = n,
                                                              !.holder = h]]
  <2>1. CASE reqs' = [reqs EXCEPT ![r].desired = n, ![r].chair = n]
    <3>1. [reqs[r] EXCEPT !.desired = n, !.chair = n]
            = [reqs[r] EXCEPT !.desired = n, !.chair = n, !.holder = reqs[r].holder]
      BY <1>1 DEF Request
    <3>2. reqs' = [reqs EXCEPT ![r] = [reqs[r] EXCEPT !.desired = n, !.chair = n]]
      BY <2>1 DEF TypeOK
    <3>. QED  BY <3>1, <3>2, ZenonT(40)
  <2>2. CASE reqs' = [reqs EXCEPT ![r].desired = n, ![r].chair = n, ![r].holder = NoOne]
    <3>1. reqs' = [reqs EXCEPT ![r] = [reqs[r] EXCEPT !.desired = n, !.chair = n,
                                                      !.holder = NoOne]]
      BY <2>2 DEF TypeOK
    <3>. QED  BY <3>1, ZenonT(40)
  <2>. QED  BY <2>1, <2>2, ZenonT(40) DEF SetsStatuses
<1>3. PICK x : x = [reqs[r] EXCEPT !.desired = n, !.chair = n, !.holder = h]
  OBVIOUS
<1>4. /\ x \in Request /\ x.known = reqs[r].known /\ x.desired = n
      /\ x.chair = n /\ x.user = reqs[r].user /\ x.evaluated = reqs[r].evaluated
  BY <1>1, <1>2, <1>3 DEF Request, RequestStatus
<1>5. reqs' = [reqs EXCEPT ![r] = x]
  BY <1>2, <1>3
<1>. QED  BY <1>4, <1>5, ReqsChange DEF RequestAt

\* The step of chair c is p.
ChairAt(c, p) ==
  /\ chair' \in [Chairs -> Chair] /\ OnlyChair(c)
  /\ \A d \in Chairs : Len(chair'[d].queue) <= QueueCapacity
  /\ chair'[c].pc = p /\ chair'[c].req = chair[c].req
  /\ chair'[c].matching = chair[c].matching /\ chair'[c].queue = chair[c].queue

LEMMA ChairPcSet ==
  ASSUME TypeOK, NEW c \in Chairs,
         NEW p \in {"idle", "accepted", "refused", "departed", "sending"},
         chair' = [chair EXCEPT ![c].pc = p]
  PROVE  ChairAt(c, p)
<1>1. PICK x : x = [chair[c] EXCEPT !.pc = p]
  OBVIOUS
<1>2. chair[c] \in Chair /\ Len(chair[c].queue) <= QueueCapacity
  BY ChairFields DEF TypeOK
<1>3. /\ x \in Chair /\ x.pc = p /\ x.req = chair[c].req
      /\ x.matching = chair[c].matching /\ x.queue = chair[c].queue
  BY <1>1, <1>2 DEF Chair
<1>4. chair' = [chair EXCEPT ![c] = x]
  BY <1>1
<1>. QED  BY <1>2, <1>3, <1>4, ChairsChange DEF ChairAt

LEMMA ChairPcKept ==
  ASSUME TypeOK, NEW c \in Chairs, chair' = chair
  PROVE  ChairAt(c, chair[c].pc)
BY DEF ChairAt, TypeOK, OnlyChair

\* The step of user u is p.
UserAt(u, p) ==
  /\ user' \in [Users -> User] /\ OnlyUser(u)
  /\ \A v \in Users : Len(user'[v].queue) <= QueueCapacity
  /\ user'[u].pc = p /\ user'[u].req = user[u].req /\ user'[u].conn = user[u].conn
  /\ user'[u].queue = user[u].queue /\ user'[u].validated = user[u].validated

LEMMA UserPcSet ==
  ASSUME TypeOK, NEW u \in Users, NEW p \in {"idle", "booked", "rated", "refused"},
         user' = [user EXCEPT ![u].pc = p]
  PROVE  UserAt(u, p)
<1>1. PICK x : x = [user[u] EXCEPT !.pc = p]
  OBVIOUS
<1>2. user[u] \in User /\ Len(user[u].queue) <= QueueCapacity
  BY UserFields DEF TypeOK
<1>3. /\ x \in User /\ x.pc = p /\ x.req = user[u].req /\ x.conn = user[u].conn
      /\ x.queue = user[u].queue /\ x.validated = user[u].validated
  BY <1>1, <1>2 DEF User
<1>4. user' = [user EXCEPT ![u] = x]
  BY <1>1
<1>. QED  BY <1>2, <1>3, <1>4, UsersChange DEF UserAt

LEMMA ReportEffect ==
  ASSUME TypeOK, NEW code, NEW r, Report(code, r)
  PROVE  /\ errors' \in 0 .. ErrorLimit + 1 /\ sending' \in BOOLEAN
         /\ reports' = reports \cup {<<code, r>>}
<1>1. errors \in Int /\ errors >= 0 /\ ErrorLimit \in Nat
  BY WorldAssumption DEF TypeOK
<1>2. errors' = IF errors + 1 <= ErrorLimit + 1 THEN errors + 1 ELSE ErrorLimit + 1
  BY <1>1, LesserOfTwo DEF Report
<1>3. errors' \in 0 .. ErrorLimit + 1
  BY <1>1, <1>2
<1>. QED  BY <1>3 DEF Report, TypeOK

LEMMA FaultEffect ==
  ASSUME NEW kind, NEW r, NEW status, Fault(kind, r, status)
  PROVE  faults \subseteq faults' /\ <<kind, r, status>> \in faults'
BY DEF Fault

\* Nothing is reported, or what was to be.
ErrorsOK ==
  \/ errors' = errors /\ sending' = sending /\ reports' = reports
  \/ \E code, r :
       /\ Report(code, r) /\ r \in Given' /\ Explained(code, r)'
       /\ code = "ChairAlreadyHasRequest" => rides'[r].chair # NoOne

LEMMA ErrorsType ==
  ASSUME TypeOK, ErrorsOK
  PROVE  errors' \in 0 .. ErrorLimit + 1 /\ sending' \in BOOLEAN
BY ReportEffect DEF ErrorsOK, TypeOK

LEMMA ErrorsExplained ==
  ASSUME WorldInv, TypeOK', Grows, ErrorsOK
  PROVE  ReportsOK'
<1>1. TypeOK /\ RidesInv /\ OrderOK /\ ReportsOK
  BY DEF WorldInv
<1>2. CASE reports' = reports
  BY <1>1, <1>2, NothingReported
<1>3. CASE \E code, r :
             /\ Report(code, r) /\ r \in Given' /\ Explained(code, r)'
             /\ code = "ChairAlreadyHasRequest" => rides'[r].chair # NoOne
  <2>1. PICK code, r : /\ Report(code, r) /\ r \in Given' /\ Explained(code, r)'
                       /\ code = "ChairAlreadyHasRequest" => rides'[r].chair # NoOne
    BY <1>3
  <2>2. reports' = reports \cup {<<code, r>>}
    BY <1>1, <2>1, ReportEffect
  <2>. QED  BY <1>1, <2>1, <2>2, ExplainedReport
<1>. QED  BY <1>2, <1>3 DEF ErrorsOK

\* What is known of a ride a chair works on.
LEMMA DrivenRide ==
  ASSUME WorldInv, NEW c \in Chairs, chair[c].req # Nothing
  PROVE  /\ TypeOK /\ chair[c].req \in Given /\ rides[chair[c].req].chair = c /\ c # NoOne
         /\ chair[c].matching = chair[c].req /\ Driven(chair[c].req)
         /\ UnderWay(chair[c].req) /\ RideOK(chair[c].req) /\ OwnedOK(chair[c].req)
         /\ reqs[chair[c].req].known
<1>1. TypeOK /\ RidesInv /\ ChairsInv /\ ChairOK(c)
  BY DEF WorldInv, ChairsInv
<1>2. PICK r : r = chair[c].req
  OBVIOUS
<1>3. r \in Given /\ rides[r].chair = c /\ chair[c].matching = r /\ reqs[r].known /\ c # NoOne
  BY <1>1, <1>2, WorldAssumption DEF ChairOK
<1>4. Driven(r)
  BY <1>2, <1>3 DEF Driven
<1>. QED  BY <1>1, <1>2, <1>3, <1>4 DEF RidesInv, WorkOK

LEMMA RatedRide ==
  ASSUME WorldInv, NEW q \in Given, BeingRated(q)
  PROVE  /\ rides[q].stage = Completed /\ reqs[q].desired = Arrived
         /\ reqs[q].holder = rides[q].user /\ rides[q].user \in Users
<1>1. TypeOK /\ UsersInv
  BY DEF WorldInv
<1>2. PICK u \in Users : u = rides[q].user
  BY <1>1, RideFields
<1>3. UserOK(u) /\ user[u].req = q /\ user[u].pc = "rated"
  BY <1>1, <1>2 DEF UsersInv, BeingRated
<1>. QED  BY <1>2, <1>3 DEF UserOK

-----------------------------------------------------------------------------
(* The steps of a chair.                                                   *)

\* Chair c is at p, ride r at n, its request at d and s.
ChairActs(c, p, r, n, d, s) ==
  /\ ChairAt(c, p) /\ RideAt(r, n) /\ RequestAt(r, d, s)
  /\ reqs'[r].evaluated = reqs[r].evaluated
  /\ user' = user /\ stopped' = stopped /\ faults \subseteq faults' /\ ErrorsOK
  /\ p = "refused" => <<"refused", r, Matching>> \in faults'

LEMMA ChairActKeeps ==
  ASSUME WorldInv, NEW c \in Chairs, NEW r \in Given, r = chair[c].req,
         NEW n \in 1 .. 5, NEW d \in 1 .. 5, NEW s \in 1 .. 5, NEW p,
         ChairActs(c, p, r, n, d, s),
         rides[r].stage <= n, reqs[r].chair <= s, reqs[r].desired # Completed,
         n >= Carrying => reqs[r].user >= Dispatched,
         UnderWay(r)'
  PROVE  WorldInv'
<1>0. TypeOK /\ r # Nothing
  BY RideFields DEF WorldInv
<1>1. TypeOK /\ RideOK(r) /\ rides[r].chair = c /\ c # NoOne /\ Driven(r)
  BY <1>0, DrivenRide
<1>2. TypeOK'
  BY <1>1, ErrorsType DEF TypeOK, ChairActs, ChairAt, RideAt, RequestAt
<1>3. ChairStep(c, r)
  BY <1>1, RideFields, SMTT(40)
  DEF ChairStep, ChairActs, ChairAt, RideAt, RequestAt, SameRides, OnlyRide
<1>4. ~BeingRated(r)
  BY RatedRide, <1>1, RideFields
<1>5. WorkOK(r)'
  <2>1. Driven(r)'
    BY <1>1 DEF Driven, ChairActs, ChairAt, RideAt
  <2>. QED  BY <2>1 DEF WorkOK
<1>6. RideOK(r)'
  <2>1. /\ rides'[r].stage = n /\ rides'[r].app = rides[r].app
        /\ rides'[r].chr = rides[r].chr /\ rides'[r].chair # NoOne
        /\ reqs'[r].user = reqs[r].user /\ reqs'[r].desired = d /\ reqs'[r].chair = s
        /\ reqs'[r].evaluated = reqs[r].evaluated
    BY <1>1 DEF ChairActs, RideAt, RequestAt
  <2>2. /\ rides[r].stage \in 1 .. 6 /\ rides[r].app \in 0 .. 6 /\ rides[r].chr \in 0 .. 6
        /\ reqs[r].user \in 1 .. 6
    BY <1>1, RideFields
  <2>. QED  BY <1>1, <2>1, <2>2 DEF RideOK
<1>7. ASSUME NEW q \in Given
      PROVE  rides[q].stage <= rides'[q].stage
  <2>1. q # r => rides'[q] = rides[q]
    BY DEF ChairActs, RideAt
  <2>2. rides'[r].stage = n /\ rides[q].stage \in 1 .. 6
    BY <1>1, RideFields DEF ChairActs, RideAt
  <2>. QED  BY <2>1, <2>2
<1>8. Grows
  BY <1>1, <1>3, <1>7 DEF Grows, ChairStep, SameRides, TypeOK
<1>9. ReportsOK'
  BY <1>2, <1>8, ErrorsExplained DEF ChairActs
<1>10. chair'[c].pc = "refused" => <<"refused", r, Matching>> \in faults'
  BY DEF ChairActs, ChairAt
<1>. QED  BY <1>2, <1>3, <1>4, <1>5, <1>6, <1>9, <1>10, ChairStepKeeps

LEMMA ChairAcceptKeeps ==
  ASSUME WorldInv, NEW c \in Chairs, ChairAccept(c), stopped' = stopped
  PROVE  WorldInv'
<1>0. PICK r : r = chair[c].req
  OBVIOUS
<1>1. /\ r # Nothing /\ chair[c].pc = "idle" /\ reqs[r].chair = Matching
      /\ user' = user /\ ErrorsOK
  BY <1>0 DEF ChairAccept, errorVars, ErrorsOK
<1>2. /\ TypeOK /\ r \in Given /\ rides[r].chair = c /\ UnderWay(r)
  BY <1>0, <1>1, DrivenRide
<1>3. rides[r].stage = Matching /\ reqs[r].desired = Matching
  BY <1>1, <1>2, RideFields DEF UnderWay, Unstarted
<1>4. reqs' = [reqs EXCEPT ![r].holder = c]
  BY <1>0 DEF ChairAccept
<1>5. /\ RequestAt(r, 1, 1) /\ reqs'[r].holder = c
      /\ reqs'[r].evaluated = reqs[r].evaluated
  BY <1>1, <1>2, <1>3, <1>4, HolderSet
<1>6. CASE /\ rides' = [rides EXCEPT ![r].stage = Dispatching]
           /\ chair' = [chair EXCEPT ![c].pc = "accepted"]
           /\ faults' = faults
  <2>1. RideAt(r, 2)
    <3>1. SetsStage(r, 2)
      BY <1>6 DEF SetsStage
    <3>. QED  BY <1>2, <3>1, StageSet
  <2>2. ChairAt(c, "accepted")
    BY <1>2, <1>6, ChairPcSet
  <2>3. ChairActs(c, "accepted", r, 2, 1, 1)
    BY <1>1, <1>5, <1>6, <2>1, <2>2 DEF ChairActs
  <2>4. UnderWay(r)'
    BY <1>2, <1>5, <2>1, <2>2 DEF UnderWay, RideAt, ChairAt, RequestAt
  <2>. QED  BY <1>0, <1>1, <1>2, <1>3, <2>3, <2>4, ChairActKeeps
<1>7. CASE /\ Fault("refused", r, rides[r].stage)
           /\ chair' = [chair EXCEPT ![c].pc = "refused"]
           /\ rides' = rides
  <2>1. faults \subseteq faults' /\ <<"refused", r, 1>> \in faults'
    BY <1>3, <1>7, FaultEffect
  <2>2. RideAt(r, 1) /\ ChairAt(c, "refused")
    BY <1>2, <1>3, <1>7, StageKept, ChairPcSet
  <2>3. ChairActs(c, "refused", r, 1, 1, 1)
    BY <1>1, <1>5, <2>1, <2>2 DEF ChairActs
  <2>4. UnderWay(r)'
    BY <1>2, <1>5, <2>2 DEF UnderWay, Unstarted, RideAt, ChairAt, RequestAt
  <2>. QED  BY <1>0, <1>1, <1>2, <1>3, <2>3, <2>4, ChairActKeeps
<1>. QED  BY <1>0, <1>6, <1>7 DEF ChairAccept

LEMMA ChairAcceptRefusedKeeps ==
  ASSUME WorldInv, NEW c \in Chairs, ChairAcceptRefused(c), stopped' = stopped
  PROVE  WorldInv'
<1>0. PICK r : r = chair[c].req
  OBVIOUS
<1>1. /\ chair[c].pc = "refused" /\ user' = user /\ rides' = rides /\ faults' = faults
      /\ Report("FailedToAcceptRequest", r)
  BY <1>0 DEF ChairAcceptRefused
<1>2. r # Nothing /\ <<"refused", r, 1>> \in faults
  BY <1>0, <1>1 DEF WorldInv, ChairsInv, ChairOK
<1>3. /\ TypeOK /\ r \in Given /\ rides[r].chair = c /\ UnderWay(r)
  BY <1>0, <1>2, DrivenRide
<1>4. rides[r].stage = 1 /\ reqs[r].desired = 1 /\ reqs[r].chair = 1
  BY <1>1, <1>3, RideFields DEF UnderWay, Unstarted
<1>5. reqs' = [reqs EXCEPT ![r].holder = NoOne] /\ chair' = [chair EXCEPT ![c].pc = "idle"]
  BY <1>0 DEF ChairAcceptRefused
<1>6. RequestAt(r, 1, 1) /\ reqs'[r].evaluated = reqs[r].evaluated
  BY <1>3, <1>4, <1>5, HolderSet
<1>7. RideAt(r, 1) /\ ChairAt(c, "idle")
  BY <1>1, <1>3, <1>4, <1>5, StageKept, ChairPcSet
<1>8. ErrorsOK
  <2>1. Explained("FailedToAcceptRequest", r)' /\ r \in Given'
    BY <1>1, <1>2, <1>3 DEF Explained, Given
  <2>. QED  BY <1>1, <2>1 DEF ErrorsOK
<1>9. ChairActs(c, "idle", r, 1, 1, 1)
  BY <1>1, <1>6, <1>7, <1>8 DEF ChairActs
<1>10. UnderWay(r)'
  BY <1>3, <1>6, <1>7 DEF UnderWay, RideAt, ChairAt, RequestAt
<1>. QED  BY <1>0, <1>3, <1>4, <1>9, <1>10, ChairActKeeps

LEMMA ChairAcceptedKeeps ==
  ASSUME WorldInv, NEW c \in Chairs, ChairAccepted(c), stopped' = stopped
  PROVE  WorldInv'
<1>0. PICK r : r = chair[c].req
  OBVIOUS
<1>1. /\ chair[c].pc = "accepted" /\ user' = user /\ rides' = rides /\ faults' = faults
      /\ ErrorsOK
  BY <1>0 DEF ChairAccepted, errorVars, ErrorsOK
<1>2. r # Nothing
  BY <1>0, <1>1 DEF WorldInv, ChairsInv, ChairOK
<1>3. /\ TypeOK /\ r \in Given /\ rides[r].chair = c /\ UnderWay(r)
  BY <1>0, <1>2, DrivenRide
<1>4. rides[r].stage = 2 /\ reqs[r].desired = 1 /\ reqs[r].chair = 1
  BY <1>1, <1>3 DEF UnderWay
<1>5. SetsStatuses(r, 2) /\ chair' = [chair EXCEPT ![c].pc = "idle"]
  BY <1>0 DEF ChairAccepted, SetsStatuses
<1>6. RequestAt(r, 2, 2) /\ reqs'[r].evaluated = reqs[r].evaluated
  BY <1>3, <1>5, StatusesSet
<1>7. RideAt(r, 2) /\ ChairAt(c, "idle")
  BY <1>1, <1>3, <1>4, <1>5, StageKept, ChairPcSet
<1>8. ChairActs(c, "idle", r, 2, 2, 2)
  BY <1>1, <1>6, <1>7 DEF ChairActs
<1>9. UnderWay(r)'
  BY <1>3, <1>6, <1>7 DEF UnderWay, RideAt, ChairAt, RequestAt
<1>. QED  BY <1>0, <1>3, <1>4, <1>8, <1>9, ChairActKeeps

LEMMA ChairArriveKeeps ==
  ASSUME WorldInv, NEW c \in Chairs, ChairArrive(c), stopped' = stopped
  PROVE  WorldInv'
<1>0. PICK r : r = chair[c].req
  OBVIOUS
<1>1. /\ chair[c].pc = "idle" /\ r # Nothing /\ user' = user /\ rides' = rides
      /\ faults' = faults /\ reqs[r].chair \in {2, 4} /\ ErrorsOK
  BY <1>0 DEF ChairArrive, errorVars, ErrorsOK
<1>2. /\ TypeOK /\ r \in Given /\ rides[r].chair = c /\ UnderWay(r) /\ RideOK(r)
  BY <1>0, <1>1, DrivenRide
<1>3. PICK n \in {2, 4} : n = reqs[r].chair
  BY <1>1
<1>4. rides[r].stage = n /\ reqs[r].desired = n
  BY <1>1, <1>2, <1>3 DEF UnderWay, Unstarted
<1>5. SetsStatuses(r, n + 1) /\ chair' = [chair EXCEPT ![c].pc = "sending"]
  BY <1>0, <1>3 DEF ChairArrive, SetsStatuses
<1>6. RequestAt(r, n + 1, n + 1) /\ reqs'[r].evaluated = reqs[r].evaluated
  BY <1>2, <1>5, StatusesSet
<1>7. RideAt(r, n) /\ ChairAt(c, "sending")
  BY <1>1, <1>2, <1>4, <1>5, StageKept, ChairPcSet
<1>8. ChairActs(c, "sending", r, n, n + 1, n + 1)
  BY <1>1, <1>6, <1>7 DEF ChairActs
<1>9. UnderWay(r)'
  BY <1>2, <1>6, <1>7 DEF UnderWay, RideAt, ChairAt, RequestAt
<1>10. n >= 4 => reqs[r].user >= 3
  BY <1>2, <1>4 DEF RideOK
<1>11. PICK k \in 1 .. 5, m \in 1 .. 5 : k = n /\ m = n + 1
  BY <1>3
<1>12. /\ rides[r].stage <= k /\ reqs[r].chair <= m /\ reqs[r].desired # Completed
       /\ k >= Carrying => reqs[r].user >= Dispatched
  BY <1>3, <1>4, <1>10, <1>11
<1>13. ChairActs(c, "sending", r, k, m, m)
  BY <1>8, <1>11
<1>. QED  BY <1>0, <1>2, <1>9, <1>12, <1>13, ChairActKeeps

LEMMA ChairSendCoordinateKeeps ==
  ASSUME WorldInv, NEW c \in Chairs, ChairSendCoordinate(c), stopped' = stopped
  PROVE  WorldInv'
<1>0. PICK r : r = chair[c].req
  OBVIOUS
<1>1. chair[c].pc = "sending" /\ reqs' = reqs /\ user' = user
  BY <1>0 DEF ChairSendCoordinate
<1>2. r # Nothing
  BY <1>0, <1>1 DEF WorldInv, ChairsInv, ChairOK
<1>3. /\ TypeOK /\ r \in Given /\ rides[r].chair = c /\ UnderWay(r) /\ RideOK(r)
  BY <1>0, <1>2, DrivenRide
<1>4. PICK n \in {2, 4} : n = rides[r].stage
  BY <1>1, <1>3 DEF UnderWay
<1>5. reqs[r].desired = n + 1 /\ reqs[r].chair = n + 1
  BY <1>1, <1>3, <1>4 DEF UnderWay
<1>6. RequestAt(r, n + 1, n + 1)
  BY <1>1, <1>3, <1>5, RequestKept
<1>7. n >= 4 => reqs[r].user >= 3
  BY <1>3, <1>4 DEF RideOK
<1>8. CASE /\ rides' = [rides EXCEPT ![r].stage = IF @ \in {2, 4} THEN @ + 1 ELSE @]
           /\ chair' = [chair EXCEPT ![c].pc = "idle"]
           /\ errorVars' = errorVars /\ faults' = faults
  <2>1. RideAt(r, n + 1)
    <3>1. SetsStage(r, n + 1)
      BY <1>4, <1>8 DEF SetsStage
    <3>. QED  BY <1>3, <3>1, StageSet
  <2>2. ChairAt(c, "idle")
    BY <1>3, <1>8, ChairPcSet
  <2>3. ChairActs(c, "idle", r, n + 1, n + 1, n + 1)
    BY <1>1, <1>6, <1>8, <2>1, <2>2 DEF ChairActs, ErrorsOK, errorVars, ChairSendCoordinate
  <2>4. UnderWay(r)'
    <3>1. /\ rides'[r].chair = c /\ rides'[r].stage = n + 1 /\ chair'[c].pc = "idle"
          /\ reqs'[r].desired = n + 1 /\ reqs'[r].chair = n + 1
      BY <1>3, <1>6, <2>1, <2>2 DEF RideAt, ChairAt, RequestAt
    <3>2. n + 1 \in Matching .. Arrived
      BY <1>4
    <3>. QED  BY <3>1, <3>2 DEF UnderWay
  <2>5. PICK m \in 1 .. 5 : m = n + 1
    BY <1>4
  <2>6. /\ rides[r].stage <= m /\ reqs[r].chair <= m /\ reqs[r].desired # Completed
        /\ m >= Carrying => reqs[r].user >= Dispatched
    BY <1>4, <1>5, <1>7, <2>5
  <2>7. ChairActs(c, "idle", r, m, m, m)
    BY <2>3, <2>5
  <2>. QED  BY <1>0, <1>3, <2>4, <2>6, <2>7, ChairActKeeps
<1>9. CASE /\ Fault("refused", r, rides[r].stage)
           /\ Report("FailedToSendChairCoordinate", r)
           /\ rides' = rides /\ chair' = chair
  <2>1. faults \subseteq faults' /\ <<"refused", r, n>> \in faults'
    BY <1>4, <1>9, FaultEffect
  <2>2. RideAt(r, n) /\ ChairAt(c, "sending")
    BY <1>1, <1>3, <1>4, <1>9, StageKept, ChairPcKept
  <2>3. ErrorsOK
    <3>1. Explained("FailedToSendChairCoordinate", r)' /\ r \in Given'
      BY <1>3, <1>9, <2>1 DEF Explained, Given
    <3>. QED  BY <1>9, <3>1 DEF ErrorsOK
  <2>4. ChairActs(c, "sending", r, n, n + 1, n + 1)
    BY <1>1, <1>6, <2>1, <2>2, <2>3 DEF ChairActs
  <2>5. UnderWay(r)'
    <3>1. /\ rides'[r].chair = c /\ rides'[r].stage = n /\ chair'[c].pc = "sending"
          /\ reqs'[r].desired = n + 1 /\ reqs'[r].chair = n + 1
      BY <1>3, <1>6, <2>2 DEF RideAt, ChairAt, RequestAt
    <3>. QED  BY <1>4, <3>1 DEF UnderWay
  <2>6. PICK k \in 1 .. 5, m \in 1 .. 5 : k = n /\ m = n + 1
    BY <1>4
  <2>7. /\ rides[r].stage <= k /\ reqs[r].chair <= m /\ reqs[r].desired # Completed
        /\ k >= Carrying => reqs[r].user >= Dispatched
    BY <1>4, <1>5, <1>7, <2>6
  <2>8. ChairActs(c, "sending", r, k, m, m)
    BY <2>4, <2>6
  <2>. QED  BY <1>0, <1>3, <2>5, <2>7, <2>8, ChairActKeeps
<1>. QED  BY <1>0, <1>8, <1>9 DEF ChairSendCoordinate

LEMMA ChairDepartKeeps ==
  ASSUME WorldInv, NEW c \in Chairs, ChairDepart(c), stopped' = stopped
  PROVE  WorldInv'
<1>0. PICK r : r = chair[c].req
  OBVIOUS
<1>1. /\ chair[c].pc = "idle" /\ r # Nothing /\ reqs[r].chair = 3 /\ reqs[r].user = 3
      /\ reqs' = reqs /\ user' = user
  BY <1>0 DEF ChairDepart
<1>2. /\ TypeOK /\ r \in Given /\ rides[r].chair = c /\ UnderWay(r)
  BY <1>0, <1>1, DrivenRide
<1>3. rides[r].stage = 3 /\ reqs[r].desired = 3
  BY <1>1, <1>2 DEF UnderWay, Unstarted
<1>4. RequestAt(r, 3, 3)
  BY <1>1, <1>2, <1>3, RequestKept
<1>5. CASE /\ rides' = [rides EXCEPT ![r].stage = Carrying]
           /\ chair' = [chair EXCEPT ![c].pc = "departed"]
           /\ errorVars' = errorVars /\ faults' = faults
  <2>1. RideAt(r, 4)
    <3>1. SetsStage(r, 4)
      BY <1>5 DEF SetsStage
    <3>. QED  BY <1>2, <3>1, StageSet
  <2>2. ChairAt(c, "departed")
    BY <1>2, <1>5, ChairPcSet
  <2>3. ChairActs(c, "departed", r, 4, 3, 3)
    BY <1>1, <1>4, <1>5, <2>1, <2>2 DEF ChairActs, ErrorsOK, errorVars
  <2>4. UnderWay(r)'
    BY <1>2, <1>4, <2>1, <2>2 DEF UnderWay, RideAt, ChairAt, RequestAt
  <2>. QED  BY <1>0, <1>1, <1>2, <1>3, <2>3, <2>4, ChairActKeeps
<1>6. CASE /\ Fault("refused", r, rides[r].stage)
           /\ Report("FailedToDepart", r)
           /\ rides' = rides /\ chair' = chair
  <2>1. faults \subseteq faults' /\ <<"refused", r, 3>> \in faults'
    BY <1>3, <1>6, FaultEffect
  <2>2. RideAt(r, 3) /\ ChairAt(c, "idle")
    BY <1>1, <1>2, <1>3, <1>6, StageKept, ChairPcKept
  <2>3. ErrorsOK
    <3>1. Explained("FailedToDepart", r)' /\ r \in Given'
      BY <1>2, <1>6, <2>1 DEF Explained, Given
    <3>. QED  BY <1>6, <3>1 DEF ErrorsOK
  <2>4. ChairActs(c, "idle", r, 3, 3, 3)
    BY <1>1, <1>4, <2>1, <2>2, <2>3 DEF ChairActs
  <2>5. UnderWay(r)'
    BY <1>2, <1>4, <2>2 DEF UnderWay, RideAt, ChairAt, RequestAt
  <2>. QED  BY <1>0, <1>1, <1>2, <1>3, <2>4, <2>5, ChairActKeeps
<1>. QED  BY <1>0, <1>5, <1>6 DEF ChairDepart

LEMMA ChairDepartedKeeps ==
  ASSUME WorldInv, NEW c \in Chairs, ChairDeparted(c), stopped' = stopped
  PROVE  WorldInv'
<1>0. PICK r : r = chair[c].req
  OBVIOUS
<1>1. /\ chair[c].pc = "departed" /\ user' = user /\ rides' = rides /\ faults' = faults
      /\ ErrorsOK
  BY <1>0 DEF ChairDeparted, errorVars, ErrorsOK
<1>2. r # Nothing
  BY <1>0, <1>1 DEF WorldInv, ChairsInv, ChairOK
<1>3. /\ TypeOK /\ r \in Given /\ rides[r].chair = c /\ UnderWay(r) /\ RideOK(r)
  BY <1>0, <1>2, DrivenRide
<1>4. rides[r].stage = 4 /\ reqs[r].desired = 3 /\ reqs[r].chair = 3
  BY <1>1, <1>3 DEF UnderWay
<1>5. SetsStatuses(r, 4) /\ chair' = [chair EXCEPT ![c].pc = "idle"]
  BY <1>0 DEF ChairDeparted, SetsStatuses
<1>6. RequestAt(r, 4, 4) /\ reqs'[r].evaluated = reqs[r].evaluated
  BY <1>3, <1>5, StatusesSet
<1>7. RideAt(r, 4) /\ ChairAt(c, "idle")
  BY <1>1, <1>3, <1>4, <1>5, StageKept, ChairPcSet
<1>8. ChairActs(c, "idle", r, 4, 4, 4)
  BY <1>1, <1>6, <1>7 DEF ChairActs
<1>9. UnderWay(r)'
  BY <1>3, <1>6, <1>7 DEF UnderWay, RideAt, ChairAt, RequestAt
<1>10. reqs[r].user >= 3
  BY <1>3, <1>4 DEF RideOK
<1>. QED  BY <1>0, <1>3, <1>4, <1>8, <1>9, <1>10, ChairActKeeps

-----------------------------------------------------------------------------
(* The steps of a user about the current ride.                             *)

\* What is known of the current ride of a user.
LEMMA CurrentRide ==
  ASSUME WorldInv, NEW u \in Users, user[u].req # Nothing
  PROVE  /\ TypeOK /\ user[u].req \in Given /\ rides[user[u].req].user = u
         /\ reqs[user[u].req].known /\ Latest(u, user[u].req) /\ user[u].pc # "booked"
         /\ WorkOK(user[u].req) /\ RideOK(user[u].req) /\ OwnedOK(user[u].req)
BY DEF WorldInv, RidesInv, UsersInv, UserOK

\* A ride the user has been told the arrival of, and has not rated.
LEMMA RatableRide ==
  ASSUME WorldInv, NEW q \in Given, reqs[q].user = Arrived, ~reqs[q].evaluated,
         ~BeingRated(q)
  PROVE  /\ Driven(q) /\ chair[rides[q].chair].pc = "idle" /\ rides[q].stage = Arrived
         /\ reqs[q].desired = Arrived /\ reqs[q].chair = Arrived
<1>1. TypeOK /\ WorkOK(q) /\ RideOK(q)
  BY DEF WorldInv, RidesInv
<1>2. rides[q].stage >= 5 /\ reqs[q].desired # 6
  BY <1>1, RideFields DEF RideOK
<1>3. Driven(q)
  BY <1>1, <1>2 DEF WorkOK, Unstarted, Finished
<1>4. UnderWay(q)
  BY <1>1, <1>3 DEF WorkOK
<1>. QED  BY <1>1, <1>2, <1>3, <1>4, RideFields DEF UnderWay, Unstarted

\* User u is at p, ride r at n, its desired status is d.
UserActs(u, p, r, n, d) ==
  /\ UserAt(u, p) /\ RideAt(r, n) /\ RequestAt(r, d, reqs[r].chair)
  /\ reqs'[r].evaluated <=> d = Completed
  /\ chair' = chair /\ stopped' = stopped /\ faults \subseteq faults' /\ ErrorsOK

LEMMA UserActKeeps ==
  ASSUME WorldInv, NEW u \in Users, NEW r \in Given, r = user[u].req,
         NEW n \in 5 .. 6, NEW d \in 1 .. 6, NEW p,
         UserActs(u, p, r, n, d),
         Matching < rides[r].stage, rides[r].stage <= n,
         n = Completed => reqs[r].user >= Arrived,
         reqs[r].user >= Dispatched, reqs[r].user = Completed => d = Completed,
         WorkOK(r)', p # "booked",
         p = "rated" => /\ n = Completed /\ d = Arrived /\ reqs'[r].holder = u
                        /\ reqs'[r].paid \/ <<"unpaid", r, Arrived>> \in faults',
         p = "refused" => <<"refused", r, Arrived>> \in faults'
  PROVE  WorldInv'
<1>0. TypeOK /\ r # Nothing
  BY RideFields DEF WorldInv
<1>1. TypeOK /\ RideOK(r)
  BY <1>0, CurrentRide
<1>2. TypeOK'
  BY <1>1, ErrorsType, SMTT(40) DEF TypeOK, UserActs, UserAt, RideAt, RequestAt
<1>3. rides[r].stage # Matching
  OBVIOUS
<1>4. UserStep(u, r)
  BY <1>1, <1>3, RideFields DEF UserStep, UserActs, UserAt, RideAt, RequestAt, SameRides, OnlyRide
<1>5. RideOK(r)'
  <2>1. /\ rides'[r].stage = n /\ rides'[r].app = rides[r].app
        /\ rides'[r].chr = rides[r].chr /\ rides'[r].chair = rides[r].chair
        /\ reqs'[r].user = reqs[r].user /\ reqs'[r].desired = d
        /\ reqs'[r].chair = reqs[r].chair
        /\ reqs'[r].evaluated <=> d = Completed
    BY DEF UserActs, RideAt, RequestAt
  <2>2. /\ rides[r].stage \in 1 .. 6 /\ rides[r].app \in 0 .. 6 /\ rides[r].chr \in 0 .. 6
        /\ reqs[r].user \in 1 .. 6
    BY <1>1, RideFields
  <2>. QED  BY <1>1, <1>3, <2>1, <2>2 DEF RideOK
<1>6. ASSUME NEW q \in Given
      PROVE  rides[q].stage <= rides'[q].stage
  <2>1. q # r => rides'[q] = rides[q]
    BY DEF UserActs, RideAt
  <2>2. rides'[r].stage = n /\ rides[q].stage \in 1 .. 6
    BY <1>1, RideFields DEF UserActs, RideAt
  <2>. QED  BY <2>1, <2>2
<1>7. Grows
  BY <1>1, <1>4, <1>6 DEF Grows, UserStep, SameRides, TypeOK
<1>8. ReportsOK'
  BY <1>2, <1>7, ErrorsExplained DEF UserActs
<1>9. user'[u].pc = p /\ rides'[r].stage = n /\ reqs'[r].desired = d
  BY DEF UserActs, UserAt, RideAt, RequestAt
<1>10. user'[u].pc = "rated" => /\ rides'[r].stage = Completed /\ reqs'[r].desired = Arrived
                                /\ reqs'[r].holder = u
                                /\ reqs'[r].paid \/ <<"unpaid", r, Arrived>> \in faults'
  BY <1>9
<1>11. user'[u].pc = "refused" =>
         <<"refused", r, Arrived>> \in faults' /\ rides'[r].stage >= Arrived
  BY <1>9
<1>12. user'[u].pc # "booked"
  BY <1>9
<1>. QED  BY <1>2, <1>4, <1>5, <1>8, <1>10, <1>11, <1>12, UserStepKeeps

LEMMA PaidSet ==
  ASSUME TypeOK, NEW r \in Given, NEW u \in Users,
         reqs' = [reqs EXCEPT ![r].holder = u, ![r].paid = TRUE]
  PROVE  /\ RequestAt(r, reqs[r].desired, reqs[r].chair)
         /\ reqs'[r].holder = u
         /\ reqs'[r].evaluated = reqs[r].evaluated /\ reqs'[r].paid
<1>1. PICK x : x = [reqs[r] EXCEPT !.holder = u, !.paid = TRUE]
  OBVIOUS
<1>2. reqs[r] \in Request
  BY RideFields
<1>3. /\ x \in Request /\ x.known = reqs[r].known /\ x.desired = reqs[r].desired
      /\ x.chair = reqs[r].chair /\ x.user = reqs[r].user /\ x.holder = u
      /\ x.evaluated = reqs[r].evaluated /\ x.paid
  BY <1>1, <1>2 DEF Request
<1>4. reqs' = [reqs EXCEPT ![r] = x]
  BY <1>1 DEF TypeOK
<1>. QED  BY <1>3, <1>4, ReqsChange DEF RequestAt

\* An evaluation is done, and the lock left or kept.
SetsEvaluated(r) ==
  \/ reqs' = [reqs EXCEPT ![r].desired = 6, ![r].evaluated = TRUE]
  \/ reqs' = [[reqs EXCEPT ![r].desired = 6, ![r].evaluated = TRUE]
                EXCEPT ![r].holder = NoOne]

LEMMA EvaluationSet ==
  ASSUME TypeOK, NEW r \in Given, SetsEvaluated(r)
  PROVE  RequestAt(r, 6, reqs[r].chair) /\ reqs'[r].evaluated
<1>1. reqs[r] \in Request
  BY RideFields
<1>2. PICK h : h \in {reqs[r].holder, NoOne}
               /\ reqs' = [reqs EXCEPT ![r] = [reqs[r] EXCEPT !.desired = 6, !.evaluated = TRUE,
                                                              !.holder = h]]
  <2>1. CASE reqs' = [reqs EXCEPT ![r].desired = 6, ![r].evaluated = TRUE]
    <3>1. [reqs[r] EXCEPT !.desired = 6, !.evaluated = TRUE]
            = [reqs[r] EXCEPT !.desired = 6, !.evaluated = TRUE, !.holder = reqs[r].holder]
      BY <1>1 DEF Request
    <3>2. reqs' = [reqs EXCEPT ![r] = [reqs[r] EXCEPT !.desired = 6, !.evaluated = TRUE]]
      BY <2>1 DEF TypeOK
    <3>. QED  BY <3>1, <3>2, ZenonT(40)
  <2>2. CASE reqs' = [[reqs EXCEPT ![r].desired = 6, ![r].evaluated = TRUE]
                        EXCEPT ![r].holder = NoOne]
    <3>1. reqs' = [reqs EXCEPT ![r] = [reqs[r] EXCEPT !.desired = 6, !.evaluated = TRUE,
                                                      !.holder = NoOne]]
      BY <2>2 DEF TypeOK
    <3>. QED  BY <3>1, ZenonT(40)
  <2>. QED  BY <2>1, <2>2, ZenonT(40) DEF SetsEvaluated
<1>3. PICK x : x = [reqs[r] EXCEPT !.desired = 6, !.evaluated = TRUE, !.holder = h]
  OBVIOUS
<1>4. /\ x \in Request /\ x.known = reqs[r].known /\ x.desired = 6
      /\ x.chair = reqs[r].chair /\ x.user = reqs[r].user /\ x.evaluated = TRUE
  <2>1. h \in Users \cup Chairs \cup {NoOne}
    BY <1>1, <1>2 DEF Request
  <2>2. /\ x.known = reqs[r].known /\ x.desired = 6 /\ x.holder = h
        /\ x.chair = reqs[r].chair /\ x.user = reqs[r].user /\ x.paid = reqs[r].paid
    BY <1>1, <1>3 DEF Request
  <2>3. x.evaluated = TRUE
    BY <1>1, <1>3 DEF Request
  <2>4. x = [known |-> reqs[r].known, desired |-> 6, chair |-> reqs[r].chair,
             user |-> reqs[r].user, holder |-> h, evaluated |-> TRUE, paid |-> reqs[r].paid]
    BY <1>1, <1>3 DEF Request
  <2>5. x \in Request
    BY <1>1, <2>1, <2>4 DEF Request, RequestStatus
  <2>. QED  BY <2>2, <2>3, <2>5
<1>5. reqs' = [reqs EXCEPT ![r] = x]
  BY <1>2, <1>3
<1>. QED  BY <1>4, <1>5, ReqsChange DEF RequestAt

LEMMA UserRateKeeps ==
  ASSUME WorldInv, NEW u \in Users, UserRate(u), stopped' = stopped
  PROVE  WorldInv'
<1>0. PICK r : r = user[u].req
  OBVIOUS
<1>1. /\ user[u].pc = "idle" /\ r # Nothing /\ reqs[r].user = 5 /\ ~reqs[r].evaluated
      /\ chair' = chair /\ ErrorsOK
  BY <1>0 DEF UserRate, errorVars, ErrorsOK
<1>2. TypeOK /\ r \in Given /\ rides[r].user = u
  BY <1>0, <1>1, CurrentRide
<1>3. /\ Driven(r) /\ chair[rides[r].chair].pc = "idle" /\ rides[r].stage = 5
      /\ reqs[r].desired = 5 /\ reqs[r].chair = 5
  <2>1. ~BeingRated(r)
    BY <1>1, <1>2 DEF BeingRated
  <2>. QED  BY <1>1, <1>2, <2>1, RatableRide
<1>4. CASE /\ user' = [user EXCEPT ![u].pc = "rated"]
           /\ rides' = [rides EXCEPT ![r].stage = Completed]
           /\ \/ /\ reqs' = [reqs EXCEPT ![r].holder = u, ![r].paid = TRUE]
                 /\ faults' = faults
              \/ /\ reqs' = [reqs EXCEPT ![r].holder = u]
                 /\ Fault("unpaid", r, Arrived)
  <2>1. UserAt(u, "rated")
    BY <1>2, <1>4, UserPcSet
  <2>2. RideAt(r, 6)
    <3>1. SetsStage(r, 6)
      BY <1>4 DEF SetsStage
    <3>. QED  BY <1>2, <3>1, StageSet
  <2>3. /\ RequestAt(r, 5, 5) /\ reqs'[r].holder = u /\ faults \subseteq faults'
        /\ reqs'[r].evaluated = reqs[r].evaluated
        /\ reqs'[r].paid \/ <<"unpaid", r, Arrived>> \in faults'
    <3>1. CASE /\ reqs' = [reqs EXCEPT ![r].holder = u, ![r].paid = TRUE]
               /\ faults' = faults
      BY <1>2, <1>3, <3>1, PaidSet
    <3>2. CASE /\ reqs' = [reqs EXCEPT ![r].holder = u]
               /\ Fault("unpaid", r, Arrived)
      <4>1. faults \subseteq faults' /\ <<"unpaid", r, Arrived>> \in faults'
        BY <3>2, FaultEffect
      <4>. QED  BY <1>2, <1>3, <3>2, <4>1, HolderSet
    <3>. QED  BY <1>4, <3>1, <3>2
  <2>4. UserActs(u, "rated", r, 6, 5)
    BY <1>1, <1>3, <2>1, <2>2, <2>3 DEF UserActs
  <2>5. WorkOK(r)'
    <3>1. BeingRated(r)'
      BY <1>0, <1>2, <2>1, <2>2 DEF BeingRated, UserAt, RideAt
    <3>2. Driven(r)'
      BY <1>1, <1>3, <2>2 DEF Driven, RideAt
    <3>3. UnderWay(r)'
      <4>1. /\ rides'[r].chair = rides[r].chair /\ rides'[r].stage = 6
            /\ reqs'[r].desired = 5 /\ reqs'[r].chair = 5
        BY <2>2, <2>3 DEF RideAt, RequestAt
      <4>2. chair'[rides'[r].chair].pc = "idle"
        BY <1>1, <1>3, <4>1
      <4>. QED  BY <3>1, <4>1, <4>2 DEF UnderWay
    <3>. QED  BY <3>2, <3>3 DEF WorkOK
  <2>6. PICK n \in 5 .. 6, d \in 1 .. 6, p \in {"rated"} : n = 6 /\ d = 5
    OBVIOUS
  <2>7. UserActs(u, p, r, n, d)
    BY <2>4, <2>6
  <2>8. /\ 1 < rides[r].stage /\ rides[r].stage <= n
        /\ reqs[r].user >= 3 /\ (n = 6 => reqs[r].user >= 5)
        /\ (reqs[r].user = 6 => d = 6) /\ n = 6 /\ d = 5
        /\ p # "booked" /\ p # "refused" /\ r \in Given
    BY <1>1, <1>2, <1>3, <2>6
  <2>. QED  BY <1>0, <2>3, <2>5, <2>7, <2>8, UserActKeeps, ZenonT(40)
<1>5. CASE /\ Fault("refused", r, rides[r].stage)
           /\ user' = [user EXCEPT ![u].pc = "refused"]
           /\ reqs' = [reqs EXCEPT ![r].holder = u]
           /\ rides' = rides
  <2>1. UserAt(u, "refused")
    BY <1>2, <1>5, UserPcSet
  <2>2. RideAt(r, 5)
    BY <1>2, <1>3, <1>5, StageKept
  <2>3. RequestAt(r, 5, 5) /\ reqs'[r].evaluated = reqs[r].evaluated
    BY <1>2, <1>3, <1>5, HolderSet
  <2>4. faults \subseteq faults' /\ <<"refused", r, Arrived>> \in faults'
    BY <1>3, <1>5, FaultEffect
  <2>5. UserActs(u, "refused", r, 5, 5)
    BY <1>1, <1>3, <2>1, <2>2, <2>3, <2>4 DEF UserActs
  <2>6. WorkOK(r)'
    <3>1. Driven(r)'
      BY <1>1, <1>3, <2>2 DEF Driven, RideAt
    <3>2. UnderWay(r)'
      <4>1. /\ rides'[r].chair = rides[r].chair /\ rides'[r].stage = 5
            /\ reqs'[r].desired = 5 /\ reqs'[r].chair = 5
        BY <2>2, <2>3 DEF RideAt, RequestAt
      <4>2. chair'[rides'[r].chair].pc = "idle"
        BY <1>1, <1>3, <4>1
      <4>. QED  BY <4>1, <4>2 DEF UnderWay
    <3>. QED  BY <3>1, <3>2 DEF WorkOK
  <2>7. PICK n \in 5 .. 6, d \in 1 .. 6, p \in {"refused"} : n = 5 /\ d = 5
    OBVIOUS
  <2>8. UserActs(u, p, r, n, d)
    BY <2>5, <2>7
  <2>9. /\ 1 < rides[r].stage /\ rides[r].stage <= n
        /\ reqs[r].user >= 3 /\ n # 6 /\ (reqs[r].user = 6 => d = 6)
        /\ p # "booked" /\ p # "rated" /\ r \in Given
    BY <1>1, <1>2, <1>3, <2>7
  <2>. QED  BY <1>0, <2>4, <2>6, <2>8, <2>9, UserActKeeps
<1>. QED  BY <1>0, <1>4, <1>5 DEF UserRate

LEMMA UserRateRefusedKeeps ==
  ASSUME WorldInv, NEW u \in Users, UserRateRefused(u), stopped' = stopped
  PROVE  WorldInv'
<1>0. PICK r : r = user[u].req
  OBVIOUS
<1>1. /\ user[u].pc = "refused" /\ chair' = chair /\ rides' = rides /\ faults' = faults
      /\ reqs' = [reqs EXCEPT ![r].holder = NoOne] /\ user' = [user EXCEPT ![u].pc = "idle"]
      /\ Report("FailedToEvaluate", r)
  BY <1>0 DEF UserRateRefused
<1>2. r # Nothing /\ <<"refused", r, 5>> \in faults /\ rides[r].stage >= 5
  BY <1>0, <1>1 DEF WorldInv, UsersInv, UserOK
<1>3. TypeOK /\ r \in Given /\ rides[r].user = u /\ WorkOK(r) /\ RideOK(r)
  BY <1>0, <1>2, CurrentRide
<1>4. PICK n \in 5 .. 6, d \in 1 .. 6 : n = rides[r].stage /\ d = reqs[r].desired
  BY <1>2, <1>3, RideFields
<1>5. UserAt(u, "idle") /\ RideAt(r, n)
  BY <1>1, <1>3, <1>4, UserPcSet, StageKept
<1>6. RequestAt(r, d, reqs[r].chair) /\ reqs'[r].evaluated = reqs[r].evaluated
  BY <1>1, <1>3, <1>4, HolderSet
<1>7. ErrorsOK
  <2>1. Explained("FailedToEvaluate", r)' /\ r \in Given'
    BY <1>1, <1>2, <1>3 DEF Explained, Given
  <2>. QED  BY <1>1, <2>1 DEF ErrorsOK
<1>8. UserActs(u, "idle", r, n, d)
  BY <1>1, <1>3, <1>4, <1>5, <1>6, <1>7 DEF UserActs, RideOK
<1>9. WorkOK(r)'
  <2>1. Driven(r)' <=> Driven(r)
    BY <1>1 DEF Driven
  <2>2. (Finished(r)' <=> Finished(r)) /\ ~Unstarted(r) /\ ~BeingRated(r)
    BY <1>1, <1>2, <1>3, <1>4, <1>6 DEF Finished, Unstarted, BeingRated, RequestAt
  <2>3. UnderWay(r) => UnderWay(r)'
    BY <1>1, <1>2, <1>4, <1>6, <2>2 DEF UnderWay, RequestAt
  <2>. QED  BY <1>1, <1>3, <2>1, <2>2, <2>3 DEF WorkOK
<1>10. /\ reqs[r].user >= 3 /\ (n = 6 => reqs[r].user >= 5) /\ (reqs[r].user = 6 => d = 6)
  BY <1>2, <1>3, <1>4 DEF RideOK
<1>11. 1 < rides[r].stage /\ rides[r].stage <= n
  BY <1>4
<1>. QED  BY <1>0, <1>3, <1>8, <1>9, <1>10, <1>11, UserActKeeps

LEMMA UserRatedKeeps ==
  ASSUME WorldInv, NEW u \in Users, UserRated(u), stopped' = stopped
  PROVE  WorldInv'
<1>0. PICK r : r = user[u].req
  OBVIOUS
<1>1. /\ user[u].pc = "rated" /\ chair' = chair /\ rides' = rides /\ faults' = faults
      /\ user' = [user EXCEPT ![u].pc = "idle"]
  BY <1>0 DEF UserRated
<1>2. /\ r # Nothing /\ rides[r].stage = 6 /\ reqs[r].desired = 5
      /\ reqs[r].paid \/ <<"unpaid", r, 5>> \in faults
  BY <1>0, <1>1 DEF WorldInv, UsersInv, UserOK
<1>3. TypeOK /\ r \in Given /\ rides[r].user = u /\ WorkOK(r) /\ RideOK(r)
  BY <1>0, <1>2, CurrentRide
<1>4. UserAt(u, "idle") /\ RideAt(r, 6)
  BY <1>1, <1>2, <1>3, UserPcSet, StageKept
<1>5. RequestAt(r, 6, reqs[r].chair) /\ reqs'[r].evaluated
  <2>1. SetsEvaluated(r)
    BY <1>0 DEF UserRated, SetsEvaluated
  <2>. QED  BY <1>3, <2>1, EvaluationSet
<1>6. ErrorsOK
  <2>1. CASE errorVars' = errorVars
    BY <2>1 DEF errorVars, ErrorsOK
  <2>2. CASE ~reqs[r].paid /\ Report("SkippedPaymentButEvaluated", r)
    <3>1. Explained("SkippedPaymentButEvaluated", r)' /\ r \in Given'
      BY <1>1, <1>2, <1>3, <2>2 DEF Explained, Given
    <3>. QED  BY <2>2, <3>1 DEF ErrorsOK
  <2>. QED  BY <1>0, <2>1, <2>2 DEF UserRated
<1>7. UserActs(u, "idle", r, 6, 6)
  BY <1>1, <1>4, <1>5, <1>6 DEF UserActs
<1>8. WorkOK(r)'
  <2>1. Driven(r) /\ UnderWay(r)
    BY <1>2, <1>3 DEF WorkOK, Unstarted, Finished
  <2>2. chair[rides[r].chair].pc = "idle" /\ reqs[r].chair = 5
    BY <1>2, <2>1 DEF UnderWay, Unstarted
  <2>3. Driven(r)' /\ UnderWay(r)'
    BY <1>1, <1>2, <1>5, <2>1, <2>2 DEF Driven, UnderWay, RequestAt
  <2>. QED  BY <2>3 DEF WorkOK
<1>9. reqs[r].user >= 5
  BY <1>2, <1>3 DEF RideOK
<1>10. reqs[r].user >= 3
  BY <1>3, <1>9, RideFields
<1>11. 1 < rides[r].stage /\ rides[r].stage <= 6
  BY <1>2
<1>12. PICK n \in 5 .. 6, d \in 1 .. 6, p \in {"idle"} : n = 6 /\ d = 6
  OBVIOUS
<1>13. UserActs(u, p, r, n, d)
  BY <1>7, <1>12
<1>14. 1 < rides[r].stage /\ rides[r].stage <= n
  BY <1>11, <1>12
<1>15. n = Completed => reqs[r].user >= Arrived
  BY <1>9
<1>16. reqs[r].user = Completed => d = Completed
  BY <1>12
<1>17. /\ p # "booked"
       /\ p # "rated" /\ p # "refused"
  BY <1>12
<1>18. r \in Given
  BY <1>3
<1>. QED  BY <1>0, <1>18, <1>13, <1>8, <1>15, <1>10, <1>14, <1>16, <1>17, UserActKeeps

-----------------------------------------------------------------------------
(* The steps of a chair and of a user that the server does not hear of, or *)
(* only as a poll.                                                         *)

\* Chair c is told something, or handles it.
ChairMoves(c) ==
  /\ SameRides /\ OnlyChair(c) /\ user' = user /\ faults \subseteq faults'
  /\ \A q \in Given :
       /\ rides'[q].stage = rides[q].stage /\ rides'[q].app = rides[q].app
       /\ rides[q].chr <= rides'[q].chr
       /\ reqs'[q].known = reqs[q].known /\ reqs'[q].desired = reqs[q].desired
       /\ reqs'[q].user = reqs[q].user /\ reqs'[q].holder = reqs[q].holder
       /\ reqs'[q].evaluated = reqs[q].evaluated /\ reqs'[q].paid = reqs[q].paid
       /\ reqs[q].chair <= reqs'[q].chair
       /\ rides[q].chair # c => rides'[q] = rides[q] /\ reqs'[q] = reqs[q]

LEMMA StagesKept ==
  ASSUME TypeOK, SameRides, faults \subseteq faults',
         \A q \in Given : rides'[q].stage = rides[q].stage
  PROVE  Grows
<1>1. \A q \in Given : rides[q].stage <= rides'[q].stage
  BY RideFields
<1>. QED  BY <1>1 DEF Grows, SameRides, TypeOK

LEMMA ChairMovesKeeps ==
  ASSUME WorldInv, TypeOK', NEW c \in Chairs, ChairMoves(c), ErrorsOK,
         \A q \in Given : rides[q].chair = c =>
           /\ WorkOK(q)' /\ rides'[q].chr <= rides'[q].stage
           /\ reqs'[q].chair = Completed => rides'[q].chr = FullLog,
         ChairOK(c)', ChairQueueOK(c)'
  PROVE  WorldInv'
<1>1. /\ TypeOK /\ RidesInv /\ ChairsInv /\ UsersInv /\ OrderOK
      /\ ChairQueuesInv /\ UserQueuesInv /\ c # NoOne
  BY WorldAssumption DEF WorldInv
<1>2. Given' = Given /\ SameRides
  BY RidesOfStay DEF ChairMoves
<1>3. Grows
  BY <1>1, StagesKept DEF ChairMoves
<1>4. ASSUME NEW q \in Given
      PROVE  WorkOK(q)' /\ RideOK(q)' /\ OwnedOK(q)'
  <2>1. CASE rides[q].chair = c
    <3>1. /\ WorkOK(q)' /\ rides'[q].chr <= rides'[q].stage
          /\ reqs'[q].chair = Completed => rides'[q].chr = FullLog
      BY <2>1
    <3>2. /\ rides'[q].chair # NoOne /\ rides'[q].stage = rides[q].stage
          /\ rides'[q].app = rides[q].app /\ reqs'[q].desired = reqs[q].desired
          /\ reqs'[q].user = reqs[q].user /\ reqs'[q].evaluated = reqs[q].evaluated
          /\ RideOK(q) /\ OwnedOK(q)
      BY <1>1, <1>2, <2>1 DEF ChairMoves, SameRides, RidesInv
    <3>3. RideOK(q)'
      BY <3>1, <3>2 DEF RideOK
    <3>4. rides'[q].user = rides[q].user /\ RidesOfUser(rides[q].user)' = RidesOfUser(rides[q].user)
      BY <1>2, RidesOfStay DEF SameRides
    <3>5. reqs'[q].known = reqs[q].known /\ user' = user
      BY DEF ChairMoves
    <3>6. OwnedOK(q)'
      BY <3>2, <3>4, <3>5 DEF OwnedOK, Latest
    <3>. QED  BY <3>1, <3>3, <3>6
  <2>2. CASE rides[q].chair # c
    <3>1. rides'[q] = rides[q] /\ reqs'[q] = reqs[q]
      BY <2>2 DEF ChairMoves
    <3>2. UserStill(rides[q].user, q)
      BY DEF UserStill, ChairMoves
    <3>3. ASSUME rides[q].chair # NoOne
          PROVE  ChairStill(rides[q].chair, q)
      <4>1. rides[q].chair \in Chairs
        BY <1>1, <3>3, RideFields
      <4>. QED  BY <2>2, <4>1 DEF ChairStill, ChairMoves, OnlyChair
    <3>. QED  BY <1>1, <1>2, <3>1, <3>2, <3>3, RideStays DEF RidesInv
  <2>. QED  BY <2>1, <2>2
<1>5. ASSUME NEW d \in Chairs
      PROVE  ChairOK(d)' /\ ChairQueueOK(d)'
  <2>1. CASE d = c
    BY <2>1
  <2>2. CASE d # c
    <3>1. chair'[d] = chair[d]
      BY <2>2 DEF ChairMoves, OnlyChair
    <3>2. \A q \in Given : reqs[q].known => reqs'[q].known
      BY DEF ChairMoves
    <3>3. \A q \in Given : rides[q].chair = d =>
            /\ rides'[q].chr = rides[q].chr
            /\ reqs'[q].chair = Completed => reqs[q].chair = Completed
      BY <2>2 DEF ChairMoves
    <3>4. ChairOK(d)'
      BY <1>1, <1>3, <3>1, <3>2, ChairStays DEF ChairsInv
    <3>5. ChairQueueOK(d)'
      BY <1>1, <1>3, <3>1, <3>3, ChairQueueStays DEF ChairsInv, ChairQueuesInv
    <3>. QED  BY <3>4, <3>5
  <2>. QED  BY <2>1, <2>2
<1>6. ASSUME NEW u \in Users
      PROVE  UserOK(u)' /\ UserQueueOK(u)' /\ ValidatedOK(u)'
  <2>1. user'[u] = user[u]
    BY DEF ChairMoves
  <2>2. \A q \in Given :
          /\ rides'[q].app = rides[q].app /\ reqs'[q].known = reqs[q].known
          /\ reqs'[q].user = reqs[q].user
          /\ rides'[q].stage = rides[q].stage /\ reqs'[q].desired = reqs[q].desired
          /\ reqs'[q].holder = reqs[q].holder /\ reqs'[q].paid = reqs[q].paid
    BY DEF ChairMoves
  <2>3. UserOK(u)'
    BY <1>1, <1>2, <1>3, <2>1, <2>2, UserStays DEF UsersInv
  <2>4. UserQueueOK(u)' /\ ValidatedOK(u)'
    BY <1>1, <1>3, <2>1, <2>2, UserQueueStays DEF UsersInv, UserQueuesInv
  <2>. QED  BY <2>3, <2>4
<1>7. OrderOK'
  <2>1. \A q \in Given :
          /\ rides[q].chr <= rides'[q].chr /\ reqs[q].chair <= reqs'[q].chair
          /\ rides'[q].stage = rides[q].stage
    BY DEF ChairMoves
  <2>. QED  BY <1>1, <1>2, <1>3, <2>1, OrderStays
<1>8. ReportsOK'
  BY <1>3, ErrorsExplained
<1>. QED  BY <1>2, <1>4, <1>5, <1>6, <1>7, <1>8 DEF WorldInv, RidesInv, ChairsInv, UsersInv,
                                                   ChairQueuesInv, UserQueuesInv

\* User u is told something, handles it, or turns to another ride.
UserMoves(u) ==
  /\ SameRides /\ OnlyUser(u) /\ chair' = chair /\ faults \subseteq faults'
  /\ \A q \in Given :
       /\ rides'[q].stage = rides[q].stage /\ rides'[q].chr = rides[q].chr
       /\ reqs'[q].desired = reqs[q].desired /\ reqs'[q].chair = reqs[q].chair
       /\ reqs'[q].holder = reqs[q].holder
       /\ reqs[q].known => reqs'[q].known
       /\ rides[q].user # u => rides'[q] = rides[q] /\ reqs'[q] = reqs[q]
  /\ user[u].pc = "rated" => user'[u].pc = "rated" /\ user'[u].req = user[u].req

LEMMA UserMovesKeeps ==
  ASSUME WorldInv, TypeOK', NEW u \in Users, UserMoves(u), ErrorsOK,
         \A q \in Given : rides[q].user = u => RideOK(q)' /\ OwnedOK(q)',
         UserOK(u)', UserQueueOK(u)', ValidatedOK(u)'
  PROVE  WorldInv'
<1>1. /\ TypeOK /\ RidesInv /\ ChairsInv /\ UsersInv /\ OrderOK
      /\ ChairQueuesInv /\ UserQueuesInv
  BY DEF WorldInv
<1>2. Given' = Given /\ SameRides
  BY RidesOfStay DEF UserMoves
<1>3. Grows
  BY <1>1, StagesKept DEF UserMoves
<1>4. ASSUME NEW q \in Given
      PROVE  WorkOK(q)' /\ RideOK(q)' /\ OwnedOK(q)'
  <2>1. CASE rides[q].user = u
    <3>1. /\ rides'[q].stage = rides[q].stage /\ rides'[q].chair = rides[q].chair
          /\ reqs'[q].desired = reqs[q].desired /\ reqs'[q].chair = reqs[q].chair
          /\ reqs'[q].holder = reqs[q].holder /\ chair' = chair
      BY <1>2 DEF UserMoves, SameRides
    <3>2. BeingRated(q) => BeingRated(q)'
      BY <1>2, <2>1 DEF BeingRated, UserMoves, SameRides
    <3>3. WorkOK(q)
      BY <1>1 DEF RidesInv
    <3>4. /\ Driven(q)' <=> Driven(q)
          /\ Unstarted(q)' <=> Unstarted(q)
          /\ Finished(q)' <=> Finished(q)
      BY <3>1 DEF Driven, Unstarted, Finished
    <3>5. UnderWay(q) => UnderWay(q)'
      BY <3>1, <3>2, <3>4 DEF UnderWay
    <3>6. WorkOK(q)'
      BY <3>1, <3>3, <3>4, <3>5 DEF WorkOK
    <3>. QED  BY <2>1, <3>6
  <2>2. CASE rides[q].user # u
    <3>1. rides'[q] = rides[q] /\ reqs'[q] = reqs[q]
      BY <2>2 DEF UserMoves
    <3>2. rides[q].user \in Users
      BY <1>1, RideFields
    <3>3. UserStill(rides[q].user, q)
      BY <2>2, <3>2 DEF UserStill, UserMoves, OnlyUser
    <3>4. rides[q].chair # NoOne => ChairStill(rides[q].chair, q)
      BY DEF ChairStill, UserMoves
    <3>. QED  BY <1>1, <1>2, <3>1, <3>3, <3>4, RideStays DEF RidesInv
  <2>. QED  BY <2>1, <2>2
<1>5. ASSUME NEW d \in Chairs
      PROVE  ChairOK(d)' /\ ChairQueueOK(d)'
  <2>1. chair'[d] = chair[d]
    BY DEF UserMoves
  <2>2. \A q \in Given :
          /\ rides'[q].chr = rides[q].chr /\ (reqs[q].known => reqs'[q].known)
          /\ reqs'[q].chair = reqs[q].chair
    BY DEF UserMoves
  <2>3. ChairOK(d)'
    BY <1>1, <1>3, <2>1, <2>2, ChairStays DEF ChairsInv
  <2>4. ChairQueueOK(d)'
    BY <1>1, <1>3, <2>1, <2>2, ChairQueueStays DEF ChairsInv, ChairQueuesInv
  <2>. QED  BY <2>3, <2>4
<1>6. ASSUME NEW v \in Users
      PROVE  UserOK(v)' /\ UserQueueOK(v)' /\ ValidatedOK(v)'
  <2>1. CASE v = u
    BY <2>1
  <2>2. CASE v # u
    <3>1. user'[v] = user[v]
      BY <2>2 DEF UserMoves, OnlyUser
    <3>2. \A q \in Given : rides[q].user = v => rides'[q] = rides[q] /\ reqs'[q] = reqs[q]
      BY <2>2 DEF UserMoves
    <3>3. UserOK(v)'
      BY <1>1, <1>2, <1>3, <3>1, <3>2, UserStays DEF UsersInv
    <3>4. UserQueueOK(v)' /\ ValidatedOK(v)'
      BY <1>1, <1>3, <3>1, <3>2, UserQueueStays DEF UsersInv, UserQueuesInv
    <3>. QED  BY <3>3, <3>4
  <2>. QED  BY <2>1, <2>2
<1>7. OrderOK'
  <2>1. ASSUME NEW q \in Given
        PROVE  /\ rides[q].chr <= rides'[q].chr /\ reqs[q].chair <= reqs'[q].chair
               /\ rides'[q].stage = rides[q].stage
    BY <1>1, RideFields DEF UserMoves
  <2>. QED  BY <1>1, <1>2, <1>3, <2>1, OrderStays
<1>8. ReportsOK'
  BY <1>3, ErrorsExplained
<1>. QED  BY <1>2, <1>4, <1>5, <1>6, <1>7, <1>8 DEF WorldInv, RidesInv, ChairsInv, UsersInv,
                                                   ChairQueuesInv, UserQueuesInv

LEMMA HoldsGrows ==
  ASSUME NEW s \in Seq(Event), NEW e \in Event, NEW r, NEW status, Holds(s, r, status)
  PROVE  Holds(Append(s, e), r, status)
<1>1. PICK i \in 1 .. Len(s) : s[i].ride = r /\ s[i].status = status
  BY DEF Holds
<1>2. i \in 1 .. Len(Append(s, e)) /\ Append(s, e)[i] = s[i]
  BY QueueGrows
<1>. QED  BY <1>1, <1>2 DEF Holds

LEMMA HoldsNew ==
  ASSUME NEW s \in Seq(Event), NEW e \in Event
  PROVE  Holds(Append(s, e), e.ride, e.status)
<1>1. Len(s) + 1 \in 1 .. Len(Append(s, e)) /\ Append(s, e)[Len(s) + 1] = e
  BY QueueGrows
<1>. QED  BY <1>1 DEF Holds

LEMMA HoldsShrinks ==
  ASSUME NEW s \in Seq(Event), s # <<>>, NEW r, NEW status, Holds(s, r, status),
         Head(s).ride # r \/ Head(s).status # status
  PROVE  Holds(Tail(s), r, status)
<1>1. PICK i \in 1 .. Len(s) : s[i].ride = r /\ s[i].status = status
  BY DEF Holds
<1>2. /\ Len(s) \in Nat \ {0} /\ Head(s) = s[1] /\ Len(Tail(s)) = Len(s) - 1
      /\ \A j \in 1 .. Len(Tail(s)) : Tail(s)[j] = s[j + 1]
  BY QueueShrinks
<1>3. i # 1
  BY <1>1, <1>2
<1>4. i - 1 \in 1 .. Len(Tail(s)) /\ (i - 1) + 1 = i
  BY <1>2, <1>3
<1>5. Tail(s)[i - 1] = s[i]
  BY <1>2, <1>4
<1>. QED  BY <1>1, <1>4, <1>5 DEF Holds

\* A ride whose chair goes on as before.
LEMMA WorkStays ==
  ASSUME NEW q \in Given, WorkOK(q), user' = user,
         rides'[q].stage = rides[q].stage, rides'[q].chair = rides[q].chair,
         rides'[q].user = rides[q].user, reqs'[q].desired = reqs[q].desired,
         reqs'[q].chair = reqs[q].chair, reqs'[q].holder = reqs[q].holder,
         chair'[rides[q].chair].req = chair[rides[q].chair].req,
         chair'[rides[q].chair].pc = chair[rides[q].chair].pc,
         chair'[rides[q].chair].matching = q => chair[rides[q].chair].matching = q
  PROVE  WorkOK(q)'
<1>1. /\ Driven(q)' <=> Driven(q)
      /\ Unstarted(q)' <=> Unstarted(q)
      /\ Finished(q)' <=> Finished(q)
      /\ BeingRated(q)' <=> BeingRated(q)
  BY DEF Driven, Unstarted, Finished, BeingRated
<1>2. UnderWay(q) => UnderWay(q)'
  BY <1>1 DEF UnderWay
<1>. QED  BY <1>1, <1>2 DEF WorkOK

LEMMA NothingErrs ==
  ASSUME UNCHANGED errorVars
  PROVE  ErrorsOK
BY DEF errorVars, ErrorsOK

LEMMA ChairActivateKeeps ==
  ASSUME WorldInv, NEW c \in Chairs, ChairActivate(c), stopped' = stopped
  PROVE  WorldInv'
<1>1. /\ rides' = rides /\ reqs' = reqs /\ user' = user /\ faults' = faults
      /\ UNCHANGED errorVars /\ chair' = [chair EXCEPT ![c].active = TRUE]
  BY DEF ChairActivate
<1>2. TypeOK /\ RidesInv /\ ChairOK(c) /\ ChairQueueOK(c)
  BY DEF WorldInv, ChairsInv, ChairQueuesInv
<1>3. PICK x : x = [chair[c] EXCEPT !.active = TRUE]
  OBVIOUS
<1>4. /\ x \in Chair /\ x.pc = chair[c].pc /\ x.req = chair[c].req
      /\ x.matching = chair[c].matching /\ x.queue = chair[c].queue
      /\ Len(x.queue) <= QueueCapacity
  <2>1. chair[c] \in Chair /\ Len(chair[c].queue) <= QueueCapacity
    BY <1>2, ChairFields DEF TypeOK
  <2>. QED  BY <1>3, <2>1 DEF Chair
<1>5. chair' = [chair EXCEPT ![c] = x]
  BY <1>1, <1>3
<1>6. /\ chair' \in [Chairs -> Chair] /\ OnlyChair(c) /\ chair'[c] = x
      /\ \A d \in Chairs : Len(chair'[d].queue) <= QueueCapacity
  BY <1>2, <1>4, <1>5, ChairsChange
<1>7. ErrorsOK
  BY <1>1, NothingErrs
<1>8. TypeOK'
  BY <1>1, <1>2, <1>6, <1>7, ErrorsType DEF TypeOK, ChairActivate
<1>9. ChairMoves(c)
  <2>1. \A q \in Given : rides[q].chr <= rides[q].chr /\ reqs[q].chair <= reqs[q].chair
    BY <1>2, RideFields
  <2>2. rides' = rides /\ reqs' = reqs /\ user' = user /\ faults \subseteq faults'
    BY <1>1
  <2>. QED  BY <1>6, <2>1, <2>2 DEF ChairMoves, SameRides
<1>10. ASSUME NEW q \in Given, rides[q].chair = c
       PROVE  /\ WorkOK(q)' /\ rides'[q].chr <= rides'[q].stage
              /\ reqs'[q].chair = Completed => rides'[q].chr = FullLog
  <2>1. WorkOK(q) /\ RideOK(q)
    BY <1>2 DEF RidesInv
  <2>2. WorkOK(q)'
    BY <1>1, <1>4, <1>6, <1>10, <2>1, WorkStays
  <2>. QED  BY <1>1, <2>1, <2>2 DEF RideOK
<1>11. Grows
  BY <1>2, <1>9, StagesKept DEF ChairMoves
<1>12. ChairOK(c)'
  BY <1>1, <1>2, <1>4, <1>6, <1>8, <1>11, ChairStays
<1>13. ChairQueueOK(c)'
  BY <1>1, <1>2, <1>4, <1>6, <1>8, <1>11, ChairQueueStays
<1>. QED  BY <1>7, <1>8, <1>9, <1>10, <1>12, <1>13, ChairMovesKeeps

LEMMA ChairSeesKeeps ==
  ASSUME WorldInv, NEW c \in Chairs, ChairSees(c), stopped' = stopped
  PROVE  WorldInv'
<1>0. PICK r : r = chair[c].matching
  OBVIOUS
<1>1. /\ rides' = rides /\ reqs' = reqs /\ user' = user /\ faults' = faults
      /\ UNCHANGED errorVars /\ chair' = [chair EXCEPT ![c].req = r]
      /\ chair[c].pc = "idle" /\ chair[c].req = Nothing /\ r # Nothing /\ reqs[r].known
  BY <1>0 DEF ChairSees
<1>2. TypeOK /\ RidesInv /\ ChairOK(c) /\ ChairQueueOK(c)
  BY DEF WorldInv, ChairsInv, ChairQueuesInv
<1>3. r \in Given /\ rides[r].chair = c /\ r \in Ids
  <2>1. r \in Given /\ rides[r].chair = c
    BY <1>0, <1>1, <1>2 DEF ChairOK
  <2>. QED  BY <1>2, <2>1, RideFields
<1>4. PICK x : x = [chair[c] EXCEPT !.req = r]
  OBVIOUS
<1>5. /\ x \in Chair /\ x.pc = "idle" /\ x.req = r
      /\ x.matching = r /\ x.queue = chair[c].queue
      /\ Len(x.queue) <= QueueCapacity
  <2>1. chair[c] \in Chair /\ Len(chair[c].queue) <= QueueCapacity
    BY <1>2, ChairFields DEF TypeOK
  <2>. QED  BY <1>0, <1>1, <1>3, <1>4, <2>1 DEF Chair
<1>6. chair' = [chair EXCEPT ![c] = x]
  BY <1>1, <1>4
<1>7. /\ chair' \in [Chairs -> Chair] /\ OnlyChair(c) /\ chair'[c] = x
      /\ \A d \in Chairs : Len(chair'[d].queue) <= QueueCapacity
  BY <1>2, <1>5, <1>6, ChairsChange
<1>8. ErrorsOK
  BY <1>1, NothingErrs
<1>9. TypeOK'
  BY <1>1, <1>2, <1>7, <1>8, ErrorsType DEF TypeOK, ChairSees
<1>10. ChairMoves(c)
  <2>1. \A q \in Given : rides[q].chr <= rides[q].chr /\ reqs[q].chair <= reqs[q].chair
    BY <1>2, RideFields
  <2>2. rides' = rides /\ reqs' = reqs /\ user' = user /\ faults \subseteq faults'
    BY <1>1
  <2>. QED  BY <1>7, <2>1, <2>2 DEF ChairMoves, SameRides
<1>11. ASSUME NEW q \in Given, rides[q].chair = c
       PROVE  /\ WorkOK(q)' /\ rides'[q].chr <= rides'[q].stage
              /\ reqs'[q].chair = Completed => rides'[q].chr = FullLog
  <2>1. WorkOK(q) /\ RideOK(q)
    BY <1>2 DEF RidesInv
  <2>2. ~Driven(q)
    BY <1>1, <1>2, <1>11, RideFields DEF Driven
  <2>3. CASE q = r
    <3>1. Unstarted(q)
      BY <1>0, <1>11, <2>1, <2>2, <2>3 DEF WorkOK
    <3>2. UnderWay(q)'
      BY <1>1, <1>5, <1>7, <1>11, <3>1 DEF UnderWay, Unstarted
    <3>3. Driven(q)'
      BY <1>1, <1>2, <1>5, <1>7, <1>11, <2>3, WorldAssumption DEF Driven
    <3>4. WorkOK(q)'
      BY <3>2, <3>3 DEF WorkOK
    <3>. QED  BY <1>1, <2>1, <3>4 DEF RideOK
  <2>4. CASE q # r
    <3>1. ~Driven(q)'
      BY <1>1, <1>5, <1>7, <1>11, <2>4 DEF Driven
    <3>2. (Unstarted(q)' <=> Unstarted(q)) /\ (Finished(q)' <=> Finished(q))
      BY <1>1 DEF Unstarted, Finished
    <3>3. WorkOK(q)'
      BY <1>1, <1>5, <1>7, <1>11, <2>1, <2>2, <2>4, <3>1, <3>2 DEF WorkOK
    <3>. QED  BY <1>1, <2>1, <3>3 DEF RideOK
  <2>. QED  BY <2>3, <2>4
<1>12. Grows
  BY <1>2, <1>10, StagesKept DEF ChairMoves
<1>13. ChairOK(c)'
  BY <1>1, <1>3, <1>5, <1>7 DEF ChairOK, Given
<1>14. ChairQueueOK(c)'
  BY <1>0, <1>1, <1>2, <1>5, <1>7, <1>9, <1>12, ChairQueueStays
<1>. QED  BY <1>8, <1>9, <1>10, <1>11, <1>13, <1>14, ChairMovesKeeps

-----------------------------------------------------------------------------
(* Polls.                                                                  *)

LEMMA NextRowIs ==
  ASSUME TypeOK, NEW r \in Given, NEW sent \in 0 .. 6, sent <= rides[r].stage
  PROVE  /\ NextRow(sent, r) \in 1 .. 6
         /\ sent <= NextRow(sent, r) /\ NextRow(sent, r) <= rides[r].stage
         /\ NextRow(sent, r) = sent \/ NextRow(sent, r) = sent + 1
         /\ NextRow(sent, r) = sent => sent = rides[r].stage
<1>1. rides[r].stage \in 1 .. 6
  BY RideFields
<1>2. PICK n \in 1 .. 6 : n = rides[r].stage
  BY <1>1
<1>3. NextRow(sent, r) = IF sent + 1 <= n THEN sent + 1 ELSE n
  BY <1>2, LesserOfTwo DEF NextRow
<1>. QED  BY <1>2, <1>3

LEMMA TotalType ==
  ASSUME TypeOK, NEW c
  PROVE  TotalRides(c) \in 0 .. MaxRides
<1>1. {r \in RidesOfChair(c) : c # NoOne /\ rides[r].stage = 6} \in SUBSET (1 .. Len(rides))
  BY DEF RidesOfChair
<1>2. TotalRides(c) \in 0 .. Len(rides)
  BY <1>1, CountType DEF TotalRides, TypeOK
<1>3. Len(rides) \in Nat /\ Len(rides) <= MaxRides /\ MaxRides \in Nat
  BY WorldAssumption DEF TypeOK
<1>. QED  BY <1>2, <1>3

LEMMA NotificationIs ==
  ASSUME TypeOK, NEW r \in Given, NEW sent \in 0 .. 6, sent <= rides[r].stage
  PROVE  /\ Notification(sent, r) \in Event
         /\ Notification(sent, r).ride = r
         /\ Notification(sent, r).status = NextRow(sent, r)
         /\ Notification(sent, r).total = TotalRides(rides[r].chair)
<1>1. NextRow(sent, r) \in RequestStatus /\ r \in Ids
  BY NextRowIs, RideFields DEF RequestStatus
<1>2. TotalRides(rides[r].chair) \in 0 .. MaxRides
  BY TotalType
<1>. QED  BY <1>1, <1>2 DEF Notification, Event

LEMMA ChairsLatest ==
  ASSUME TypeOK, NEW c, RidesOfChair(c) # {}, NEW r, r = Max(RidesOfChair(c))
  PROVE  /\ r \in Given /\ rides[r].chair = c
         /\ \A q \in Given : rides[q].chair = c => q <= r
<1>1. RidesOfChair(c) \in SUBSET (1 .. Len(rides)) /\ Len(rides) \in Nat
  BY DEF RidesOfChair, TypeOK
<1>2. r \in RidesOfChair(c) /\ \A q \in RidesOfChair(c) : q <= r
  BY <1>1, GreatestIsThere
<1>. QED  BY <1>2 DEF RidesOfChair, Given

\* The chair has been sent n rows of ride r.
SetsChr(r, n) == rides' = [rides EXCEPT ![r].chr = n]

LEMMA ChrSet ==
  ASSUME TypeOK, NEW r \in Given, NEW n \in 0 .. 6, SetsChr(r, n)
  PROVE  /\ rides' \in Seq(Ride) /\ Len(rides') = Len(rides)
         /\ \A q \in Given : q # r => rides'[q] = rides[q]
         /\ rides'[r].chr = n /\ rides'[r].user = rides[r].user
         /\ rides'[r].chair = rides[r].chair /\ rides'[r].app = rides[r].app
         /\ rides'[r].stage = rides[r].stage
<1>1. PICK x : x = [rides[r] EXCEPT !.chr = n]
  OBVIOUS
<1>2. rides[r] \in Ride
  BY RideFields
<1>3. /\ x \in Ride /\ x.chr = n /\ x.user = rides[r].user /\ x.stage = rides[r].stage
      /\ x.chair = rides[r].chair /\ x.app = rides[r].app
  BY <1>1, <1>2 DEF Ride
<1>4. rides' = [rides EXCEPT ![r] = x]
  BY <1>1 DEF SetsChr
<1>. QED  BY <1>3, <1>4, RidesChange

LEMMA ChairPollLostKeeps ==
  ASSUME WorldInv, NEW c \in Chairs, ChairPollLost(c), stopped' = stopped
  PROVE  WorldInv'
<1>0. PICK r : r = Max(RidesOfChair(c))
  OBVIOUS
<1>1. TypeOK /\ RidesInv /\ ChairOK(c) /\ ChairQueueOK(c)
  BY DEF WorldInv, ChairsInv, ChairQueuesInv
<1>2. r \in Given /\ rides[r].chair = c
  BY <1>0, <1>1, ChairsLatest DEF ChairPollLost
<1>3. /\ reqs' = reqs /\ user' = user /\ chair' = chair /\ UNCHANGED errorVars
      /\ rides[r].chr < rides[r].stage /\ Fault("chair", r, rides[r].chr + 1)
  BY <1>0 DEF ChairPollLost
<1>4. PICK n \in 1 .. 6 : n = rides[r].chr + 1 /\ n <= rides[r].stage
  BY <1>1, <1>2, <1>3, RideFields
<1>5. SetsChr(r, n)
  BY <1>0, <1>4 DEF ChairPollLost, SetsChr
<1>6. /\ rides' \in Seq(Ride) /\ Len(rides') = Len(rides)
      /\ \A q \in Given : q # r => rides'[q] = rides[q]
      /\ rides'[r].chr = n /\ rides'[r].user = rides[r].user
      /\ rides'[r].chair = rides[r].chair /\ rides'[r].app = rides[r].app
      /\ rides'[r].stage = rides[r].stage
  BY <1>1, <1>2, <1>5, ChrSet
<1>7. faults \subseteq faults' /\ <<"chair", r, n>> \in faults'
  BY <1>3, <1>4, FaultEffect
<1>8. ErrorsOK
  BY <1>3, NothingErrs
<1>9. TypeOK'
  BY <1>1, <1>3, <1>6, <1>8, ErrorsType DEF TypeOK
<1>10. \A q \in Given :
         /\ rides'[q].stage = rides[q].stage /\ rides'[q].app = rides[q].app
         /\ rides'[q].chair = rides[q].chair /\ rides'[q].user = rides[q].user
         /\ rides[q].chr <= rides'[q].chr /\ rides'[q].chr <= rides'[q].stage
         /\ rides[q].chr = FullLog => rides'[q].chr = FullLog
         /\ reqs[q].chair <= reqs[q].chair
  <2>1. \A q \in Given : rides[q].chr <= rides[q].stage
    BY <1>1 DEF RidesInv, RideOK
  <2>. QED  BY <1>1, <1>2, <1>4, <1>6, <2>1, RideFields
<1>11. ChairMoves(c)
  BY <1>2, <1>3, <1>6, <1>7, <1>10 DEF ChairMoves, SameRides, OnlyChair
<1>12. ASSUME NEW q \in Given, rides[q].chair = c
       PROVE  /\ WorkOK(q)' /\ rides'[q].chr <= rides'[q].stage
              /\ reqs'[q].chair = Completed => rides'[q].chr = FullLog
  <2>1. WorkOK(q) /\ RideOK(q)
    BY <1>1 DEF RidesInv
  <2>2. WorkOK(q)'
    BY <1>3, <1>10, <2>1, WorkStays
  <2>. QED  BY <1>3, <1>10, <2>1, <2>2 DEF RideOK
<1>13. Grows
  BY <1>1, <1>11, StagesKept DEF ChairMoves
<1>14. ChairOK(c)'
  BY <1>1, <1>3, <1>9, <1>13, ChairStays
<1>15. ChairQueueOK(c)'
  <2>1. PICK queue, m : queue = chair[c].queue /\ m = chair[c].matching
    OBVIOUS
  <2>2. ASSUME NEW i \in 1 .. Len(queue)
        PROVE  ChairEventOK(c, queue[i])'
    <3>1. PICK e \in Event : e = queue[i]
      BY <1>1, <2>1, ChairFields, EventFields
    <3>2. ChairEventOK(c, e)
      BY <1>1, <2>1, <3>1 DEF ChairQueueOK
    <3>3. e.ride \in Given /\ e.status \in 1 .. 6
      BY <3>2 DEF ChairEventOK, Event, RequestStatus
    <3>4. e.status <= rides'[e.ride].chr
      <4>1. e.status <= rides[e.ride].chr /\ rides[e.ride].chr <= rides'[e.ride].chr
        BY <1>10, <3>2, <3>3 DEF ChairEventOK
      <4>2. e.ride \in Given'
        BY <1>6, <3>3 DEF Given
      <4>3. rides[e.ride].chr \in 0 .. 6 /\ rides'[e.ride].chr \in 0 .. 6
        BY <1>1, <1>9, <3>3, <4>2, RideFields, NewRideFields
      <4>. QED  BY <3>3, <4>1, <4>3
    <3>5. ChairEventOK(c, e)'
      BY <1>3, <1>6, <1>10, <3>2, <3>3, <3>4 DEF ChairEventOK, Given
    <3>. QED  BY <3>1, <3>5
  <2>3. ASSUME m # Nothing, rides'[m].chr = FullLog
        PROVE  <<"chair", m, Completed>> \in faults' \/ Holds(queue, m, Completed)
    <3>1. CASE m = r
      BY <1>6, <1>7, <2>3, <3>1
    <3>2. CASE m # r
      <4>1. m \in Given
        BY <1>1, <2>1, <2>3 DEF ChairOK
      <4>. QED  BY <1>1, <1>6, <1>7, <2>1, <2>3, <3>2, <4>1 DEF ChairQueueOK
    <3>. QED  BY <3>1, <3>2
  <2>4. Sorted(queue)
    BY <1>1, <2>1 DEF ChairQueueOK
  <2>. QED  BY <1>3, <2>1, <2>2, <2>3, <2>4 DEF ChairQueueOK
<1>. QED  BY <1>8, <1>9, <1>11, <1>12, <1>14, <1>15, ChairMovesKeeps

\* The notification is the latest of the chair's queue.
LEMMA ChairPollKeeps ==
  ASSUME WorldInv, NEW c \in Chairs, ChairPoll(c), stopped' = stopped
  PROVE  WorldInv'
<1>0. PICK r, queue, m : r = Max(RidesOfChair(c)) /\ queue = chair[c].queue /\ m = chair[c].matching
  OBVIOUS
<1>1. TypeOK /\ RidesInv /\ ChairOK(c) /\ ChairQueueOK(c) /\ c # NoOne
  BY WorldAssumption DEF WorldInv, ChairsInv, ChairQueuesInv
<1>2. /\ r \in Given /\ rides[r].chair = c
      /\ \A q \in Given : rides[q].chair = c => q <= r
  BY <1>0, <1>1, ChairsLatest DEF ChairPoll
<1>3. /\ reqs' = reqs /\ user' = user /\ UNCHANGED errorVars /\ faults' = faults
      /\ Len(queue) < QueueCapacity
  BY <1>0 DEF ChairPoll
<1>4. PICK n \in 1 .. 6, o \in 0 .. 6 :
        /\ o = rides[r].chr /\ n = NextRow(o, r)
        /\ o <= n /\ n <= rides[r].stage /\ (n = o \/ n = o + 1)
  <2>1. rides[r].chr \in 0 .. 6 /\ rides[r].chr <= rides[r].stage
    BY <1>1, <1>2, RideFields DEF RidesInv, RideOK
  <2>. QED  BY <1>1, <1>2, <2>1, NextRowIs
<1>5. PICK e \in Event : e = Notification(o, r) /\ e.ride = r /\ e.status = n
  <2>1. o <= rides[r].stage
    BY <1>1, <1>2, <1>4 DEF RidesInv, RideOK
  <2>. QED  BY <1>1, <1>2, <1>4, <2>1, NotificationIs
<1>6. /\ rides' \in Seq(Ride) /\ Len(rides') = Len(rides)
      /\ \A q \in Given : q # r => rides'[q] = rides[q]
      /\ rides'[r].chr = n /\ rides'[r].user = rides[r].user
      /\ rides'[r].chair = rides[r].chair /\ rides'[r].app = rides[r].app
      /\ rides'[r].stage = rides[r].stage
  <2>1. SetsChr(r, n)
    BY <1>0, <1>4 DEF ChairPoll, SetsChr
  <2>. QED  BY <1>1, <1>2, <2>1, ChrSet
<1>7. PICK x : x = [chair[c] EXCEPT !.queue = Append(queue, e)]
  OBVIOUS
<1>8. /\ x \in Chair /\ x.pc = chair[c].pc /\ x.req = chair[c].req
      /\ x.matching = m /\ x.queue = Append(queue, e) /\ Len(x.queue) <= QueueCapacity
  <2>1. chair[c] \in Chair /\ queue \in Seq(Event)
    BY <1>0, <1>1, ChairFields
  <2>2. Append(queue, e) \in Seq(Event) /\ Len(Append(queue, e)) = Len(queue) + 1
        /\ Len(queue) \in Nat
    BY <2>1, QueueGrows
  <2>3. Len(Append(queue, e)) <= QueueCapacity
    BY <1>3, <2>2, WorldAssumption
  <2>4. PICK t \in Seq(Event) : t = Append(queue, e)
    BY <2>2
  <2>5. /\ x \in Chair /\ x.pc = chair[c].pc /\ x.req = chair[c].req
        /\ x.matching = m /\ x.queue = t
    BY <1>0, <1>7, <2>1, <2>4 DEF Chair
  <2>. QED  BY <2>3, <2>4, <2>5
<1>9. chair' = [chair EXCEPT ![c] = x]
  BY <1>0, <1>4, <1>5, <1>7 DEF ChairPoll
<1>10. /\ chair' \in [Chairs -> Chair] /\ OnlyChair(c) /\ chair'[c] = x
       /\ \A d \in Chairs : Len(chair'[d].queue) <= QueueCapacity
  BY <1>1, <1>8, <1>9, ChairsChange
<1>11. ErrorsOK
  BY <1>3, NothingErrs
<1>12. TypeOK'
  BY <1>1, <1>3, <1>6, <1>10, <1>11, ErrorsType DEF TypeOK
<1>13. \A q \in Given :
         /\ rides'[q].stage = rides[q].stage /\ rides'[q].app = rides[q].app
         /\ rides'[q].chair = rides[q].chair /\ rides'[q].user = rides[q].user
         /\ rides[q].chr <= rides'[q].chr /\ rides'[q].chr <= rides'[q].stage
         /\ rides[q].chr = FullLog => rides'[q].chr = FullLog
         /\ reqs[q].chair <= reqs[q].chair
  <2>1. \A q \in Given : rides[q].chr <= rides[q].stage
    BY <1>1 DEF RidesInv, RideOK
  <2>. QED  BY <1>1, <1>2, <1>4, <1>6, <2>1, RideFields
<1>14. ChairMoves(c)
  BY <1>2, <1>3, <1>6, <1>10, <1>13 DEF ChairMoves, SameRides
<1>15. ASSUME NEW q \in Given, rides[q].chair = c
       PROVE  /\ WorkOK(q)' /\ rides'[q].chr <= rides'[q].stage
              /\ reqs'[q].chair = Completed => rides'[q].chr = FullLog
  <2>1. WorkOK(q) /\ RideOK(q)
    BY <1>1 DEF RidesInv
  <2>2. WorkOK(q)'
    BY <1>0, <1>3, <1>8, <1>10, <1>13, <1>15, <2>1, WorkStays
  <2>. QED  BY <1>3, <1>13, <2>1, <2>2 DEF RideOK
<1>16. Grows
  BY <1>1, <1>14, StagesKept DEF ChairMoves
<1>17. ChairOK(c)'
  <2>1. \A q \in Given : reqs[q].known => reqs'[q].known
    BY <1>3
  <2>. QED  BY <1>0, <1>1, <1>8, <1>10, <1>12, <1>16, <2>1, ChairStays
<1>18. queue \in Seq(Event) /\ Sorted(queue)
  BY <1>0, <1>1, ChairFields DEF ChairQueueOK
<1>19. \A i \in 1 .. Len(queue) : queue[i] \in Event /\ ChairEventOK(c, queue[i])
  BY <1>0, <1>1, <1>18, EventFields DEF ChairQueueOK
<1>20. Sorted(Append(queue, e))
  <2>1. ASSUME NEW i \in 1 .. Len(queue)
        PROVE  \/ queue[i].ride < e.ride
               \/ queue[i].ride = e.ride /\ queue[i].status <= e.status
    <3>1. /\ queue[i].ride \in Given /\ rides[queue[i].ride].chair = c
          /\ queue[i].status <= rides[queue[i].ride].chr
      BY <1>19 DEF ChairEventOK
    <3>2. queue[i].ride <= r /\ queue[i].ride \in Nat /\ r \in Nat
      BY <1>1, <1>2, <3>1, RideFields
    <3>3. CASE queue[i].ride = r
      BY <1>4, <1>5, <1>18, <3>1, <3>3, EventFields, SMTT(40)
    <3>4. CASE queue[i].ride # r
      BY <1>5, <3>2, <3>4
    <3>. QED  BY <3>3, <3>4
  <2>. QED  BY <1>18, <2>1, SortedGrows
<1>21. ASSUME NEW f \in Event, ChairEventOK(c, f)
       PROVE  ChairEventOK(c, f)'
  <2>1. f.ride \in Given /\ f.status \in 1 .. 6
    BY <1>21 DEF ChairEventOK, Event, RequestStatus
  <2>2. f.status <= rides[f.ride].chr /\ rides[f.ride].chr <= rides'[f.ride].chr
    BY <1>13, <1>21, <2>1 DEF ChairEventOK
  <2>3. f.ride \in Given'
    BY <1>6, <2>1 DEF Given
  <2>4. rides[f.ride].chr \in 0 .. 6 /\ rides'[f.ride].chr \in 0 .. 6
    BY <1>1, <1>12, <2>1, <2>3, RideFields, NewRideFields
  <2>5. f.status <= rides'[f.ride].chr
    BY <2>1, <2>2, <2>4
  <2>. QED  BY <1>0, <1>3, <1>8, <1>10, <1>13, <1>21, <2>1, <2>3, <2>5 DEF ChairEventOK
<1>22. ChairEventOK(c, e)'
  <2>1. r \in Given' /\ rides'[r].chair = c /\ e.status <= rides'[r].chr
    BY <1>2, <1>4, <1>5, <1>6 DEF Given
  <2>2. m <= r
    <3>1. m # Nothing => m \in Given /\ rides[m].chair = c
      BY <1>0, <1>1 DEF ChairOK
    <3>. QED  BY <1>1, <1>2, <3>1, RideFields
  <2>3. reqs[r].chair = 6 => n = 6
    <3>1. RideOK(r)
      BY <1>1, <1>2 DEF RidesInv
    <3>2. reqs[r].chair = 6 => o = 6
      BY <1>4, <3>1 DEF RideOK
    <3>. QED  BY <1>4, <3>2
  <2>. QED  BY <1>3, <1>5, <1>8, <1>10, <2>1, <2>2, <2>3 DEF ChairEventOK
<1>23. ASSUME NEW i \in 1 .. Len(Append(queue, e))
       PROVE  ChairEventOK(c, Append(queue, e)[i])'
  <2>1. i \in 1 .. Len(queue) \/ i = Len(queue) + 1
    BY <1>18, QueueGrows
  <2>2. CASE i \in 1 .. Len(queue)
    <3>1. PICK f \in Event : f = queue[i] /\ ChairEventOK(c, f)
      BY <1>19, <2>2
    <3>2. Append(queue, e)[i] = f
      BY <1>18, <2>2, <3>1, QueueGrows
    <3>. QED  BY <1>21, <3>1, <3>2
  <2>3. CASE i = Len(queue) + 1
    <3>1. Append(queue, e)[i] = e
      BY <1>18, <2>3, QueueGrows
    <3>. QED  BY <1>22, <3>1
  <2>. QED  BY <2>1, <2>2, <2>3
<1>24. ASSUME m # Nothing, rides'[m].chr = FullLog
       PROVE  <<"chair", m, Completed>> \in faults \/ Holds(Append(queue, e), m, Completed)
  <2>1. CASE m = r
    <3>1. e.ride = m /\ e.status = Completed
      BY <1>5, <1>6, <1>24, <2>1
    <3>. QED  BY <1>18, <3>1, HoldsNew
  <2>2. CASE m # r
    <3>1. m \in Given
      BY <1>0, <1>1, <1>24 DEF ChairOK
    <3>2. rides[m].chr = FullLog
      BY <1>6, <1>24, <2>2, <3>1
    <3>3. <<"chair", m, Completed>> \in faults \/ Holds(queue, m, Completed)
      BY <1>0, <1>1, <1>24, <3>2 DEF ChairQueueOK
    <3>. QED  BY <1>18, <3>3, HoldsGrows
  <2>. QED  BY <2>1, <2>2
<1>25. ChairQueueOK(c)'
  BY <1>3, <1>8, <1>10, <1>20, <1>23, <1>24 DEF ChairQueueOK
<1>. QED  BY <1>11, <1>12, <1>14, <1>15, <1>17, <1>25, ChairMovesKeeps

-----------------------------------------------------------------------------
(* A chair handles a notification.                                         *)

\* What is known of the head of a chair's queue, and of what is behind it.
LEMMA ChairsHead ==
  ASSUME TypeOK, NEW c \in Chairs, ChairQueueOK(c), NEW queue, queue = chair[c].queue,
         queue # <<>>
  PROVE  /\ Head(queue) \in Event /\ ChairEventOK(c, Head(queue))
         /\ queue \in Seq(Event) /\ Tail(queue) \in Seq(Event) /\ Sorted(Tail(queue))
         /\ Len(Tail(queue)) <= QueueCapacity
         /\ \A i \in 1 .. Len(Tail(queue)) :
              /\ Tail(queue)[i] \in Event /\ ChairEventOK(c, Tail(queue)[i])
              /\ Head(queue).ride <= Tail(queue)[i].ride
              /\ Head(queue).ride = Tail(queue)[i].ride =>
                   Head(queue).status <= Tail(queue)[i].status
<1>1. queue \in Seq(Event) /\ Sorted(queue) /\ Len(queue) <= QueueCapacity
  BY ChairFields DEF ChairQueueOK, TypeOK
<1>2. /\ Len(queue) \in Nat \ {0} /\ Head(queue) = queue[1] /\ Head(queue) \in Event
      /\ Tail(queue) \in Seq(Event) /\ Len(Tail(queue)) = Len(queue) - 1
      /\ \A i \in 1 .. Len(Tail(queue)) : Tail(queue)[i] = queue[i + 1] /\ i + 1 \in 1 .. Len(queue)
  BY <1>1, QueueShrinks
<1>3. /\ Sorted(Tail(queue))
      /\ \A i \in 1 .. Len(queue) :
           /\ Head(queue).ride <= queue[i].ride
           /\ Head(queue).ride = queue[i].ride => Head(queue).status <= queue[i].status
  BY <1>1, SortedShrinks
<1>4. \A i \in 1 .. Len(queue) : queue[i] \in Event /\ ChairEventOK(c, queue[i])
  BY <1>1, EventFields DEF ChairQueueOK
<1>5. 1 \in 1 .. Len(queue) /\ Len(Tail(queue)) <= QueueCapacity
  BY <1>1, <1>2, WorldAssumption
<1>. QED  BY <1>1, <1>2, <1>3, <1>4, <1>5

\* No request changes, or that the chair is done with ride k.
OnlyCompletes(k) ==
  /\ reqs' \in Seq(Request) /\ Len(reqs') = Len(reqs)
  /\ \A q \in Given : q # k => reqs'[q] = reqs[q]
  /\ reqs'[k].chair \in {reqs[k].chair, Completed}
  /\ reqs'[k].known = reqs[k].known /\ reqs'[k].desired = reqs[k].desired
  /\ reqs'[k].user = reqs[k].user /\ reqs'[k].holder = reqs[k].holder
  /\ reqs'[k].evaluated = reqs[k].evaluated /\ reqs'[k].paid = reqs[k].paid

SetsCompleted(k) == reqs' = [reqs EXCEPT ![k].chair = Completed]

LEMMA CompletedSet ==
  ASSUME TypeOK, NEW k \in Given, SetsCompleted(k)
  PROVE  OnlyCompletes(k) /\ reqs'[k].chair = Completed
<1>1. PICK x : x = [reqs[k] EXCEPT !.chair = Completed]
  OBVIOUS
<1>2. reqs[k] \in Request
  BY RideFields
<1>3. /\ x \in Request /\ x.known = reqs[k].known /\ x.desired = reqs[k].desired
      /\ x.chair = Completed /\ x.user = reqs[k].user /\ x.holder = reqs[k].holder
      /\ x.evaluated = reqs[k].evaluated /\ x.paid = reqs[k].paid
  BY <1>1, <1>2 DEF Request, RequestStatus
<1>4. reqs' = [reqs EXCEPT ![k] = x]
  BY <1>1 DEF SetsCompleted
<1>. QED  BY <1>3, <1>4, ReqsChange DEF OnlyCompletes

LEMMA NoneCompletes ==
  ASSUME TypeOK, NEW k \in Given, reqs' = reqs
  PROVE  OnlyCompletes(k)
BY DEF OnlyCompletes, TypeOK

\* Chair c becomes x, which has taken the head of its queue.
ChairTakes(c, x, k) ==
  /\ chair' = [chair EXCEPT ![c] = x] /\ x \in Chair
  /\ x.queue = Tail(chair[c].queue) /\ x.pc = chair[c].pc
  /\ rides' = rides /\ user' = user /\ faults' = faults /\ stopped' = stopped
  /\ OnlyCompletes(k) /\ ErrorsOK

LEMMA ChairTakesKeeps ==
  ASSUME WorldInv, NEW c \in Chairs, chair[c].queue # <<>>, NEW x, NEW k \in Given,
         ChairTakes(c, x, k), rides[k].chair = c,
         reqs'[k].chair = Completed => rides[k].chr = FullLog,
         \A q \in Given : rides[q].chair = c => WorkOK(q)',
         x.matching # Nothing => x.matching \in Given /\ rides[x.matching].chair = c,
         x.req # Nothing => x.req = x.matching /\ reqs[x.req].known,
         chair[c].pc = "idle",
         \A i \in 1 .. Len(x.queue) :
           /\ x.matching <= x.queue[i].ride
           /\ x.queue[i].ride = k /\ reqs'[k].chair = Completed => x.queue[i].status = Completed,
         x.matching # Nothing /\ rides[x.matching].chr = FullLog =>
           \/ <<"chair", x.matching, Completed>> \in faults
           \/ Holds(x.queue, x.matching, Completed)
  PROVE  WorldInv'
<1>1. TypeOK /\ RidesInv /\ ChairOK(c) /\ ChairQueueOK(c) /\ c # NoOne
  BY WorldAssumption DEF WorldInv, ChairsInv, ChairQueuesInv
<1>2. /\ Tail(chair[c].queue) \in Seq(Event) /\ Sorted(x.queue)
      /\ Len(x.queue) <= QueueCapacity
      /\ \A i \in 1 .. Len(x.queue) : x.queue[i] \in Event /\ ChairEventOK(c, x.queue[i])
  BY <1>1, ChairsHead DEF ChairTakes
<1>3. /\ chair' \in [Chairs -> Chair] /\ OnlyChair(c) /\ chair'[c] = x
      /\ \A d \in Chairs : Len(chair'[d].queue) <= QueueCapacity
  BY <1>1, <1>2, ChairsChange DEF ChairTakes
<1>4. /\ rides' = rides /\ user' = user /\ faults' = faults /\ stopped' = stopped
      /\ x.pc = "idle" /\ OnlyCompletes(k) /\ ErrorsOK
  BY DEF ChairTakes
<1>5. TypeOK'
  BY <1>1, <1>3, <1>4, ErrorsType DEF TypeOK, OnlyCompletes
<1>6. \A q \in Given :
        /\ reqs'[q].known = reqs[q].known /\ reqs'[q].desired = reqs[q].desired
        /\ reqs'[q].user = reqs[q].user /\ reqs'[q].holder = reqs[q].holder
        /\ reqs'[q].evaluated = reqs[q].evaluated /\ reqs'[q].paid = reqs[q].paid
        /\ rides[q].chair # c => reqs'[q] = reqs[q]
  BY <1>4 DEF OnlyCompletes
<1>7. \A q \in Given : reqs[q].chair <= reqs'[q].chair /\ rides[q].chr <= rides[q].chr
  <2>1. \A q \in Given : reqs'[q].chair = reqs[q].chair \/ reqs'[q].chair = 6
    BY <1>4 DEF OnlyCompletes
  <2>. QED  BY <1>1, <2>1, RideFields
<1>8. ChairMoves(c)
  BY <1>3, <1>4, <1>6, <1>7 DEF ChairMoves, SameRides
<1>9. ASSUME NEW q \in Given, rides[q].chair = c
      PROVE  /\ WorkOK(q)' /\ rides'[q].chr <= rides'[q].stage
             /\ reqs'[q].chair = Completed => rides'[q].chr = FullLog
  <2>1. RideOK(q)
    BY <1>1 DEF RidesInv
  <2>2. q # k => reqs'[q] = reqs[q]
    BY <1>4 DEF OnlyCompletes
  <2>. QED  BY <1>4, <1>9, <2>1, <2>2 DEF RideOK
<1>10. Given' = Given
  BY <1>4 DEF Given
<1>11. ChairOK(c)'
  <2>1. x.req # Nothing => x.req \in Given /\ reqs'[x.req].known
    BY <1>6
  <2>. QED  BY <1>3, <1>4, <1>10, <2>1 DEF ChairOK
<1>12. ASSUME NEW i \in 1 .. Len(x.queue)
       PROVE  ChairEventOK(c, x.queue[i])'
  <2>1. PICK f : f = x.queue[i]
    OBVIOUS
  <2>2. ChairEventOK(c, f) /\ x.matching <= f.ride
    BY <1>2, <2>1
  <2>3. reqs'[f.ride].chair = Completed => f.status = Completed
    <3>1. CASE f.ride = k
      BY <2>1, <3>1
    <3>2. CASE f.ride # k
      BY <1>4, <2>2, <3>2 DEF ChairEventOK, OnlyCompletes
    <3>. QED  BY <3>1, <3>2
  <2>4. ChairEventOK(c, f)'
    BY <1>3, <1>4, <1>10, <2>2, <2>3 DEF ChairEventOK
  <2>. QED  BY <2>1, <2>4
<1>13. ChairQueueOK(c)'
  BY <1>2, <1>3, <1>4, <1>12 DEF ChairQueueOK
<1>. QED  BY <1>4, <1>5, <1>8, <1>9, <1>11, <1>13, ChairMovesKeeps

\* What ChairHandle does, with its terms named.
LEMMA ChairHandles ==
  ASSUME WorldInv, NEW c \in Chairs, ChairHandle(c), NEW e, e = Head(chair[c].queue)
  PROVE  /\ chair[c].pc = "idle" /\ chair[c].queue # <<>>
         /\ TypeOK /\ RidesInv /\ ChairOK(c) /\ ChairQueueOK(c) /\ c # NoOne
         /\ e \in Event /\ e.status \in 1 .. 6 /\ ChairEventOK(c, e)
         /\ e.ride \in Given /\ rides[e.ride].chair = c
         /\ rides' = rides /\ user' = user /\ faults' = faults
<1>1. chair[c].queue # <<>>
  BY ZenonT(40) DEF ChairHandle
<1>2. TypeOK /\ RidesInv /\ ChairOK(c) /\ ChairQueueOK(c) /\ c # NoOne
  BY WorldAssumption DEF WorldInv, ChairsInv, ChairQueuesInv
<1>3. e \in Event /\ ChairEventOK(c, e)
  BY <1>1, <1>2, ChairsHead
<1>4. e.status \in 1 .. 6 /\ e.ride \in Given /\ rides[e.ride].chair = c
  BY <1>3 DEF Event, RequestStatus, ChairEventOK
<1>. QED  BY <1>1, <1>2, <1>3, <1>4, ZenonT(40) DEF ChairHandle

\* The chair as it is without the head of its queue.
TakenChair(c, q, m) == [chair[c] EXCEPT !.queue = Tail(@), !.req = q, !.matching = m]

LEMMA Taken ==
  ASSUME TypeOK, NEW c \in Chairs, ChairQueueOK(c), chair[c].queue # <<>>,
         NEW q \in {Nothing} \cup Ids, NEW m \in {Nothing} \cup Ids,
         NEW x, x = TakenChair(c, q, m)
  PROVE  /\ x \in Chair /\ x.queue = Tail(chair[c].queue) /\ x.pc = chair[c].pc
         /\ x.req = q /\ x.matching = m
<1>1. chair[c] \in Chair /\ Tail(chair[c].queue) \in Seq(Event)
  BY ChairFields, ChairsHead
<1>2. PICK t \in Seq(Event) : t = Tail(chair[c].queue)
  BY <1>1
<1>3. x = [chair[c] EXCEPT !.queue = t, !.req = q, !.matching = m]
  BY <1>2 DEF TakenChair
<1>. QED  BY <1>1, <1>2, <1>3 DEF Chair

\* A chair that has no ride is told of one.
LEMMA ChairHearsFirst ==
  ASSUME WorldInv, NEW c \in Chairs, ChairHandle(c), stopped' = stopped,
         Head(chair[c].queue).status = Matching, ChairAccepts(c, Head(chair[c].queue))
  PROVE  WorldInv'
<1>0. PICK e, k, r, m : /\ e = Head(chair[c].queue) /\ k = e.ride
                        /\ r = chair[c].req /\ m = chair[c].matching
  OBVIOUS
<1>1. /\ chair[c].pc = "idle" /\ chair[c].queue # <<>>
      /\ TypeOK /\ RidesInv /\ ChairOK(c) /\ ChairQueueOK(c) /\ c # NoOne
      /\ e \in Event /\ e.status \in 1 .. 6 /\ ChairEventOK(c, e)
      /\ k \in Given /\ rides[k].chair = c
      /\ rides' = rides /\ user' = user /\ faults' = faults
  BY <1>0, ChairHandles
<1>2. e.status = 1 /\ m \in {Nothing, k} /\ reqs[k].chair # 6 /\ k \in Ids
  BY <1>0, <1>1, RideFields, SMTT(40) DEF ChairAccepts, ChairEventOK
<1>3. /\ chair' = [[chair EXCEPT ![c].queue = Tail(@)] EXCEPT ![c].matching = k]
      /\ reqs' = reqs /\ UNCHANGED errorVars
  <2>1. ChairAccepts(c, e) /\ e.status # Completed
    BY <1>0, <1>2
  <2>. QED  BY <1>0, <1>2, <2>1 DEF ChairHandle
<1>4. r # Nothing => r = k /\ m = k /\ reqs[k].known
  BY <1>0, <1>1, <1>2 DEF ChairOK
<1>5. PICK x : x = TakenChair(c, r, k)
  OBVIOUS
<1>6. /\ x \in Chair /\ x.queue = Tail(chair[c].queue) /\ x.pc = chair[c].pc
      /\ x.req = r /\ x.matching = k
  <2>1. r \in {Nothing} \cup Ids /\ k \in {Nothing} \cup Ids
    BY <1>0, <1>1, <1>2, ChairFields
  <2>2. TypeOK /\ ChairQueueOK(c) /\ chair[c].queue # <<>>
    BY <1>1
  <2>. QED  BY <1>5, <2>1, <2>2, Taken
<1>7. chair' = [chair EXCEPT ![c] = x]
  <2>1. x = [chair[c] EXCEPT !.queue = Tail(@), !.matching = k]
    <3>1. chair[c] \in Chair
      BY <1>1, ChairFields
    <3>. QED  BY <1>0, <1>5, <3>1 DEF Chair, TakenChair
  <2>. QED  BY <1>1, <1>3, <2>1 DEF TypeOK
<1>8. ChairTakes(c, x, k)
  BY <1>1, <1>3, <1>6, <1>7, NoneCompletes, NothingErrs DEF ChairTakes
<1>9. ASSUME NEW q \in Given, rides[q].chair = c
      PROVE  WorkOK(q)'
  <2>1. WorkOK(q)
    BY <1>1 DEF RidesInv
  <2>2. /\ chair'[c].req = chair[c].req /\ chair'[c].pc = chair[c].pc
        /\ chair'[c].matching = k
    BY <1>0, <1>1, <1>6, <1>7 DEF TypeOK
  <2>3. CASE q # k
    BY <1>1, <1>3, <1>9, <2>1, <2>2, <2>3, WorkStays
  <2>4. CASE q = k
    <3>1. /\ Driven(k)' <=> Driven(k)
          /\ Unstarted(k)' <=> Unstarted(k)
          /\ BeingRated(k)' <=> BeingRated(k)
      BY <1>1, <1>3, <1>9, <2>2 DEF Driven, Unstarted, BeingRated
    <3>2. UnderWay(k) => UnderWay(k)'
      BY <1>1, <1>3, <1>9, <2>2, <3>1 DEF UnderWay
    <3>3. ~Finished(k)
      BY <1>2 DEF Finished
    <3>. QED  BY <2>1, <2>4, <3>1, <3>2, <3>3 DEF WorkOK
  <2>. QED  BY <2>3, <2>4
<1>10. \A i \in 1 .. Len(x.queue) : x.matching <= x.queue[i].ride
  BY <1>0, <1>1, <1>6, ChairsHead
<1>11. ASSUME rides[k].chr = FullLog
       PROVE  <<"chair", k, Completed>> \in faults \/ Holds(x.queue, k, Completed)
  <2>1. CASE m = k
    <3>1. \/ <<"chair", k, Completed>> \in faults
          \/ Holds(chair[c].queue, k, Completed)
      BY <1>0, <1>1, <1>2, <1>11, <2>1 DEF ChairQueueOK, Ids
    <3>2. chair[c].queue \in Seq(Event)
      BY <1>1, ChairFields
    <3>. QED  BY <1>0, <1>1, <1>2, <1>6, <3>1, <3>2, HoldsShrinks
  <2>2. CASE m = Nothing
    <3>1. r = Nothing
      BY <1>2, <1>4, <2>2 DEF Ids
    <3>2. ~Driven(k)
      BY <1>0, <1>1, <1>2, <3>1 DEF Driven, Ids
    <3>3. rides[k].stage = 1 /\ rides[k].chr <= rides[k].stage
      BY <1>1, <1>2, <3>2 DEF RidesInv, WorkOK, Unstarted, Finished, RideOK
    <3>. QED  BY <1>11, <3>3
  <2>. QED  BY <1>2, <2>1, <2>2
<1>. QED  BY <1>1, <1>2, <1>3, <1>4, <1>6, <1>8, <1>9, <1>10, <1>11, ChairTakesKeeps

\* The chair as it is but for its queue.
LEMMA OnlyTaken ==
  ASSUME TypeOK, NEW c \in Chairs, ChairQueueOK(c), chair[c].queue # <<>>,
         NEW x, x = TakenChair(c, chair[c].req, chair[c].matching),
         chair' = [chair EXCEPT ![c].queue = Tail(@)]
  PROVE  /\ chair' = [chair EXCEPT ![c] = x]
         /\ x \in Chair /\ x.queue = Tail(chair[c].queue) /\ x.pc = chair[c].pc
         /\ x.req = chair[c].req /\ x.matching = chair[c].matching
<1>1. chair[c] \in Chair
  BY ChairFields
<1>2. x = [chair[c] EXCEPT !.queue = Tail(@)]
  BY <1>1 DEF Chair, TakenChair
<1>3. chair' = [chair EXCEPT ![c] = x]
  BY <1>2
<1>4. PICK q \in {Nothing} \cup Ids, m \in {Nothing} \cup Ids :
        q = chair[c].req /\ m = chair[c].matching
  BY ChairFields
<1>5. x = TakenChair(c, q, m)
  BY <1>4
<1>6. /\ x \in Chair /\ x.queue = Tail(chair[c].queue) /\ x.pc = chair[c].pc
      /\ x.req = q /\ x.matching = m
  BY <1>5, Taken
<1>. QED  BY <1>3, <1>4, <1>6

\* A chair whose work goes on as before takes a notification.
LEMMA ChairOnlyTakes ==
  ASSUME WorldInv, NEW c \in Chairs, ChairHandle(c), stopped' = stopped,
         NEW e, e = Head(chair[c].queue),
         chair' = [chair EXCEPT ![c].queue = Tail(@)], reqs' = reqs, ErrorsOK,
         e.ride = chair[c].matching /\ e.status = Completed =>
           <<"chair", chair[c].matching, Completed>> \in faults
  PROVE  WorldInv'
<1>0. PICK k, m, x : /\ k = e.ride /\ m = chair[c].matching
                     /\ x = TakenChair(c, chair[c].req, chair[c].matching)
  OBVIOUS
<1>1. /\ chair[c].pc = "idle" /\ chair[c].queue # <<>>
      /\ TypeOK /\ RidesInv /\ ChairOK(c) /\ ChairQueueOK(c) /\ c # NoOne
      /\ k \in Given /\ rides[k].chair = c
      /\ rides' = rides /\ user' = user /\ faults' = faults
  BY <1>0, ChairHandles
<1>2. /\ chair' = [chair EXCEPT ![c] = x]
      /\ x \in Chair /\ x.queue = Tail(chair[c].queue) /\ x.pc = chair[c].pc
      /\ x.req = chair[c].req /\ x.matching = m
  BY <1>0, <1>1, OnlyTaken
<1>3. ChairTakes(c, x, k)
  BY <1>1, <1>2, NoneCompletes DEF ChairTakes
<1>4. chair'[c] = x
  BY <1>1, <1>2 DEF TypeOK
<1>5. ASSUME NEW q \in Given, rides[q].chair = c
      PROVE  WorkOK(q)'
  BY <1>0, <1>1, <1>2, <1>4, <1>5, WorkStays DEF RidesInv
<1>6. \A i \in 1 .. Len(x.queue) : ChairEventOK(c, x.queue[i])
  BY <1>1, <1>2, ChairsHead, SMTT(40)
<1>7. \A i \in 1 .. Len(x.queue) :
        /\ x.matching <= x.queue[i].ride
        /\ x.queue[i].ride = k /\ reqs'[k].chair = Completed => x.queue[i].status = Completed
  BY <1>0, <1>2, <1>6 DEF ChairEventOK
<1>8. ASSUME m # Nothing, rides[m].chr = FullLog
      PROVE  <<"chair", m, Completed>> \in faults \/ Holds(x.queue, m, Completed)
  <2>1. <<"chair", m, Completed>> \in faults \/ Holds(chair[c].queue, m, Completed)
    BY <1>0, <1>1, <1>8 DEF ChairQueueOK
  <2>2. chair[c].queue \in Seq(Event)
    BY <1>1, ChairFields
  <2>. QED  BY <1>0, <1>1, <1>2, <2>1, <2>2, HoldsShrinks
<1>9. /\ reqs'[k].chair = Completed => rides[k].chr = FullLog
      /\ x.matching # Nothing => x.matching \in Given /\ rides[x.matching].chair = c
      /\ x.req # Nothing => x.req = x.matching /\ reqs[x.req].known
  BY <1>0, <1>1, <1>2 DEF ChairOK, RidesInv, RideOK
<1>10. /\ k \in Given /\ rides[k].chair = c
       /\ chair[c].pc = "idle" /\ chair[c].queue # <<>>
  BY <1>1
<1>11. x.matching # Nothing /\ rides[x.matching].chr = FullLog =>
         \/ <<"chair", x.matching, Completed>> \in faults
         \/ Holds(x.queue, x.matching, Completed)
  BY <1>2, <1>8
<1>. QED  BY <1>3, <1>5, <1>7, <1>9, <1>10, <1>11, ChairTakesKeeps

\* A chair that has a ride is told of another: the end of the first was lost.
LEMMA ChairObjects ==
  ASSUME WorldInv, NEW c \in Chairs, ChairHandle(c), stopped' = stopped,
         Head(chair[c].queue).status = Matching, ~ChairAccepts(c, Head(chair[c].queue))
  PROVE  WorldInv'
<1>0. PICK e, k, m : e = Head(chair[c].queue) /\ k = e.ride /\ m = chair[c].matching
  OBVIOUS
<1>1. /\ chair[c].pc = "idle" /\ chair[c].queue # <<>>
      /\ TypeOK /\ RidesInv /\ ChairOK(c) /\ ChairQueueOK(c) /\ c # NoOne
      /\ e \in Event /\ e.status \in 1 .. 6 /\ ChairEventOK(c, e)
      /\ k \in Given /\ rides[k].chair = c
      /\ rides' = rides /\ user' = user /\ faults' = faults
  BY <1>0, ChairHandles
<1>2. e.status = 1 /\ m # Nothing /\ m # k /\ m <= k
  BY <1>0, <1>1 DEF ChairAccepts, ChairEventOK
<1>3. /\ chair' = [chair EXCEPT ![c].queue = Tail(@)] /\ reqs' = reqs
      /\ Report("ChairAlreadyHasRequest", k)
  <2>1. ~ChairAccepts(c, e) /\ ChairObjection(c, e) = "ChairAlreadyHasRequest"
    BY <1>0, <1>2 DEF ChairObjection
  <2>2. /\ chair' = [chair EXCEPT ![c].queue = Tail(@)] /\ reqs' = reqs
        /\ Report(ChairObjection(c, e), e.ride)
    BY <1>0, <2>1, ZenonT(40) DEF ChairHandle
  <2>. QED  BY <1>0, <2>1, <2>2
<1>4. m \in Given /\ rides[m].chair = c /\ m < k
  <2>1. m \in Given /\ rides[m].chair = c
    BY <1>0, <1>1, <1>2 DEF ChairOK
  <2>. QED  BY <1>1, <1>2, <2>1, RideFields
<1>5. rides[m].chr = FullLog
  BY <1>1, <1>4 DEF WorldInv, OrderOK
<1>6. <<"chair", m, Completed>> \in faults
  <2>1. <<"chair", m, Completed>> \in faults \/ Holds(chair[c].queue, m, Completed)
    BY <1>0, <1>1, <1>2, <1>5 DEF ChairQueueOK
  <2>2. ~Holds(chair[c].queue, m, Completed)
    <3>1. chair[c].queue \in Seq(Event) /\ Sorted(chair[c].queue)
      BY <1>1, ChairFields DEF ChairQueueOK
    <3>2. \A i \in 1 .. Len(chair[c].queue) : k <= chair[c].queue[i].ride
      BY <1>0, <1>1, <3>1, SortedShrinks
    <3>3. \A i \in 1 .. Len(chair[c].queue) : chair[c].queue[i].ride # m
      BY <1>1, <1>4, <3>2, RideFields
    <3>. QED  BY <3>3 DEF Holds
  <2>. QED  BY <2>1, <2>2
<1>7. ErrorsOK
  <2>1. m \in RidesOfChair(rides[k].chair)
    BY <1>1, <1>4 DEF RidesOfChair, Given
  <2>2. Explained("ChairAlreadyHasRequest", k)'
    <3>1. RidesOfChair(rides[k].chair)' = RidesOfChair(rides[k].chair)
      BY <1>1 DEF RidesOfChair
    <3>2. \E q \in RidesOfChair(rides[k].chair)' : q < k /\ <<"chair", q, Completed>> \in faults'
      BY <1>1, <1>4, <1>6, <2>1, <3>1
    <3>. QED  BY <3>2 DEF Explained
  <2>3. k \in Given' /\ rides'[k].chair # NoOne
    BY <1>1 DEF Given
  <2>. QED  BY <1>3, <2>2, <2>3 DEF ErrorsOK
<1>8. ~(e.ride = chair[c].matching)
  BY <1>0, <1>2
<1>. QED  BY <1>0, <1>3, <1>7, <1>8, ChairOnlyTakes

\* A chair is told what it has done.
LEMMA ChairHearsMore ==
  ASSUME WorldInv, NEW c \in Chairs, ChairHandle(c), stopped' = stopped,
         Head(chair[c].queue).status \notin {Matching, Completed}
  PROVE  WorldInv'
<1>0. PICK e, k, m : e = Head(chair[c].queue) /\ k = e.ride /\ m = chair[c].matching
  OBVIOUS
<1>1. /\ TypeOK /\ RidesInv /\ ChairOK(c) /\ c # NoOne
      /\ e.status \in 1 .. 6 /\ ChairEventOK(c, e)
      /\ k \in Given /\ rides[k].chair = c
  BY <1>0, ChairHandles
<1>2. e.status # 1 /\ e.status # 6 /\ reqs[k].chair # 6
  BY <1>0, <1>1 DEF ChairEventOK
<1>3. rides[k].stage >= 2
  <2>1. e.status <= rides[k].chr /\ rides[k].chr <= rides[k].stage
    BY <1>0, <1>1 DEF ChairEventOK, RidesInv, RideOK
  <2>. QED  BY <1>1, <1>2, <2>1, RideFields
<1>4. chair[c].req = k
  BY <1>1, <1>2, <1>3 DEF RidesInv, WorkOK, Unstarted, Finished, Driven
<1>5. m = k
  BY <1>0, <1>1, <1>4, RideFields DEF ChairOK
<1>6. ChairAccepts(c, e)
  BY <1>0, <1>2, <1>5 DEF ChairAccepts
<1>7. /\ chair' = [chair EXCEPT ![c].queue = Tail(@)] /\ reqs' = reqs
      /\ UNCHANGED errorVars
  BY <1>0, <1>2, <1>6 DEF ChairHandle
<1>8. ErrorsOK
  BY <1>7, NothingErrs
<1>. QED  BY <1>0, <1>2, <1>7, <1>8, ChairOnlyTakes

\* A chair without a ride is told again of the end of its last one.
LEMMA ChairHearsTheEnd ==
  ASSUME WorldInv, NEW c \in Chairs, ChairHandle(c), stopped' = stopped,
         Head(chair[c].queue).status = Completed, chair[c].req = Nothing
  PROVE  WorldInv'
<1>0. PICK e, k, m, x : /\ e = Head(chair[c].queue) /\ k = e.ride /\ m = chair[c].matching
                        /\ x = TakenChair(c, chair[c].req, chair[c].matching)
  OBVIOUS
<1>1. /\ chair[c].pc = "idle" /\ chair[c].queue # <<>>
      /\ TypeOK /\ RidesInv /\ ChairOK(c) /\ ChairQueueOK(c) /\ c # NoOne
      /\ e.status = 6 /\ ChairEventOK(c, e)
      /\ k \in Given /\ rides[k].chair = c
      /\ rides' = rides /\ user' = user /\ faults' = faults
  BY <1>0, ChairHandles
<1>2. rides[k].chr = 6 /\ rides[k].stage = 6
  <2>1. e.status <= rides[k].chr /\ rides[k].chr <= rides[k].stage
    BY <1>0, <1>1 DEF ChairEventOK, RidesInv, RideOK
  <2>. QED  BY <1>1, <2>1, RideFields
<1>3. Finished(k) /\ m # k
  <2>1. ~Driven(k)
    BY <1>1, RideFields DEF Driven
  <2>. QED  BY <1>0, <1>1, <1>2, <2>1 DEF RidesInv, WorkOK, Unstarted
<1>4. ChairAccepts(c, e)
  BY <1>0, <1>1, <1>3, SMTT(40) DEF ChairAccepts, Finished
<1>5. /\ chair' = [chair EXCEPT ![c].queue = Tail(@)]
      /\ SetsCompleted(k) /\ UNCHANGED errorVars
  <2>1. e.status # 1 /\ chair[c].req = Nothing
    BY <1>1
  <2>. QED  BY <1>0, <1>1, <1>4, <2>1 DEF ChairHandle, SetsCompleted
<1>6. OnlyCompletes(k) /\ reqs'[k].chair = 6 /\ reqs[k].chair = 6
  BY <1>1, <1>3, <1>5, CompletedSet DEF Finished
<1>7. /\ chair' = [chair EXCEPT ![c] = x]
      /\ x \in Chair /\ x.queue = Tail(chair[c].queue) /\ x.pc = chair[c].pc
      /\ x.req = Nothing /\ x.matching = m
  BY <1>0, <1>1, <1>5, OnlyTaken, ZenonT(40)
<1>8. ChairTakes(c, x, k)
  BY <1>1, <1>5, <1>6, <1>7, NothingErrs DEF ChairTakes
<1>9. ASSUME NEW q \in Given, rides[q].chair = c
      PROVE  WorkOK(q)'
  <2>1. chair'[c] = x
    BY <1>1, <1>7 DEF TypeOK
  <2>2. /\ reqs'[q].chair = reqs[q].chair /\ reqs'[q].desired = reqs[q].desired
        /\ reqs'[q].holder = reqs[q].holder
    BY <1>6 DEF OnlyCompletes
  <2>. QED  BY <1>0, <1>1, <1>7, <1>9, <2>1, <2>2, WorkStays DEF RidesInv
<1>10. \A i \in 1 .. Len(x.queue) : ChairEventOK(c, x.queue[i])
  BY <1>1, <1>7, ChairsHead
<1>11. \A i \in 1 .. Len(x.queue) :
         /\ x.matching <= x.queue[i].ride
         /\ x.queue[i].ride = k => x.queue[i].status = Completed
  BY <1>0, <1>6, <1>7, <1>10, ZenonT(40) DEF ChairEventOK
<1>12. ASSUME m # Nothing, rides[m].chr = FullLog
       PROVE  <<"chair", m, Completed>> \in faults \/ Holds(x.queue, m, Completed)
  <2>1. <<"chair", m, Completed>> \in faults \/ Holds(chair[c].queue, m, Completed)
    BY <1>0, <1>1, <1>12 DEF ChairQueueOK
  <2>2. chair[c].queue \in Seq(Event)
    BY <1>1, ChairFields
  <2>. QED  BY <1>0, <1>1, <1>3, <1>7, <2>1, <2>2, HoldsShrinks
<1>13. /\ k \in Given /\ rides[k].chair = c /\ rides[k].chr = FullLog
       /\ chair[c].pc = "idle" /\ chair[c].queue # <<>>
  BY <1>1, <1>2
<1>14. x.matching # Nothing => x.matching \in Given /\ rides[x.matching].chair = c
  BY <1>0, <1>1, <1>7 DEF ChairOK
<1>15. x.matching # Nothing /\ rides[x.matching].chr = FullLog =>
         \/ <<"chair", x.matching, Completed>> \in faults
         \/ Holds(x.queue, x.matching, Completed)
  BY <1>7, <1>12
<1>16. x.req = Nothing
  BY <1>7
<1>. QED  BY <1>8, <1>9, <1>11, <1>13, <1>14, <1>15, <1>16, ChairTakesKeeps

\* A chair is told of the end of its ride.
LEMMA ChairCompletes ==
  ASSUME WorldInv, NEW c \in Chairs, ChairHandle(c), stopped' = stopped,
         Head(chair[c].queue).status = Completed, chair[c].req # Nothing
  PROVE  WorldInv'
<1>0. PICK e, k, r, x : /\ e = Head(chair[c].queue) /\ k = e.ride /\ r = chair[c].req
                        /\ x = TakenChair(c, Nothing, Nothing)
  OBVIOUS
<1>1. /\ chair[c].pc = "idle" /\ chair[c].queue # <<>>
      /\ TypeOK /\ RidesInv /\ ChairOK(c) /\ ChairQueueOK(c) /\ c # NoOne
      /\ e.status = 6 /\ ChairEventOK(c, e)
      /\ k \in Given /\ rides[k].chair = c
      /\ rides' = rides /\ user' = user /\ faults' = faults
  BY <1>0, ChairHandles
<1>2. rides[k].chr = 6 /\ rides[k].stage = 6
  <2>1. e.status <= rides[k].chr /\ rides[k].chr <= rides[k].stage
    BY <1>0, <1>1 DEF ChairEventOK, RidesInv, RideOK
  <2>. QED  BY <1>1, <2>1, RideFields
<1>3. /\ r \in Given /\ rides[r].chair = c /\ chair[c].matching = r /\ UnderWay(r)
      /\ reqs[r].holder = NoOne
  <2>1. reqs[r].holder = NoOne
    BY <1>0, <1>1 DEF ChairHandle
  <2>. QED  BY <1>0, <2>1, DrivenRide
<1>4. k = r
  <2>1. SUFFICES ASSUME k # r PROVE FALSE
    OBVIOUS
  <2>2. ~Driven(k)
    BY <1>0, <1>1, <2>1 DEF Driven
  <2>3. r <= k
    BY <1>0, <1>1, <1>3 DEF ChairEventOK
  <2>4. r < k
    BY <1>1, <1>3, <2>1, <2>3, RideFields
  <2>5. reqs[r].chair = 6
    BY <1>1, <1>2, <1>3, <2>4 DEF WorldInv, OrderOK
  <2>6. reqs[r].chair # 6
    BY <1>3 DEF UnderWay, Unstarted
  <2>. QED  BY <2>5, <2>6
<1>5. reqs[r].desired = 6
  <2>1. ~BeingRated(r)
    <3>1. BeingRated(r) => reqs[r].holder \in Users
      BY <1>3, RatedRide
    <3>. QED  BY <1>3, <3>1, WorldAssumption
  <2>. QED  BY <1>2, <1>3, <1>4, <2>1 DEF UnderWay, Unstarted
<1>6. ChairAccepts(c, e)
  BY <1>0, <1>1, <1>3, <1>4, <1>5 DEF ChairAccepts
<1>7. /\ chair' = [[chair EXCEPT ![c].queue = Tail(@)]
                     EXCEPT ![c].req = Nothing, ![c].matching = Nothing]
      /\ SetsCompleted(r) /\ UNCHANGED errorVars
  <2>1. e.status # 1 /\ r # Nothing
    BY <1>0, <1>1
  <2>. QED  BY <1>0, <1>1, <1>6, <2>1 DEF ChairHandle, SetsCompleted
<1>8. OnlyCompletes(r) /\ reqs'[r].chair = 6
  BY <1>1, <1>3, <1>7, CompletedSet
<1>9. /\ x \in Chair /\ x.queue = Tail(chair[c].queue) /\ x.pc = chair[c].pc
      /\ x.req = Nothing /\ x.matching = Nothing
  <2>1. PICK z \in {Nothing} \cup Ids : z = Nothing
    OBVIOUS
  <2>2. x = TakenChair(c, z, z)
    BY <1>0, <2>1
  <2>3. TypeOK /\ ChairQueueOK(c) /\ chair[c].queue # <<>>
    BY <1>1
  <2>. QED  BY <2>1, <2>2, <2>3, Taken
<1>10. chair' = [chair EXCEPT ![c] = x]
  BY <1>0, <1>1, <1>7 DEF TypeOK, TakenChair
<1>11. ChairTakes(c, x, r)
  BY <1>1, <1>7, <1>8, <1>9, <1>10, NothingErrs DEF ChairTakes
<1>12. chair'[c] = x
  BY <1>1, <1>10 DEF TypeOK
<1>13. ASSUME NEW q \in Given, rides[q].chair = c
       PROVE  WorkOK(q)'
  <2>1. ~Driven(q)'
    BY <1>1, <1>9, <1>12, <1>13, RideFields DEF Driven
  <2>2. chair'[rides'[q].chair].matching # q /\ rides'[q].chair # NoOne
    BY <1>1, <1>9, <1>12, <1>13, RideFields
  <2>3. CASE q = r
    <3>1. Finished(q)'
      BY <1>1, <1>2, <1>4, <1>5, <1>8, <2>3 DEF Finished, OnlyCompletes
    <3>. QED  BY <2>1, <2>2, <3>1 DEF WorkOK
  <2>4. CASE q # r
    <3>1. ~Driven(q) /\ WorkOK(q) /\ reqs'[q] = reqs[q]
      BY <1>0, <1>1, <1>8, <1>13, <2>4 DEF Driven, RidesInv, OnlyCompletes
    <3>2. (Unstarted(q)' <=> Unstarted(q)) /\ (Finished(q)' <=> Finished(q))
      BY <1>1, <3>1 DEF Unstarted, Finished
    <3>. QED  BY <2>1, <2>2, <3>1, <3>2 DEF WorkOK
  <2>. QED  BY <2>3, <2>4
<1>14. ASSUME NEW i \in 1 .. Len(x.queue)
       PROVE  /\ Nothing <= x.queue[i].ride
              /\ x.queue[i].ride = r => x.queue[i].status = Completed
  <2>1. /\ x.queue[i] \in Event
        /\ e.ride = x.queue[i].ride => e.status <= x.queue[i].status
    BY <1>0, <1>1, <1>9, ChairsHead
  <2>2. x.queue[i].ride \in Nat /\ x.queue[i].status \in 1 .. 6
    BY <2>1, WorldAssumption DEF Event, RequestStatus, Ids
  <2>. QED  BY <1>0, <1>1, <1>4, <2>1, <2>2
<1>15. rides[r].chair = c /\ rides[r].chr = FullLog /\ r \in Given
  BY <1>2, <1>3, <1>4
<1>16. x.matching = Nothing /\ x.req = Nothing
  BY <1>9
<1>17. \A i \in 1 .. Len(x.queue) :
         /\ x.matching <= x.queue[i].ride
         /\ x.queue[i].ride = r => x.queue[i].status = Completed
  BY <1>14, <1>16
<1>18. chair[c].pc = "idle" /\ chair[c].queue # <<>>
  BY <1>1
<1>. QED  BY <1>11, <1>13, <1>15, <1>16, <1>17, <1>18, ChairTakesKeeps

LEMMA ChairHandleKeeps ==
  ASSUME WorldInv, NEW c \in Chairs, ChairHandle(c), stopped' = stopped
  PROVE  WorldInv'
BY ChairHearsFirst, ChairObjects, ChairHearsMore, ChairHearsTheEnd, ChairCompletes

-----------------------------------------------------------------------------
(* A user books, connects, and leaves.                                     *)

\* A user's queue is untouched by a step that changes nothing of the user's
\* rides but that one is known.
LEMMA UserQueueKept ==
  ASSUME WorldInv, TypeOK', Grows, NEW u \in Users,
         user'[u].queue = user[u].queue, user'[u].validated = user[u].validated,
         \A q \in Given : rides[q].user = u =>
           /\ rides'[q].app = rides[q].app
           /\ reqs'[q].user = reqs[q].user /\ (reqs[q].known => reqs'[q].known),
         user'[u].req # Nothing /\ reqs'[user'[u].req].user # Matching =>
           user'[u].req = user[u].req,
         user'[u].req # Nothing => user'[u].req \in Given /\ rides[user'[u].req].user = u,
         user'[u].req # Nothing /\ rides'[user'[u].req].app >= Dispatching =>
           user'[u].req = user[u].req
  PROVE  UserQueueOK(u)' /\ ValidatedOK(u)'
<1>1. /\ TypeOK /\ RidesInv /\ OrderOK /\ UserOK(u) /\ UserQueueOK(u) /\ ValidatedOK(u)
  BY DEF WorldInv, UsersInv, UserQueuesInv
<1>2. PICK queue, r, v : queue = user[u].queue /\ r = user'[u].req /\ v = user[u].validated
  OBVIOUS
<1>3. queue \in Seq(Event)
  BY <1>1, <1>2, UserFields
<1>4. ASSUME NEW i \in 1 .. Len(queue)
      PROVE  UserEventOK(u, queue[i])'
  <2>1. PICK e \in Event : e = queue[i]
    BY <1>3, EventFields
  <2>2. UserEventOK(u, e)
    BY <1>1, <1>2, <2>1 DEF UserQueueOK
  <2>3. /\ e.ride \in Given /\ rides[e.ride].user = u /\ reqs[e.ride].known
        /\ reqs[e.ride].user <= e.status
        /\ user[u].req # Nothing /\ reqs[user[u].req].user # Matching => e.ride = user[u].req
    BY <2>2 DEF UserEventOK
  <2>4. rides[e.ride].app <= rides'[e.ride].app
    BY <1>1, <2>3, RideFields
  <2>5. ASSUME r # Nothing, reqs'[r].user # Matching
        PROVE  e.ride = r
    <3>1. r = user[u].req /\ r \in Given /\ rides[r].user = u
      BY <1>2, <2>5
    <3>. QED  BY <2>3, <2>5, <3>1
  <2>6. UserEventOK(u, e)'
    BY <1>1, <1>2, <2>2, <2>3, <2>4, <2>5, UserEventStays
  <2>. QED  BY <2>1, <2>6
<1>5. UserQueueOK(u)'
  BY <1>1, <1>2, <1>4 DEF UserQueueOK
<1>6. ASSUME v.ride # Nothing
      PROVE  /\ v.ride \in RidesOfUser(u)' /\ rides'[v.ride].chair # NoOne
             /\ v.total = Cardinality(Before(v.ride)')
  BY <1>1, <1>2, <1>6, RememberedStays DEF ValidatedOK
<1>7. ASSUME r # Nothing
      PROVE  /\ reqs'[r].user # Matching => v.ride = r
             /\ rides'[r].app >= Dispatching =>
                  \/ v.ride = r \/ ChairWentOn(r)'
                  \/ <<"user", r, Dispatching>> \in faults'
                  \/ Holds(queue, r, Dispatching)
  <2>1. r \in Given /\ rides[r].user = u
    BY <1>2, <1>7
  <2>2. ChairWentOn(r) => ChairWentOn(r)'
    BY <1>1, <2>1, WentOnStays
  <2>3. rides'[r].app = rides[r].app /\ reqs'[r].user = reqs[r].user
    BY <2>1
  <2>. QED  BY <1>1, <1>2, <1>7, <2>2, <2>3 DEF ValidatedOK, Grows
<1>8. ValidatedOK(u)'
  BY <1>2, <1>6, <1>7 DEF ValidatedOK
<1>. QED  BY <1>5, <1>8

LEMMA UserConnectKeeps ==
  ASSUME WorldInv, NEW u \in Users, UserConnect(u), stopped' = stopped
  PROVE  WorldInv'
<1>0. PICK r : r = user[u].req
  OBVIOUS
<1>1. /\ rides' = rides /\ reqs' = reqs /\ chair' = chair /\ faults' = faults
      /\ UNCHANGED errorVars /\ user' = [user EXCEPT ![u].conn = "open"]
      /\ user[u].pc = "idle" /\ r # Nothing
  BY <1>0 DEF UserConnect
<1>2. TypeOK /\ RidesInv /\ UserOK(u)
  BY DEF WorldInv, UsersInv
<1>3. PICK x : x = [user[u] EXCEPT !.conn = "open"]
  OBVIOUS
<1>4. /\ x \in User /\ x.pc = "idle" /\ x.req = r /\ x.conn = "open"
      /\ x.validated = user[u].validated /\ x.queue = user[u].queue
      /\ Len(x.queue) <= QueueCapacity
  <2>1. user[u] \in User /\ Len(user[u].queue) <= QueueCapacity
    BY <1>2, UserFields DEF TypeOK
  <2>. QED  BY <1>0, <1>1, <1>3, <2>1 DEF User
<1>5. user' = [user EXCEPT ![u] = x]
  BY <1>1, <1>3
<1>6. /\ user' \in [Users -> User] /\ OnlyUser(u) /\ user'[u] = x
      /\ \A v \in Users : Len(user'[v].queue) <= QueueCapacity
  BY <1>2, <1>4, <1>5, UsersChange
<1>7. ErrorsOK
  BY <1>1, NothingErrs
<1>8. TypeOK'
  BY <1>1, <1>2, <1>6, <1>7, ErrorsType DEF TypeOK
<1>9. rides' = rides /\ reqs' = reqs /\ chair' = chair /\ faults \subseteq faults'
  BY <1>1
<1>10. UserMoves(u)
  <2>1. user[u].pc # "rated"
    BY <1>1
  <2>. QED  BY <1>6, <1>9, <2>1 DEF UserMoves, SameRides
<1>11. Grows
  BY <1>2, <1>10, StagesKept DEF UserMoves
<1>12. ASSUME NEW q \in Given, rides[q].user = u
       PROVE  RideOK(q)' /\ OwnedOK(q)'
  <2>1. RideOK(q) /\ OwnedOK(q)
    BY <1>2 DEF RidesInv
  <2>2. user'[u].req = user[u].req /\ user'[u].pc = user[u].pc
    BY <1>0, <1>1, <1>4, <1>6
  <2>3. RidesOfUser(u)' = RidesOfUser(u)
    BY <1>9 DEF RidesOfUser
  <2>. QED  BY <1>9, <1>12, <2>1, <2>2, <2>3 DEF RideOK, OwnedOK, Latest
<1>13. r \in Given /\ rides[r].user = u /\ reqs[r].known /\ Latest(u, r)
  BY <1>0, <1>1, <1>2 DEF UserOK
<1>14. UserOK(u)'
  <2>1. Latest(u, r)' /\ Given' = Given
    BY <1>9, <1>13 DEF Latest, RidesOfUser, Given
  <2>. QED  BY <1>1, <1>4, <1>6, <1>9, <1>13, <2>1 DEF UserOK
<1>15. UserQueueOK(u)' /\ ValidatedOK(u)'
  <2>1. \A q \in Given : /\ rides'[q].app = rides[q].app /\ reqs'[q].user = reqs[q].user
                         /\ (reqs[q].known => reqs'[q].known)
    BY <1>9
  <2>2. user'[u].req = user[u].req /\ user[u].req = r
    BY <1>0, <1>4, <1>6
  <2>. QED  BY <1>4, <1>6, <1>8, <1>11, <1>13, <2>1, <2>2, UserQueueKept
<1>. QED  BY <1>7, <1>8, <1>10, <1>12, <1>14, <1>15, UserMovesKeeps

LEMMA UserLeavesKeeps ==
  ASSUME WorldInv, NEW u \in Users, UserLeaves(u), stopped' = stopped
  PROVE  WorldInv'
<1>0. PICK r : r = user[u].req
  OBVIOUS
<1>1. /\ rides' = rides /\ reqs' = reqs /\ chair' = chair /\ faults' = faults
      /\ UNCHANGED errorVars /\ user[u].pc = "idle" /\ r # Nothing /\ reqs[r].user = 6
  BY <1>0 DEF UserLeaves
<1>2. TypeOK /\ RidesInv /\ UserOK(u)
  BY DEF WorldInv, UsersInv
<1>3. PICK conn \in {"none", "closing"} :
        user' = [user EXCEPT ![u].req = Nothing, ![u].conn = conn]
  BY DEF UserLeaves
<1>4. PICK x : x = [user[u] EXCEPT !.req = Nothing, !.conn = conn]
  OBVIOUS
<1>5. /\ x \in User /\ x.pc = "idle" /\ x.req = Nothing /\ x.conn = conn
      /\ x.validated = user[u].validated /\ x.queue = user[u].queue
      /\ Len(x.queue) <= QueueCapacity
  <2>1. user[u] \in User /\ Len(user[u].queue) <= QueueCapacity
    BY <1>2, UserFields DEF TypeOK
  <2>. QED  BY <1>1, <1>4, <2>1 DEF User
<1>6. user' = [user EXCEPT ![u] = x]
  BY <1>2, <1>3, <1>4 DEF TypeOK
<1>7. /\ user' \in [Users -> User] /\ OnlyUser(u) /\ user'[u] = x
      /\ \A v \in Users : Len(user'[v].queue) <= QueueCapacity
  BY <1>2, <1>5, <1>6, UsersChange
<1>8. ErrorsOK
  BY <1>1, NothingErrs
<1>9. TypeOK'
  BY <1>1, <1>2, <1>7, <1>8, ErrorsType DEF TypeOK
<1>10. rides' = rides /\ reqs' = reqs /\ chair' = chair /\ faults \subseteq faults'
  BY <1>1
<1>11. UserMoves(u)
  <2>1. user[u].pc # "rated"
    BY <1>1
  <2>. QED  BY <1>7, <1>10, <2>1 DEF UserMoves, SameRides
<1>12. Grows
  BY <1>2, <1>11, StagesKept DEF UserMoves
<1>13. ASSUME NEW q \in Given, rides[q].user = u
       PROVE  RideOK(q)' /\ OwnedOK(q)'
  <2>1. RideOK(q) /\ OwnedOK(q)
    BY <1>2 DEF RidesInv
  <2>2. reqs[q].known
    BY <1>1, <1>13, <2>1 DEF OwnedOK
  <2>3. reqs[q].user = 6
    BY <1>0, <1>1, <1>13, <2>1, <2>2 DEF OwnedOK
  <2>. QED  BY <1>10, <2>1, <2>2, <2>3 DEF RideOK, OwnedOK
<1>14. r \in RidesOfUser(u)
  BY <1>0, <1>1, <1>2 DEF UserOK, RidesOfUser, Given
<1>15. UserOK(u)'
  <2>1. r \in RidesOfUser(u)'
    BY <1>10, <1>14 DEF RidesOfUser
  <2>. QED  BY <1>1, <1>5, <1>7, <1>10, <2>1 DEF UserOK
<1>16. UserQueueOK(u)' /\ ValidatedOK(u)'
  <2>1. \A q \in Given : /\ rides'[q].app = rides[q].app /\ reqs'[q].user = reqs[q].user
                         /\ (reqs[q].known => reqs'[q].known)
    BY <1>10
  <2>2. user'[u].req = Nothing
    BY <1>5, <1>7
  <2>. QED  BY <1>5, <1>7, <1>9, <1>12, <2>1, <2>2, UserQueueKept
<1>. QED  BY <1>8, <1>9, <1>11, <1>13, <1>15, <1>16, UserMovesKeeps

LEMMA UsersLatest ==
  ASSUME TypeOK, NEW u, RidesOfUser(u) # {}, NEW r, r = Max(RidesOfUser(u))
  PROVE  r \in Given /\ rides[r].user = u /\ Latest(u, r)
<1>1. RidesOfUser(u) \in SUBSET (1 .. Len(rides)) /\ Len(rides) \in Nat
  BY DEF RidesOfUser, TypeOK
<1>2. r \in RidesOfUser(u) /\ \A q \in RidesOfUser(u) : q <= r
  BY <1>1, GreatestIsThere
<1>. QED  BY <1>2 DEF RidesOfUser, Given, Latest

LEMMA KnownSet ==
  ASSUME TypeOK, NEW r \in Given, reqs' = [reqs EXCEPT ![r].known = TRUE]
  PROVE  /\ reqs' \in Seq(Request) /\ Len(reqs') = Len(reqs)
         /\ \A q \in Given : q # r => reqs'[q] = reqs[q]
         /\ reqs'[r].known /\ reqs'[r].desired = reqs[r].desired
         /\ reqs'[r].chair = reqs[r].chair /\ reqs'[r].user = reqs[r].user
         /\ reqs'[r].holder = reqs[r].holder /\ reqs'[r].evaluated = reqs[r].evaluated
<1>1. PICK x : x = [reqs[r] EXCEPT !.known = TRUE]
  OBVIOUS
<1>2. reqs[r] \in Request
  BY RideFields
<1>3. /\ x \in Request /\ x.known /\ x.desired = reqs[r].desired
      /\ x.chair = reqs[r].chair /\ x.user = reqs[r].user /\ x.holder = reqs[r].holder
      /\ x.evaluated = reqs[r].evaluated
  BY <1>1, <1>2 DEF Request
<1>4. reqs' = [reqs EXCEPT ![r] = x]
  BY <1>1
<1>. QED  BY <1>3, <1>4, ReqsChange

LEMMA UserBookedKeeps ==
  ASSUME WorldInv, NEW u \in Users, UserBooked(u), stopped' = stopped
  PROVE  WorldInv'
<1>0. PICK r : r = Max(RidesOfUser(u))
  OBVIOUS
<1>1. /\ rides' = rides /\ chair' = chair /\ faults' = faults /\ UNCHANGED errorVars
      /\ user[u].pc = "booked" /\ user' = [user EXCEPT ![u].pc = "idle", ![u].req = r]
      /\ reqs' = [reqs EXCEPT ![r].known = TRUE]
  BY <1>0 DEF UserBooked
<1>2. TypeOK /\ RidesInv /\ UserOK(u)
  BY DEF WorldInv, UsersInv
<1>3. user[u].req = Nothing /\ user[u].conn # "open"
  BY <1>1, <1>2 DEF UserOK
<1>4. PICK p \in RidesOfUser(u) : ~reqs[p].known
  BY <1>1, <1>2 DEF UserOK
<1>5. r \in Given /\ rides[r].user = u /\ Latest(u, r)
  BY <1>0, <1>2, <1>4, UsersLatest
<1>6. ASSUME NEW q \in Given, rides[q].user = u, ~reqs[q].known
      PROVE  q = r
  <2>1. Latest(u, q)
    BY <1>2, <1>6 DEF RidesInv, OwnedOK
  <2>2. q <= r /\ r <= q
    BY <1>5, <1>6, <2>1 DEF Latest, RidesOfUser, Given
  <2>. QED  BY <1>2, <1>5, <2>2, RideFields
<1>7. ~reqs[r].known
  BY <1>4, <1>6 DEF RidesOfUser, Given
<1>8. rides[r].app = 0 /\ rides[r].stage = 1 /\ reqs[r].user = 1
  <2>1. rides[r].app = 0 /\ rides[r].stage = 1 /\ RideOK(r)
    BY <1>2, <1>5, <1>7 DEF RidesInv, OwnedOK
  <2>. QED  BY <1>2, <1>5, <2>1, RideFields DEF RideOK
<1>9. PICK x : x = [user[u] EXCEPT !.pc = "idle", !.req = r]
  OBVIOUS
<1>10. /\ x \in User /\ x.pc = "idle" /\ x.req = r /\ x.conn = user[u].conn
       /\ x.validated = user[u].validated /\ x.queue = user[u].queue
       /\ Len(x.queue) <= QueueCapacity
  <2>1. user[u] \in User /\ Len(user[u].queue) <= QueueCapacity /\ r \in Ids
    BY <1>2, <1>5, UserFields, RideFields DEF TypeOK
  <2>. QED  BY <1>9, <2>1 DEF User
<1>11. /\ user' \in [Users -> User] /\ OnlyUser(u) /\ user'[u] = x
       /\ \A v \in Users : Len(user'[v].queue) <= QueueCapacity
  <2>1. user' = [user EXCEPT ![u] = x]
    BY <1>1, <1>2, <1>9 DEF TypeOK
  <2>. QED  BY <1>2, <1>10, <2>1, UsersChange
<1>12. /\ reqs' \in Seq(Request) /\ Len(reqs') = Len(reqs)
       /\ \A q \in Given : q # r => reqs'[q] = reqs[q]
       /\ reqs'[r].known /\ reqs'[r].desired = reqs[r].desired
       /\ reqs'[r].chair = reqs[r].chair /\ reqs'[r].user = reqs[r].user
       /\ reqs'[r].holder = reqs[r].holder /\ reqs'[r].evaluated = reqs[r].evaluated
  BY <1>1, <1>2, <1>5, KnownSet
<1>13. ErrorsOK
  BY <1>1, NothingErrs
<1>14. TypeOK'
  BY <1>1, <1>2, <1>11, <1>12, <1>13, ErrorsType DEF TypeOK
<1>15. rides' = rides /\ chair' = chair /\ faults \subseteq faults'
  BY <1>1
<1>16. UserMoves(u)
  <2>1. user[u].pc # "rated"
    BY <1>1
  <2>2. \A q \in Given :
          /\ reqs'[q].desired = reqs[q].desired /\ reqs'[q].chair = reqs[q].chair
          /\ reqs'[q].holder = reqs[q].holder /\ (reqs[q].known => reqs'[q].known)
          /\ rides[q].user # u => reqs'[q] = reqs[q]
    BY <1>5, <1>12
  <2>. QED  BY <1>11, <1>15, <2>1, <2>2 DEF UserMoves, SameRides
<1>17. Grows
  BY <1>2, <1>16, StagesKept DEF UserMoves
<1>18. RidesOfUser(u)' = RidesOfUser(u) /\ Given' = Given
  BY <1>15 DEF RidesOfUser, Given
<1>19. ASSUME NEW q \in Given, rides[q].user = u
       PROVE  RideOK(q)' /\ OwnedOK(q)'
  <2>1. RideOK(q) /\ OwnedOK(q)
    BY <1>2 DEF RidesInv
  <2>2. RideOK(q)'
    BY <1>12, <1>15, <2>1 DEF RideOK
  <2>3. reqs'[q].known
    BY <1>6, <1>12, <1>19
  <2>4. q # r => reqs'[q].user = 6
    <3>1. q # r => reqs[q].known
      BY <1>6, <1>19
    <3>2. user[u].req # q
      BY <1>2, <1>3, RideFields
    <3>. QED  BY <1>12, <1>19, <2>1, <3>1, <3>2 DEF OwnedOK
  <2>5. OwnedOK(q)'
    BY <1>10, <1>11, <1>15, <1>19, <2>3, <2>4 DEF OwnedOK
  <2>. QED  BY <2>2, <2>5
<1>20. UserOK(u)'
  <2>1. Latest(u, r)' /\ r \in Given'
    BY <1>5, <1>18 DEF Latest
  <2>2. user[u].conn = "closing" => \E q \in RidesOfUser(u)' : reqs'[q].user = 6
    <3>1. \A q \in RidesOfUser(u) : q \in Given
      BY DEF RidesOfUser, Given
    <3>2. \A q \in Given : reqs'[q].user = reqs[q].user
      BY <1>12
    <3>. QED  BY <1>2, <1>18, <3>1, <3>2 DEF UserOK
  <2>3. r # Nothing
    BY <1>2, <1>5, RideFields
  <2>. QED  BY <1>3, <1>5, <1>8, <1>10, <1>11, <1>12, <1>15, <2>1, <2>2, <2>3 DEF UserOK
<1>21. UserQueueOK(u)' /\ ValidatedOK(u)'
  <2>1. \A q \in Given : /\ rides'[q].app = rides[q].app /\ reqs'[q].user = reqs[q].user
                         /\ (reqs[q].known => reqs'[q].known)
    BY <1>12, <1>15
  <2>2. user'[u].req = r /\ reqs'[r].user = 1 /\ ~(rides'[r].app >= 2)
    BY <1>8, <1>10, <1>11, <1>12, <1>15
  <2>. QED  BY <1>5, <1>10, <1>11, <1>14, <1>17, <2>1, <2>2, UserQueueKept
<1>. QED  BY <1>13, <1>14, <1>16, <1>19, <1>20, <1>21, UserMovesKeeps

-----------------------------------------------------------------------------
(* A user's notifications.                                                 *)

\* The user has been sent n rows of ride r.
SetsApp(r, n) == rides' = [rides EXCEPT ![r].app = n]

LEMMA AppSet ==
  ASSUME TypeOK, NEW r \in Given, NEW n \in 0 .. 6, SetsApp(r, n)
  PROVE  /\ rides' \in Seq(Ride) /\ Len(rides') = Len(rides)
         /\ \A q \in Given : q # r => rides'[q] = rides[q]
         /\ rides'[r].app = n /\ rides'[r].user = rides[r].user
         /\ rides'[r].chair = rides[r].chair /\ rides'[r].chr = rides[r].chr
         /\ rides'[r].stage = rides[r].stage
<1>1. PICK x : x = [rides[r] EXCEPT !.app = n]
  OBVIOUS
<1>2. rides[r] \in Ride
  BY RideFields
<1>3. /\ x \in Ride /\ x.app = n /\ x.user = rides[r].user /\ x.stage = rides[r].stage
      /\ x.chair = rides[r].chair /\ x.chr = rides[r].chr
  BY <1>1, <1>2 DEF Ride
<1>4. rides' = [rides EXCEPT ![r] = x]
  BY <1>1 DEF SetsApp
<1>. QED  BY <1>3, <1>4, RidesChange

\* A stream is open for the current ride, the latest of its user.
LEMMA OpenRide ==
  ASSUME WorldInv, NEW u \in Users, user[u].conn = "open", NEW r, r = Max(RidesOfUser(u))
  PROVE  /\ r \in Given /\ r # Nothing /\ r = user[u].req /\ rides[r].user = u
         /\ Latest(u, r) /\ user[u].pc # "booked"
<1>1. TypeOK /\ UserOK(u)
  BY DEF WorldInv, UsersInv
<1>2. PICK q : q = user[u].req
  OBVIOUS
<1>3. q \in Given /\ q # Nothing /\ rides[q].user = u /\ Latest(u, q) /\ user[u].pc # "booked"
  BY <1>1, <1>2 DEF UserOK
<1>4. q \in RidesOfUser(u)
  BY <1>3 DEF RidesOfUser, Given
<1>5. r \in Given /\ rides[r].user = u /\ Latest(u, r)
  BY <1>1, <1>4, UsersLatest
<1>6. q <= r /\ r <= q
  BY <1>3, <1>4, <1>5 DEF Latest, RidesOfUser, Given
<1>7. q = r
  BY <1>1, <1>3, <1>5, <1>6, RideFields
<1>. QED  BY <1>2, <1>3, <1>7

\* User u is sent row n of ride r, or the answer is lost.
Sent(u, r, n) ==
  /\ rides' \in Seq(Ride) /\ Len(rides') = Len(rides)
  /\ \A q \in Given : q # r => rides'[q] = rides[q]
  /\ rides'[r].app = n /\ rides'[r].user = rides[r].user
  /\ rides'[r].chair = rides[r].chair /\ rides'[r].chr = rides[r].chr
  /\ rides'[r].stage = rides[r].stage
  /\ rides[r].app <= n /\ n <= rides[r].stage
  /\ OnlyUser(u) /\ user'[u].pc = user[u].pc /\ user'[u].req = user[u].req
  /\ user'[u].conn = user[u].conn /\ user'[u].validated = user[u].validated
  /\ reqs' = reqs /\ chair' = chair /\ faults \subseteq faults' /\ UNCHANGED errorVars

LEMMA SentKeeps ==
  ASSUME WorldInv, TypeOK', NEW u \in Users, user[u].conn = "open", NEW r \in Given,
         r = user[u].req, NEW n \in 1 .. 6, Sent(u, r, n), UserQueueOK(u)', ValidatedOK(u)'
  PROVE  WorldInv'
<1>1. TypeOK /\ RidesInv /\ UserOK(u)
  BY DEF WorldInv, UsersInv
<1>2. r # Nothing /\ rides[r].user = u /\ reqs[r].known /\ Latest(u, r) /\ user[u].pc # "booked"
  BY <1>1, RideFields DEF UserOK
<1>3. UserMoves(u)
  <2>1. \A q \in Given :
          /\ rides'[q].stage = rides[q].stage /\ rides'[q].chr = rides[q].chr
          /\ rides'[q].user = rides[q].user /\ rides'[q].chair = rides[q].chair
          /\ rides[q].user # u => rides'[q] = rides[q]
    BY <1>2 DEF Sent
  <2>2. /\ Len(rides') = Len(rides) /\ OnlyUser(u) /\ chair' = chair /\ faults \subseteq faults'
        /\ reqs' = reqs /\ user'[u].pc = user[u].pc /\ user'[u].req = user[u].req
    BY DEF Sent
  <2>. QED  BY <2>1, <2>2 DEF UserMoves, SameRides
<1>4. ErrorsOK
  BY NothingErrs DEF Sent
<1>5. /\ Given' = Given /\ RidesOfUser(u)' = RidesOfUser(u)
      /\ \A q \in RidesOfUser(u) : q \in Given
  BY <1>3, RidesOfStay DEF UserMoves, RidesOfUser, Given
<1>6. ASSUME NEW q \in Given, rides[q].user = u
      PROVE  RideOK(q)' /\ OwnedOK(q)'
  <2>1. RideOK(q) /\ OwnedOK(q)
    BY <1>1 DEF RidesInv
  <2>2. reqs[q].known
    BY <1>2, <1>6, <2>1 DEF OwnedOK
  <2>3. reqs' = reqs /\ rides'[q].user = u /\ user'[u].req = user[u].req
    BY <1>6 DEF Sent
  <2>4. OwnedOK(q)'
    BY <1>6, <2>1, <2>2, <2>3 DEF OwnedOK
  <2>5. CASE q # r
    BY <2>1, <2>3, <2>4, <2>5 DEF RideOK, Sent
  <2>6. CASE q = r
    <3>1. reqs[r].user = 1 \/ reqs[r].user <= n
      BY <1>1, <2>1, <2>6, RideFields, SMTT(40) DEF RideOK, Sent
    <3>. QED  BY <2>1, <2>3, <2>4, <2>6, <3>1 DEF RideOK, Sent
  <2>. QED  BY <2>5, <2>6
<1>7. UserOK(u)'
  <2>1. Latest(u, r)'
    BY <1>2, <1>5 DEF Latest
  <2>2. user'[u].conn = "open" /\ user'[u].pc = user[u].pc /\ user'[u].req = r
    BY DEF Sent
  <2>3. reqs' = reqs /\ rides'[r].stage = rides[r].stage /\ rides'[r].user = u
        /\ faults \subseteq faults'
    BY <1>2 DEF Sent
  <2>. QED  BY <1>1, <1>2, <1>5, <2>1, <2>2, <2>3 DEF UserOK
<1>. QED  BY <1>3, <1>4, <1>6, <1>7, UserMovesKeeps

\* What waits in the user's queue stays right.
LEMMA SentEventStays ==
  ASSUME WorldInv, TypeOK', NEW u \in Users, NEW r \in Given, NEW n \in 1 .. 6,
         Sent(u, r, n), NEW e \in Event, UserEventOK(u, e)
  PROVE  UserEventOK(u, e)'
<1>1. TypeOK /\ RidesInv /\ OrderOK
  BY DEF WorldInv
<1>2. /\ e.ride \in Given /\ reqs[e.ride].known /\ reqs[e.ride].user <= e.status
      /\ user[u].req # Nothing /\ reqs[user[u].req].user # Matching => e.ride = user[u].req
  BY DEF UserEventOK
<1>3. reqs' = reqs /\ user'[u].req = user[u].req
  BY DEF Sent
<1>4. \A q \in Given :
        /\ rides'[q].stage = rides[q].stage /\ rides'[q].user = rides[q].user
        /\ rides'[q].chair = rides[q].chair
  BY DEF Sent
<1>5. SameRides /\ faults \subseteq faults'
  BY <1>4 DEF Sent, SameRides
<1>6. Grows
  BY <1>1, <1>4, <1>5, StagesKept
<1>7. rides[e.ride].app <= rides'[e.ride].app
  BY <1>1, <1>2, RideFields DEF Sent
<1>. QED  BY <1>1, <1>2, <1>3, <1>6, <1>7, UserEventStays

LEMMA UserPollLostKeeps ==
  ASSUME WorldInv, NEW u \in Users, UserPollLost(u), stopped' = stopped
  PROVE  WorldInv'
<1>0. PICK r : r = Max(RidesOfUser(u))
  OBVIOUS
<1>1. TypeOK /\ RidesInv /\ OrderOK /\ UserQueueOK(u) /\ ValidatedOK(u) /\ user[u].conn = "open"
  BY DEF WorldInv, UserQueuesInv, UserPollLost
<1>2. r \in Given /\ r # Nothing /\ r = user[u].req /\ rides[r].user = u
  BY <1>0, <1>1, OpenRide
<1>3. /\ reqs' = reqs /\ user' = user /\ chair' = chair /\ UNCHANGED errorVars
      /\ rides[r].app < rides[r].stage /\ Fault("user", r, rides[r].app + 1)
  BY <1>0 DEF UserPollLost
<1>4. PICK n \in 1 .. 6 : n = rides[r].app + 1 /\ n <= rides[r].stage /\ rides[r].app <= n
  BY <1>1, <1>2, <1>3, RideFields
<1>5. SetsApp(r, n)
  BY <1>0, <1>4 DEF UserPollLost, SetsApp
<1>6. /\ rides' \in Seq(Ride) /\ Len(rides') = Len(rides)
      /\ \A q \in Given : q # r => rides'[q] = rides[q]
      /\ rides'[r].app = n /\ rides'[r].user = rides[r].user
      /\ rides'[r].chair = rides[r].chair /\ rides'[r].chr = rides[r].chr
      /\ rides'[r].stage = rides[r].stage
  BY <1>1, <1>2, <1>5, AppSet
<1>7. faults \subseteq faults' /\ <<"user", r, n>> \in faults'
  BY <1>3, <1>4, FaultEffect
<1>8. Sent(u, r, n)
  BY <1>3, <1>4, <1>6, <1>7 DEF Sent, OnlyUser
<1>9. TypeOK'
  <2>1. ErrorsOK
    BY <1>3, NothingErrs
  <2>. QED  BY <1>1, <1>3, <1>6, <2>1, ErrorsType DEF TypeOK
<1>10. PICK queue : queue = user[u].queue
  OBVIOUS
<1>11. UserQueueOK(u)'
  <2>1. ASSUME NEW i \in 1 .. Len(queue)
        PROVE  UserEventOK(u, queue[i])'
    <3>1. PICK e \in Event : e = queue[i]
      BY <1>1, <1>10, UserFields, EventFields
    <3>2. UserEventOK(u, e)
      BY <1>1, <1>10, <3>1 DEF UserQueueOK
    <3>. QED  BY <1>2, <1>8, <1>9, <3>1, <3>2, SentEventStays
  <2>2. Sorted(queue)
    BY <1>1, <1>10 DEF UserQueueOK
  <2>. QED  BY <1>3, <1>10, <2>1, <2>2 DEF UserQueueOK
<1>12. Grows
  <2>1. \A q \in Given :
          /\ rides'[q].stage = rides[q].stage /\ rides'[q].user = rides[q].user
          /\ rides'[q].chair = rides[q].chair
    BY <1>6
  <2>. QED  BY <1>1, <1>6, <1>7, <2>1, StagesKept DEF SameRides
<1>13. ValidatedOK(u)'
  <2>1. PICK v : v = user[u].validated
    OBVIOUS
  <2>2. ASSUME v.ride # Nothing
        PROVE  /\ v.ride \in RidesOfUser(u)' /\ rides'[v.ride].chair # NoOne
               /\ v.total = Cardinality(Before(v.ride)')
    BY <1>1, <1>9, <1>12, <2>1, <2>2, RememberedStays DEF ValidatedOK
  <2>3. reqs[r].user # Matching => v.ride = r
    BY <1>1, <1>2, <2>1 DEF ValidatedOK
  <2>4. ASSUME n >= Dispatching
        PROVE  \/ v.ride = r \/ ChairWentOn(r)'
               \/ <<"user", r, Dispatching>> \in faults'
               \/ Holds(queue, r, Dispatching)
    <3>1. CASE n = 2
      BY <1>7, <3>1
    <3>2. CASE n # 2
      <4>1. rides[r].app >= 2
        BY <1>1, <1>2, <1>4, <2>4, <3>2, RideFields
      <4>2. \/ v.ride = r \/ ChairWentOn(r) \/ <<"user", r, Dispatching>> \in faults
            \/ Holds(queue, r, Dispatching)
        BY <1>1, <1>2, <1>10, <2>1, <4>1 DEF ValidatedOK
      <4>. QED  BY <1>1, <1>2, <1>7, <1>9, <1>12, <4>2, WentOnStays
    <3>. QED  BY <3>1, <3>2
  <2>. QED  BY <1>2, <1>3, <1>6, <1>10, <2>1, <2>2, <2>3, <2>4 DEF ValidatedOK
<1>. QED  BY <1>1, <1>2, <1>8, <1>9, <1>11, <1>13, SentKeeps

\* The number of rides the server tells of a chair: those it had before this
\* one, with this one when it is over and the chair has not gone on.
LEMMA TotalIs ==
  ASSUME WorldInv, NEW r \in Given, rides[r].chair # NoOne
  PROVE  /\ rides[r].stage # Completed =>
              TotalRides(rides[r].chair) = Cardinality(Before(r))
         /\ rides[r].stage = Completed =>
              ChairWentOn(r) \/ TotalRides(rides[r].chair) = Cardinality(UpTo(r))
<1>1. TypeOK /\ OrderOK
  BY DEF WorldInv
<1>2. PICK c : c = rides[r].chair
  OBVIOUS
<1>3. ASSUME NEW q \in RidesOfChair(c)
      PROVE  /\ q \in Given /\ rides[q].chair = c /\ q \in Nat /\ r \in Nat
             /\ q < r => rides[q].stage = 6
             /\ r < q => rides[r].stage = 6
  <2>1. q \in Given /\ rides[q].chair = c
    BY DEF RidesOfChair, Given
  <2>2. q < r => rides[q].stage = 6
    BY <1>1, <1>2, <2>1 DEF OrderOK
  <2>3. r < q => rides[r].stage = 6
    BY <1>1, <1>2, <2>1 DEF OrderOK
  <2>. QED  BY <1>1, <2>1, <2>2, <2>3, RideFields
<1>4. TotalRides(c) = Cardinality({q \in RidesOfChair(c) : rides[q].stage = 6})
  <2>1. {q \in RidesOfChair(c) : c # NoOne /\ rides[q].stage = 6}
          = {q \in RidesOfChair(c) : rides[q].stage = 6}
    BY <1>2
  <2>. QED  BY <2>1 DEF TotalRides
<1>5. ASSUME rides[r].stage # 6
      PROVE  {q \in RidesOfChair(c) : rides[q].stage = 6} = Before(r)
  <2>1. \A q \in RidesOfChair(c) : rides[q].stage = 6 <=> q < r
    BY <1>3, <1>5
  <2>. QED  BY <1>2, <2>1 DEF Before
<1>6. ASSUME rides[r].stage = 6, ~ChairWentOn(r)
      PROVE  {q \in RidesOfChair(c) : rides[q].stage = 6} = UpTo(r)
  <2>1. \A q \in RidesOfChair(c) : q > r => rides[q].stage # 6
    BY <1>2, <1>6 DEF ChairWentOn
  <2>2. \A q \in RidesOfChair(c) : rides[q].stage = 6 <=> q <= r
    <3>1. ASSUME NEW q \in RidesOfChair(c)
          PROVE  rides[q].stage = 6 <=> q <= r
      <4>1. q \in Nat /\ r \in Nat
        BY <1>3
      <4>2. CASE q > r
        BY <2>1, <4>1, <4>2
      <4>3. CASE q = r
        BY <1>6, <4>1, <4>3
      <4>4. CASE q < r
        BY <1>3, <4>1, <4>4
      <4>. QED  BY <4>1, <4>2, <4>3, <4>4
    <3>. QED  BY <3>1
  <2>. QED  BY <1>2, <2>2 DEF UpTo
<1>. QED  BY <1>2, <1>4, <1>5, <1>6

LEMMA UserPollKeeps ==
  ASSUME WorldInv, NEW u \in Users, UserPoll(u), stopped' = stopped
  PROVE  WorldInv'
<1>0. PICK r, queue, v : /\ r = Max(RidesOfUser(u)) /\ queue = user[u].queue
                         /\ v = user[u].validated
  OBVIOUS
<1>1. TypeOK /\ RidesInv /\ OrderOK /\ UserQueueOK(u) /\ ValidatedOK(u) /\ user[u].conn = "open"
  BY DEF WorldInv, UserQueuesInv, UserPoll
<1>2. r \in Given /\ r # Nothing /\ r = user[u].req /\ rides[r].user = u /\ Latest(u, r)
  BY <1>0, <1>1, OpenRide
<1>3. /\ reqs' = reqs /\ chair' = chair /\ UNCHANGED errorVars /\ faults' = faults
      /\ Len(queue) < QueueCapacity
  BY <1>0 DEF UserPoll
<1>4. PICK n \in 1 .. 6, o \in 0 .. 6 :
        /\ o = rides[r].app /\ n = NextRow(o, r)
        /\ o <= n /\ n <= rides[r].stage /\ (n = o \/ n = o + 1)
        /\ n = o => o = rides[r].stage
  <2>1. rides[r].app \in 0 .. 6 /\ rides[r].app <= rides[r].stage
    BY <1>1, <1>2, RideFields DEF RidesInv, RideOK
  <2>. QED  BY <1>1, <1>2, <2>1, NextRowIs
<1>5. PICK e \in Event :
        /\ e = Notification(o, r) /\ e.ride = r /\ e.status = n
        /\ e.total = TotalRides(rides[r].chair)
  <2>1. o <= rides[r].stage
    BY <1>1, <1>2, <1>4 DEF RidesInv, RideOK
  <2>. QED  BY <1>1, <1>2, <1>4, <2>1, NotificationIs
<1>6. /\ rides' \in Seq(Ride) /\ Len(rides') = Len(rides)
      /\ \A q \in Given : q # r => rides'[q] = rides[q]
      /\ rides'[r].app = n /\ rides'[r].user = rides[r].user
      /\ rides'[r].chair = rides[r].chair /\ rides'[r].chr = rides[r].chr
      /\ rides'[r].stage = rides[r].stage
  <2>1. SetsApp(r, n)
    BY <1>0, <1>4 DEF UserPoll, SetsApp
  <2>. QED  BY <1>1, <1>2, <2>1, AppSet
<1>7. PICK x : x = [user[u] EXCEPT !.queue = Append(queue, e)]
  OBVIOUS
<1>8. /\ x \in User /\ x.pc = user[u].pc /\ x.req = user[u].req /\ x.conn = user[u].conn
      /\ x.validated = v /\ x.queue = Append(queue, e) /\ Len(x.queue) <= QueueCapacity
  <2>1. user[u] \in User /\ queue \in Seq(Event)
    BY <1>0, <1>1, UserFields
  <2>2. Append(queue, e) \in Seq(Event) /\ Len(Append(queue, e)) = Len(queue) + 1
        /\ Len(queue) \in Nat
    BY <2>1, QueueGrows
  <2>3. Len(Append(queue, e)) <= QueueCapacity
    BY <1>3, <2>2, WorldAssumption
  <2>4. PICK t \in Seq(Event) : t = Append(queue, e)
    BY <2>2
  <2>5. /\ x \in User /\ x.pc = user[u].pc /\ x.req = user[u].req /\ x.conn = user[u].conn
        /\ x.validated = v /\ x.queue = t
    BY <1>0, <1>7, <2>1, <2>4 DEF User
  <2>. QED  BY <2>3, <2>4, <2>5
<1>9. user' = [user EXCEPT ![u] = x]
  BY <1>0, <1>4, <1>5, <1>7 DEF UserPoll
<1>10. /\ user' \in [Users -> User] /\ OnlyUser(u) /\ user'[u] = x
       /\ \A w \in Users : Len(user'[w].queue) <= QueueCapacity
  BY <1>1, <1>8, <1>9, UsersChange
<1>11. TypeOK'
  <2>1. ErrorsOK
    BY <1>3, NothingErrs
  <2>. QED  BY <1>1, <1>3, <1>6, <1>10, <2>1, ErrorsType DEF TypeOK
<1>12. Sent(u, r, n)
  <2>1. /\ user'[u].pc = user[u].pc /\ user'[u].req = user[u].req
        /\ user'[u].conn = user[u].conn /\ user'[u].validated = user[u].validated
    BY <1>0, <1>8, <1>10
  <2>2. rides[r].app <= n /\ n <= rides[r].stage
    BY <1>4
  <2>. QED  BY <1>3, <1>6, <1>10, <2>1, <2>2 DEF Sent
<1>13. SameRides /\ Grows
  <2>1. \A q \in Given :
          /\ rides'[q].stage = rides[q].stage /\ rides'[q].user = rides[q].user
          /\ rides'[q].chair = rides[q].chair
    BY <1>6
  <2>2. SameRides /\ faults \subseteq faults'
    BY <1>3, <1>6, <2>1 DEF SameRides
  <2>. QED  BY <1>1, <2>1, <2>2, StagesKept
<1>14. queue \in Seq(Event) /\ Sorted(queue)
  BY <1>0, <1>1, UserFields DEF UserQueueOK
<1>15. \A i \in 1 .. Len(queue) : queue[i] \in Event /\ UserEventOK(u, queue[i])
  BY <1>0, <1>1, <1>14, EventFields DEF UserQueueOK
<1>16. Sorted(Append(queue, e))
  <2>1. ASSUME NEW i \in 1 .. Len(queue)
        PROVE  \/ queue[i].ride < e.ride
               \/ queue[i].ride = e.ride /\ queue[i].status <= e.status
    <3>1. /\ queue[i].ride \in Given /\ queue[i].ride \in RidesOfUser(u)
          /\ queue[i].status <= rides[queue[i].ride].app
      BY <1>15 DEF UserEventOK, RidesOfUser, Given
    <3>2. queue[i].ride <= r /\ queue[i].ride \in Nat /\ r \in Nat
      BY <1>1, <1>2, <3>1, RideFields DEF Latest
    <3>3. CASE queue[i].ride = r
      BY <1>4, <1>5, <1>14, <3>1, <3>3, EventFields, SMTT(40)
    <3>4. CASE queue[i].ride # r
      BY <1>5, <3>2, <3>4
    <3>. QED  BY <3>3, <3>4
  <2>. QED  BY <1>14, <2>1, SortedGrows
<1>17. UserEventOK(u, e)'
  <2>1. r \in Given' /\ rides'[r].user = u /\ reqs'[r].known
    <3>1. reqs[r].known
      BY <1>2, CurrentRide
    <3>. QED  BY <1>2, <1>3, <1>6, <3>1 DEF Given
  <2>2. RideOK(r) /\ rides[r].stage \in 1 .. 6 /\ reqs[r].user \in 1 .. 6
    BY <1>1, <1>2, RideFields DEF RidesInv
  <2>3. reqs[r].user <= n
    BY <1>4, <2>2 DEF RideOK
  <2>4. n > 1 => rides[r].chair # NoOne
    BY <1>4, <2>2 DEF RideOK
  <2>5. n \in 2 .. 5 => rides[r].stage # 6
    BY <1>4, <2>2 DEF RideOK
  <2>6. n = 6 => rides[r].stage = 6
    BY <1>4, <2>2
  <2>7. n > 1 => Before(r)' = Before(r) /\ UpTo(r)' = UpTo(r)
    BY <1>1, <1>2, <1>11, <1>13, <2>4, PlaceStays
  <2>8. ChairWentOn(r) => ChairWentOn(r)'
    BY <1>1, <1>2, <1>11, <1>13, WentOnStays
  <2>9. e.status \in Dispatching .. Arrived => e.total = Cardinality(Before(r)')
    BY <1>2, <1>5, <2>4, <2>5, <2>7, TotalIs
  <2>10. e.status = Completed => ChairWentOn(r)' \/ e.total = Cardinality(UpTo(r)')
    BY <1>2, <1>5, <2>4, <2>6, <2>7, <2>8, TotalIs
  <2>. QED  BY <1>2, <1>3, <1>5, <1>6, <1>8, <1>10, <2>1, <2>3, <2>9, <2>10 DEF UserEventOK
<1>18. ASSUME NEW i \in 1 .. Len(Append(queue, e))
       PROVE  UserEventOK(u, Append(queue, e)[i])'
  <2>1. i \in 1 .. Len(queue) \/ i = Len(queue) + 1
    BY <1>14, QueueGrows
  <2>2. CASE i \in 1 .. Len(queue)
    <3>1. PICK f \in Event : f = queue[i] /\ UserEventOK(u, f)
      BY <1>15, <2>2
    <3>2. Append(queue, e)[i] = f
      BY <1>14, <2>2, <3>1, QueueGrows
    <3>. QED  BY <1>2, <1>11, <1>12, <3>1, <3>2, SentEventStays
  <2>3. CASE i = Len(queue) + 1
    <3>1. Append(queue, e)[i] = e
      BY <1>14, <2>3, QueueGrows
    <3>. QED  BY <1>17, <3>1
  <2>. QED  BY <2>1, <2>2, <2>3
<1>19. UserQueueOK(u)'
  BY <1>8, <1>10, <1>16, <1>18 DEF UserQueueOK
<1>20. ValidatedOK(u)'
  <2>1. ASSUME v.ride # Nothing
        PROVE  /\ v.ride \in RidesOfUser(u)' /\ rides'[v.ride].chair # NoOne
               /\ v.total = Cardinality(Before(v.ride)')
    BY <1>0, <1>1, <1>11, <1>13, <2>1, RememberedStays DEF ValidatedOK
  <2>2. reqs[r].user # Matching => v.ride = r
    BY <1>0, <1>1, <1>2 DEF ValidatedOK
  <2>3. ASSUME n >= Dispatching
        PROVE  \/ v.ride = r \/ ChairWentOn(r)'
               \/ <<"user", r, Dispatching>> \in faults
               \/ Holds(Append(queue, e), r, Dispatching)
    <3>1. CASE n = 2
      <4>1. e.ride = r /\ e.status = 2
        BY <1>5, <3>1
      <4>. QED  BY <1>14, <4>1, HoldsNew
    <3>2. CASE n # 2
      <4>1. rides[r].app >= 2
        BY <1>1, <1>2, <1>4, <2>3, <3>2, RideFields
      <4>2. \/ v.ride = r \/ ChairWentOn(r) \/ <<"user", r, Dispatching>> \in faults
            \/ Holds(queue, r, Dispatching)
        BY <1>0, <1>1, <1>2, <4>1 DEF ValidatedOK
      <4>3. ChairWentOn(r) => ChairWentOn(r)'
        BY <1>1, <1>2, <1>11, <1>13, WentOnStays
      <4>. QED  BY <1>14, <4>2, <4>3, HoldsGrows
    <3>. QED  BY <3>1, <3>2
  <2>. QED  BY <1>2, <1>3, <1>6, <1>8, <1>10, <2>1, <2>2, <2>3 DEF ValidatedOK
<1>. QED  BY <1>1, <1>2, <1>11, <1>12, <1>19, <1>20, SentKeeps

\* The late answer is about the last ride that is over for the user, and comes
\* before the next one is heard of.
LEMMA LateAnswerKeeps ==
  ASSUME WorldInv, NEW u \in Users, LateAnswer(u), stopped' = stopped
  PROVE  WorldInv'
<1>0. PICK r, queue, v, k : /\ r = Max({q \in RidesOfUser(u) : reqs[q].user = Completed})
                            /\ queue = user[u].queue /\ v = user[u].validated
                            /\ k = user[u].req
  OBVIOUS
<1>1. /\ TypeOK /\ RidesInv /\ OrderOK /\ UserOK(u) /\ UserQueueOK(u) /\ ValidatedOK(u)
      /\ user[u].conn = "closing"
  BY DEF WorldInv, UsersInv, UserQueuesInv, LateAnswer
<1>2. /\ r \in Given /\ rides[r].user = u /\ reqs[r].user = 6
      /\ \A q \in Given : rides[q].user = u /\ reqs[q].user = 6 => q <= r
  <2>1. PICK S : S = {q \in RidesOfUser(u) : reqs[q].user = 6}
    OBVIOUS
  <2>2. S # {} /\ S \in SUBSET (1 .. Len(rides)) /\ Len(rides) \in Nat
    BY <1>1, <2>1 DEF UserOK, RidesOfUser, TypeOK
  <2>3. r = Max(S)
    BY <1>0, <2>1
  <2>4. r \in S /\ \A q \in S : q <= r
    BY <2>2, <2>3, GreatestIsThere
  <2>. QED  BY <2>1, <2>4 DEF RidesOfUser, Given
<1>3. /\ rides' = rides /\ reqs' = reqs /\ chair' = chair /\ UNCHANGED errorVars
      /\ faults' = faults /\ Len(queue) < QueueCapacity
  BY <1>0 DEF LateAnswer
<1>4. rides[r].app = 6 /\ rides[r].stage = 6 /\ reqs[r].known /\ rides[r].chair # NoOne
  <2>1. RideOK(r) /\ OwnedOK(r)
    BY <1>1, <1>2 DEF RidesInv
  <2>2. rides[r].app = 6 /\ rides[r].stage = 6
    BY <1>1, <1>2, <2>1, RideFields DEF RideOK
  <2>. QED  BY <2>1, <2>2 DEF RideOK, OwnedOK
<1>5. PICK e \in Event :
        /\ e = Notification(6, r) /\ e.ride = r /\ e.status = 6
        /\ e.total = TotalRides(rides[r].chair)
  <2>1. NextRow(6, r) \in 1 .. 6 /\ 6 <= NextRow(6, r)
    BY <1>1, <1>2, <1>4, NextRowIs
  <2>2. NextRow(6, r) = 6
    BY <2>1
  <2>. QED  BY <1>1, <1>2, <1>4, <2>2, NotificationIs
<1>6. PICK x : x = [user[u] EXCEPT !.conn = "none", !.queue = Append(queue, e)]
  OBVIOUS
<1>7. /\ x \in User /\ x.pc = user[u].pc /\ x.req = k /\ x.conn = "none"
      /\ x.validated = v /\ x.queue = Append(queue, e) /\ Len(x.queue) <= QueueCapacity
  <2>1. user[u] \in User /\ queue \in Seq(Event)
    BY <1>0, <1>1, UserFields
  <2>2. Append(queue, e) \in Seq(Event) /\ Len(Append(queue, e)) = Len(queue) + 1
        /\ Len(queue) \in Nat
    BY <2>1, QueueGrows
  <2>3. Len(Append(queue, e)) <= QueueCapacity
    BY <1>3, <2>2, WorldAssumption
  <2>4. PICK t \in Seq(Event) : t = Append(queue, e)
    BY <2>2
  <2>5. /\ x \in User /\ x.pc = user[u].pc /\ x.req = k /\ x.conn = "none"
        /\ x.validated = v /\ x.queue = t
    BY <1>0, <1>6, <2>1, <2>4 DEF User
  <2>. QED  BY <2>3, <2>4, <2>5
<1>8. user' = [user EXCEPT ![u] = x]
  <2>1. user' = [user EXCEPT ![u].conn = "none", ![u].queue = Append(@, e)]
    BY <1>0, <1>4, <1>5 DEF LateAnswer
  <2>. QED  BY <1>0, <1>1, <1>6, <2>1 DEF TypeOK
<1>9. /\ user' \in [Users -> User] /\ OnlyUser(u) /\ user'[u] = x
      /\ \A w \in Users : Len(user'[w].queue) <= QueueCapacity
  BY <1>1, <1>7, <1>8, UsersChange
<1>10. ErrorsOK
  BY <1>3, NothingErrs
<1>11. TypeOK'
  BY <1>1, <1>3, <1>9, <1>10, ErrorsType DEF TypeOK
<1>12. rides' = rides /\ reqs' = reqs /\ chair' = chair /\ faults \subseteq faults'
  BY <1>3
<1>13. UserMoves(u)
  BY <1>0, <1>7, <1>9, <1>12 DEF UserMoves, SameRides
<1>14. /\ Given' = Given /\ RidesOfUser(u)' = RidesOfUser(u)
       /\ \A q : ChairWentOn(q)' = ChairWentOn(q)
       /\ \A q : Before(q)' = Before(q) /\ UpTo(q)' = UpTo(q)
  BY <1>12 DEF Given, RidesOfUser, ChairWentOn, RidesOfChair, Before, UpTo
<1>15. ASSUME NEW q \in Given, rides[q].user = u
       PROVE  RideOK(q)' /\ OwnedOK(q)'
  <2>1. RideOK(q) /\ OwnedOK(q)
    BY <1>1 DEF RidesInv
  <2>2. user'[u].req = user[u].req /\ user'[u].pc = user[u].pc
    BY <1>0, <1>7, <1>9
  <2>3. RideOK(q)'
    BY <1>12, <2>1 DEF RideOK
  <2>4. Latest(u, q)' <=> Latest(u, q)
    BY <1>14 DEF Latest
  <2>5. OwnedOK(q)'
    BY <1>12, <1>15, <2>1, <2>2, <2>4 DEF OwnedOK
  <2>. QED  BY <2>3, <2>5
<1>16. UserOK(u)'
  <2>1. \A q : Latest(u, q)' <=> Latest(u, q)
    BY <1>14 DEF Latest
  <2>. QED  BY <1>0, <1>1, <1>7, <1>9, <1>12, <1>14, <2>1 DEF UserOK
<1>17. k # Nothing => k \in Given /\ rides[k].app = 0 /\ reqs[k].user = 1
  <2>1. k # Nothing => k \in Given /\ rides[k].app = 0
    BY <1>0, <1>1 DEF UserOK
  <2>2. k # Nothing => RideOK(k)
    BY <1>1, <2>1 DEF RidesInv
  <2>. QED  BY <1>1, <2>1, <2>2, RideFields DEF RideOK
<1>18. queue \in Seq(Event) /\ Sorted(queue)
  BY <1>0, <1>1, UserFields DEF UserQueueOK
<1>19. \A i \in 1 .. Len(queue) : queue[i] \in Event /\ UserEventOK(u, queue[i])
  BY <1>0, <1>1, <1>18, EventFields DEF UserQueueOK
<1>20. Sorted(Append(queue, e))
  <2>1. ASSUME NEW i \in 1 .. Len(queue)
        PROVE  \/ queue[i].ride < e.ride
               \/ queue[i].ride = e.ride /\ queue[i].status <= e.status
    <3>1. PICK f \in Event : f = queue[i] /\ UserEventOK(u, f)
      BY <1>19
    <3>2. /\ f.ride \in Given /\ rides[f.ride].user = u /\ reqs[f.ride].known
          /\ f.status <= rides[f.ride].app /\ f.status \in 1 .. 6
      BY <3>1 DEF UserEventOK, Event, RequestStatus
    <3>3. f.ride # k
      BY <1>17, <3>2, RideFields, <1>1
    <3>4. reqs[f.ride].user = 6
      BY <1>0, <1>1, <3>2, <3>3 DEF RidesInv, OwnedOK
    <3>5. f.ride <= r /\ f.ride \in Nat /\ r \in Nat
      BY <1>1, <1>2, <3>2, <3>4, RideFields
    <3>. QED  BY <1>5, <3>1, <3>2, <3>5
  <2>. QED  BY <1>18, <2>1, SortedGrows
<1>21. UserEventOK(u, e)
  <2>1. ChairWentOn(r) \/ e.total = Cardinality(UpTo(r))
    BY <1>2, <1>4, <1>5, TotalIs
  <2>2. ~(k # Nothing /\ reqs[k].user # 1)
    BY <1>17
  <2>. QED  BY <1>0, <1>2, <1>4, <1>5, <2>1, <2>2 DEF UserEventOK
<1>22. ASSUME NEW f, UserEventOK(u, f)
       PROVE  UserEventOK(u, f)'
  <2>1. user'[u].req = user[u].req
    BY <1>0, <1>7, <1>9
  <2>. QED  BY <1>12, <1>14, <1>22, <2>1 DEF UserEventOK
<1>23. ASSUME NEW i \in 1 .. Len(Append(queue, e))
       PROVE  UserEventOK(u, Append(queue, e)[i])'
  <2>1. i \in 1 .. Len(queue) \/ i = Len(queue) + 1
    BY <1>18, QueueGrows
  <2>2. CASE i \in 1 .. Len(queue)
    <3>1. PICK f \in Event : f = queue[i] /\ UserEventOK(u, f)
      BY <1>19, <2>2
    <3>2. Append(queue, e)[i] = f
      BY <1>18, <2>2, <3>1, QueueGrows
    <3>. QED  BY <1>22, <3>1, <3>2
  <2>3. CASE i = Len(queue) + 1
    <3>1. Append(queue, e)[i] = e
      BY <1>18, <2>3, QueueGrows
    <3>. QED  BY <1>21, <1>22, <3>1
  <2>. QED  BY <2>1, <2>2, <2>3
<1>24. UserQueueOK(u)'
  BY <1>7, <1>9, <1>20, <1>23 DEF UserQueueOK
<1>25. ValidatedOK(u)'
  <2>1. v.ride # Nothing => /\ v.ride \in RidesOfUser(u) /\ rides[v.ride].chair # NoOne
                            /\ v.total = Cardinality(Before(v.ride))
    BY <1>0, <1>1 DEF ValidatedOK
  <2>2. k # Nothing => rides[k].app = 0 /\ reqs[k].user = 1
    BY <1>17
  <2>. QED  BY <1>7, <1>9, <1>12, <1>14, <2>1, <2>2 DEF ValidatedOK
<1>. QED  BY <1>10, <1>11, <1>13, <1>15, <1>16, <1>24, <1>25, UserMovesKeeps

-----------------------------------------------------------------------------
(* A user handles a notification.                                          *)

\* What is known of the head of a user's queue, and of what is behind it.
LEMMA UsersHead ==
  ASSUME TypeOK, NEW u \in Users, UserQueueOK(u), NEW queue, queue = user[u].queue,
         queue # <<>>
  PROVE  /\ Head(queue) \in Event /\ UserEventOK(u, Head(queue))
         /\ queue \in Seq(Event) /\ Tail(queue) \in Seq(Event) /\ Sorted(Tail(queue))
         /\ Len(Tail(queue)) <= QueueCapacity
         /\ \A i \in 1 .. Len(Tail(queue)) :
              Tail(queue)[i] \in Event /\ UserEventOK(u, Tail(queue)[i])
         /\ \A i \in 1 .. Len(Tail(queue)) :
              /\ Head(queue).ride <= Tail(queue)[i].ride
              /\ Head(queue).ride = Tail(queue)[i].ride =>
                   Head(queue).status <= Tail(queue)[i].status
         /\ \A i \in 1 .. Len(queue) :
              Head(queue).ride = queue[i].ride => Head(queue).status <= queue[i].status
<1>1. queue \in Seq(Event) /\ Sorted(queue) /\ Len(queue) <= QueueCapacity
  BY UserFields DEF UserQueueOK, TypeOK
<1>2. /\ Len(queue) \in Nat \ {0} /\ Head(queue) = queue[1] /\ Head(queue) \in Event
      /\ Tail(queue) \in Seq(Event) /\ Len(Tail(queue)) = Len(queue) - 1
      /\ \A i \in 1 .. Len(Tail(queue)) : Tail(queue)[i] = queue[i + 1] /\ i + 1 \in 1 .. Len(queue)
  BY <1>1, QueueShrinks
<1>3. /\ Sorted(Tail(queue))
      /\ \A i \in 1 .. Len(queue) :
           /\ Head(queue).ride <= queue[i].ride
           /\ Head(queue).ride = queue[i].ride => Head(queue).status <= queue[i].status
  BY <1>1, SortedShrinks
<1>4. \A i \in 1 .. Len(queue) : queue[i] \in Event /\ UserEventOK(u, queue[i])
  BY <1>1, EventFields DEF UserQueueOK
<1>5. 1 \in 1 .. Len(queue) /\ Len(Tail(queue)) <= QueueCapacity
  BY <1>1, <1>2, WorldAssumption
<1>. QED  BY <1>1, <1>2, <1>3, <1>4, <1>5, SMTT(40)

\* The statuses of a ride nobody holds and nobody rates.
LEMMA StatusesOfRide ==
  ASSUME WorldInv, NEW q \in Given, reqs[q].holder = NoOne, ~BeingRated(q)
  PROVE  \/ reqs[q].desired = rides[q].stage
         \/ rides[q].stage \in {Dispatching, Carrying} /\ reqs[q].desired = rides[q].stage + 1
         \/ rides[q].stage = Carrying /\ reqs[q].desired = Dispatched
<1>1. TypeOK /\ WorkOK(q)
  BY DEF WorldInv, RidesInv
<1>2. CASE ~Driven(q)
  BY <1>1, <1>2 DEF WorkOK, Unstarted, Finished
<1>3. CASE Driven(q)
  <2>1. UnderWay(q)
    BY <1>1, <1>3 DEF WorkOK
  <2>2. PICK c : c = rides[q].chair
    OBVIOUS
  <2>3. c # NoOne
    BY <1>3, <2>2 DEF Driven
  <2>. QED  BY <2>1, <2>2, <2>3 DEF UnderWay, Unstarted
<1>. QED  BY <1>2, <1>3

\* The desired status is COMPLETED only when the server has recorded it.
LEMMA DesiredLast ==
  ASSUME WorldInv, NEW q \in Given, reqs[q].desired = Completed
  PROVE  rides[q].stage = Completed
<1>1. TypeOK /\ WorkOK(q)
  BY DEF WorldInv, RidesInv
<1>2. CASE ~Driven(q)
  BY <1>1, <1>2 DEF WorkOK, Unstarted, Finished
<1>3. CASE Driven(q)
  <2>1. UnderWay(q)
    BY <1>1, <1>3 DEF WorkOK
  <2>2. rides[q].stage \in 1 .. 6
    BY <1>1, RideFields
  <2>. QED  BY <2>1, <2>2 DEF UnderWay, Unstarted
<1>. QED  BY <1>2, <1>3

\* A notification about the current ride is expected, however late it is.
LEMMA PresentIsExpected ==
  ASSUME WorldInv, NEW u \in Users, user[u].pc = "idle", NEW r \in Given, r = user[u].req,
         reqs[r].holder = NoOne, NEW e \in Event, UserEventOK(u, e), e.ride = r
  PROVE  Expected(reqs[r], e.status)
<1>1. TypeOK /\ RideOK(r) /\ ~BeingRated(r) /\ rides[r].user = u
  <2>1. UserOK(u) /\ TypeOK /\ RideOK(r)
    BY DEF WorldInv, UsersInv, RidesInv
  <2>2. rides[r].user = u
    BY <2>1, RideFields DEF UserOK
  <2>. QED  BY <2>1, <2>2 DEF BeingRated
<1>2. PICK told \in 1 .. 6, d \in 1 .. 6, n \in 1 .. 6, s \in 1 .. 6 :
        told = reqs[r].user /\ d = reqs[r].desired /\ n = rides[r].stage /\ s = e.status
  BY <1>1, RideFields, ZenonT(40) DEF Event, RequestStatus
<1>3. told <= s /\ s <= n
  <2>1. told <= s /\ s <= rides[r].app /\ rides[r].app <= n /\ rides[r].app \in 0 .. 6
    BY <1>1, <1>2, RideFields DEF UserEventOK, RideOK
  <2>. QED  BY <2>1
<1>4. (n >= 4 => told >= 3) /\ (n = 6 => told >= 5)
  BY <1>1, <1>2 DEF RideOK
<1>5. d = n \/ (n \in {2, 4} /\ d = n + 1) \/ (n = 4 /\ d = 3)
  BY <1>1, <1>2, StatusesOfRide
<1>6. s = told \/ s = d \/ <<told, d, s>> \in {<<1, 3, 2>>, <<3, 5, 4>>, <<3, 3, 4>>}
  <2>1. \/ s = told \/ s = d
        \/ told = 1 /\ d = 3 /\ s = 2
        \/ told = 3 /\ d = 5 /\ s = 4
        \/ told = 3 /\ d = 3 /\ s = 4
    BY <1>3, <1>4, <1>5
  <2>. QED  BY <2>1
<1>. QED  BY <1>2, <1>6 DEF Expected, Lags

\* Any other is the end of a past ride.
LEMMA PastIsOver ==
  ASSUME WorldInv, NEW u \in Users, NEW e \in Event, UserEventOK(u, e), e.ride # user[u].req
  PROVE  /\ e.status = Completed /\ reqs[e.ride].user = Completed /\ OfThePast(u, e)
         /\ user[u].req # Nothing => ~Expected(reqs[user[u].req], e.status)
<1>1. TypeOK /\ RidesInv /\ UserOK(u)
  BY DEF WorldInv, RidesInv, UsersInv
<1>2. /\ e.ride \in Given /\ rides[e.ride].user = u /\ reqs[e.ride].known
      /\ reqs[e.ride].user <= e.status /\ e.status \in 1 .. 6
  BY DEF UserEventOK, Event, RequestStatus
<1>3. reqs[e.ride].user = 6 /\ reqs[e.ride].desired = 6
  <2>1. OwnedOK(e.ride) /\ RideOK(e.ride)
    BY <1>1, <1>2 DEF RidesInv
  <2>. QED  BY <1>2, <2>1 DEF OwnedOK, RideOK
<1>4. e.status = 6
  BY <1>2, <1>3
<1>5. OfThePast(u, e)
  BY <1>2, <1>3, <1>4 DEF OfThePast, RidesOfUser, Given
<1>6. ASSUME user[u].req # Nothing
      PROVE  ~Expected(reqs[user[u].req], e.status)
  <2>1. PICK r : r = user[u].req
    OBVIOUS
  <2>2. reqs[r].user = 1
    BY <1>6, <2>1 DEF UserEventOK
  <2>3. r \in Given /\ RideOK(r)
    BY <1>1, <1>6, <2>1 DEF UserOK, RidesInv
  <2>4. reqs[r].desired # 6
    <3>1. rides[r].stage # 6
      BY <2>2, <2>3 DEF RideOK
    <3>. QED  BY <2>3, <3>1, DesiredLast
  <2>. QED  BY <1>4, <2>1, <2>2, <2>4 DEF Expected, Lags
<1>. QED  BY <1>3, <1>4, <1>5, <1>6

\* The number of a chair's rides that its users have rated, at a ride the
\* chair has accepted.
LEMMA EvaluatedAre ==
  ASSUME WorldInv, NEW r \in Given, rides[r].stage # Matching
  PROVE  /\ rides[r].stage # Completed =>
              EvaluatedRides(rides[r].chair) = Cardinality(Before(r))
         /\ reqs[r].desired = Completed /\ ~ChairWentOn(r) =>
              EvaluatedRides(rides[r].chair) = Cardinality(UpTo(r))
<1>1. TypeOK /\ RidesInv /\ OrderOK
  BY DEF WorldInv
<1>2. PICK c : c = rides[r].chair
  OBVIOUS
<1>3. c # NoOne
  BY <1>1, <1>2 DEF RidesInv, RideOK
<1>4. ASSUME NEW q \in RidesOfChair(c)
      PROVE  /\ q \in Given /\ rides[q].chair = c /\ q \in Nat /\ r \in Nat
             /\ reqs[q].evaluated <=> reqs[q].desired = 6
             /\ reqs[q].desired = 6 => rides[q].stage = 6
             /\ q < r => reqs[q].desired = 6
             /\ r < q => rides[r].stage = 6
  <2>1. q \in Given /\ rides[q].chair = c
    BY DEF RidesOfChair, Given
  <2>2. RideOK(q) /\ WorkOK(q)
    BY <1>1, <2>1 DEF RidesInv
  <2>3. ASSUME q < r
        PROVE  reqs[q].desired = 6
    <3>1. reqs[q].chair = 6
      BY <1>1, <1>2, <1>3, <2>1, <2>3 DEF OrderOK
    <3>2. ~UnderWay(q)
      BY <1>1, <2>1, <3>1, RideFields DEF UnderWay, Unstarted
    <3>. QED  BY <2>2, <3>1, <3>2 DEF WorkOK, Unstarted, Finished
  <2>4. r < q => rides[r].stage = 6
    BY <1>1, <1>2, <1>3, <2>1 DEF OrderOK
  <2>5. reqs[q].evaluated <=> reqs[q].desired = 6
    BY <2>2 DEF RideOK
  <2>. QED  BY <1>1, <2>1, <2>3, <2>4, <2>5, RideFields, DesiredLast
<1>5. ASSUME rides[r].stage # 6
      PROVE  {q \in RidesOfChair(c) : reqs[q].evaluated} = Before(r)
  <2>1. \A q \in RidesOfChair(c) : reqs[q].evaluated <=> q < r
    <3>1. ASSUME NEW q \in RidesOfChair(c)
          PROVE  reqs[q].evaluated <=> q < r
      <4>1. q < r \/ q = r \/ r < q
        BY <1>4
      <4>. QED  BY <1>4, <1>5, <4>1
    <3>. QED  BY <3>1
  <2>. QED  BY <1>2, <2>1 DEF Before
<1>6. ASSUME reqs[r].desired = 6, ~ChairWentOn(r)
      PROVE  {q \in RidesOfChair(c) : reqs[q].evaluated} = UpTo(r)
  <2>1. \A q \in RidesOfChair(c) : q > r => rides[q].stage # 6
    BY <1>2, <1>6 DEF ChairWentOn
  <2>2. \A q \in RidesOfChair(c) : reqs[q].evaluated <=> q <= r
    <3>1. ASSUME NEW q \in RidesOfChair(c)
          PROVE  reqs[q].evaluated <=> q <= r
      <4>1. q \in Nat /\ r \in Nat
        BY <1>4
      <4>2. CASE q > r
        BY <1>4, <2>1, <4>1, <4>2
      <4>3. CASE q = r
        BY <1>4, <1>6, <4>1, <4>3
      <4>4. CASE q < r
        BY <1>4, <4>1, <4>4
      <4>. QED  BY <4>1, <4>2, <4>3, <4>4
    <3>. QED  BY <3>1
  <2>. QED  BY <1>2, <2>2 DEF UpTo
<1>. QED  BY <1>2, <1>5, <1>6 DEF EvaluatedRides

\* An objection to a notification has its cause: the chair went on, or the
\* ENROUTE was lost and what the user remembers is an earlier ride's chair.
LEMMA ObjectionExplained ==
  ASSUME WorldInv, NEW u \in Users, user[u].queue # <<>>, NEW r \in Given, r = user[u].req,
         NEW e, e = Head(user[u].queue), e.ride = r, Expected(reqs[r], e.status),
         ~Accepts(u, e)
  PROVE  /\ e.status \notin {Matching, Dispatching}
         /\ \/ ChairWentOn(r)
            \/ /\ <<"user", r, Dispatching>> \in faults
               /\ \E q \in RidesOfUser(rides[r].user) : q < r
<1>0. PICK queue, v : queue = user[u].queue /\ v = user[u].validated
  OBVIOUS
<1>1. TypeOK /\ RidesInv /\ UserOK(u) /\ UserQueueOK(u) /\ ValidatedOK(u)
  BY DEF WorldInv, UsersInv, UserQueuesInv
<1>2. /\ e \in Event /\ UserEventOK(u, e) /\ queue \in Seq(Event)
      /\ \A i \in 1 .. Len(queue) : e.ride = queue[i].ride => e.status <= queue[i].status
  BY <1>0, <1>1, UsersHead
<1>3. r # Nothing /\ rides[r].user = u /\ Latest(u, r) /\ RideOK(r)
  BY <1>1, RideFields DEF UserOK, RidesInv
<1>4. PICK told \in 1 .. 6, d \in 1 .. 6, n \in 1 .. 6, s \in 1 .. 6, a \in 0 .. 6 :
        /\ told = reqs[r].user /\ d = reqs[r].desired /\ n = rides[r].stage /\ s = e.status
        /\ a = rides[r].app
  BY <1>1, <1>2, RideFields, ZenonT(40) DEF Event, RequestStatus
<1>5. told <= s /\ s <= a /\ a <= n /\ (n >= 4 => told >= 3) /\ (n = 6 => told >= 5)
  BY <1>2, <1>3, <1>4 DEF UserEventOK, RideOK
<1>6. /\ told # 1 => v.ride = r
      /\ a >= 2 => \/ v.ride = r \/ ChairWentOn(r)
                   \/ <<"user", r, Dispatching>> \in faults
                   \/ Holds(queue, r, Dispatching)
      /\ v.ride # 0 => v.ride \in RidesOfUser(u) /\ v.total = Cardinality(Before(v.ride))
  BY <1>0, <1>1, <1>3, <1>4 DEF ValidatedOK
<1>7. CASE s \in 3 .. 5 /\ v.ride # 0
  <2>1. v # [ride |-> r, total |-> e.total]
    BY <1>0, <1>4, <1>7, SMTT(40) DEF Accepts
  <2>2. e.total = Cardinality(Before(r))
    BY <1>2, <1>4, <1>7 DEF UserEventOK
  <2>3. v.ride # r
    <3>1. v \in [ride : {0} \cup Ids, total : 0 .. MaxRides]
      BY <1>0, <1>1, UserFields
    <3>. QED  BY <1>6, <1>7, <2>1, <2>2, <3>1
  <2>4. v.ride < r
    <3>1. v.ride \in RidesOfUser(u) /\ v.ride <= r /\ v.ride \in Nat /\ r \in Nat
      BY <1>1, <1>3, <1>6, <1>7, RideFields DEF Latest, RidesOfUser, TypeOK
    <3>. QED  BY <2>3, <3>1
  <2>5. ~Holds(queue, r, Dispatching)
    <3>1. ASSUME NEW i \in 1 .. Len(queue), queue[i].ride = r, queue[i].status = 2
          PROVE  FALSE
      <4>1. s <= 2
        BY <1>2, <1>4, <3>1
      <4>. QED  BY <1>7, <4>1
    <3>. QED  BY <3>1 DEF Holds
  <2>6. v.ride \in RidesOfUser(rides[r].user)
    BY <1>3, <1>6, <1>7
  <2>. QED  BY <1>4, <1>5, <1>6, <1>7, <2>3, <2>4, <2>5, <2>6
<1>8. CASE ~(s \in 3 .. 5 /\ v.ride # 0)
  <2>1. ~Validates(u, e)
    BY <1>0, <1>4, <1>8 DEF Accepts
  <2>2. s # 1 /\ e.total # EvaluatedRides(rides[r].chair)
    BY <1>4, <2>1 DEF Validates
  <2>3. CASE s = 6
    <3>1. n = 6 /\ d = 6
      <4>1. told = 6 => d = 6
        BY <1>3, <1>4 DEF RideOK
      <4>2. 6 \in {told, d}
        <5>1. e.status \in {told, d} \/ <<told, d, e.status>> \in Lags
          BY <1>4 DEF Expected
        <5>2. <<told, d, 6>> \notin Lags
          BY SMTT(40) DEF Lags
        <5>. QED  BY <1>4, <2>3, <5>1, <5>2
      <4>. QED  BY <1>5, <2>3, <4>1, <4>2
    <3>2. ChairWentOn(r) \/ e.total = Cardinality(UpTo(r))
      BY <1>2, <1>4, <2>3 DEF UserEventOK
    <3>3. rides[r].stage # Matching /\ reqs[r].desired = Completed
      BY <1>4, <3>1
    <3>4. ~ChairWentOn(r) => EvaluatedRides(rides[r].chair) = Cardinality(UpTo(r))
      BY <3>3, EvaluatedAre
    <3>5. ChairWentOn(r)
      BY <2>2, <3>2, <3>4
    <3>6. e.status \notin {Matching, Dispatching}
      BY <1>4, <2>3
    <3>. QED  BY <3>5, <3>6
  <2>4. CASE s # 6
    <3>1. s \in 2 .. 5
      BY <2>2, <2>4
    <3>2. e.total = Cardinality(Before(r))
      BY <1>2, <1>4, <3>1 DEF UserEventOK
    <3>3. n # 6
      <4>1. CASE s = 2
        BY <1>5, <4>1
      <4>2. CASE s \in 3 .. 5
        <5>1. v.ride # r
          BY <1>3, <1>8, <4>2
        <5>. QED  BY <1>5, <1>6, <5>1
      <4>. QED  BY <3>1, <4>1, <4>2
    <3>4. n # 1
      BY <1>5, <3>1
    <3>. QED  BY <1>4, <2>2, <3>2, <3>3, <3>4, EvaluatedAre
  <2>. QED  BY <2>3, <2>4
<1>. QED  BY <1>7, <1>8

\* The head of the queue is taken, and nothing changes but what is reported.
LEMMA UserOnlyTakes ==
  ASSUME WorldInv, NEW u \in Users, user[u].queue # <<>>,
         user' = [user EXCEPT ![u].queue = Tail(@)],
         rides' = rides, reqs' = reqs, chair' = chair, faults' = faults,
         stopped' = stopped, ErrorsOK,
         Head(user[u].queue).ride # user[u].req \/ Head(user[u].queue).status # Dispatching
  PROVE  WorldInv'
<1>0. PICK queue, v, r : queue = user[u].queue /\ v = user[u].validated /\ r = user[u].req
  OBVIOUS
<1>1. TypeOK /\ RidesInv /\ UserOK(u) /\ UserQueueOK(u) /\ ValidatedOK(u)
  BY DEF WorldInv, UsersInv, UserQueuesInv
<1>2. /\ queue \in Seq(Event) /\ Tail(queue) \in Seq(Event) /\ Sorted(Tail(queue))
      /\ Len(Tail(queue)) <= QueueCapacity
      /\ \A i \in 1 .. Len(Tail(queue)) : UserEventOK(u, Tail(queue)[i])
  BY <1>0, <1>1, UsersHead
<1>3. PICK t : t = Tail(queue)
  OBVIOUS
<1>4. PICK x : x = [user[u] EXCEPT !.queue = t]
  OBVIOUS
<1>5. /\ x \in User /\ x.pc = user[u].pc /\ x.req = user[u].req /\ x.conn = user[u].conn
      /\ x.validated = v /\ x.queue = t /\ Len(x.queue) <= QueueCapacity
  <2>1. user[u] \in User
    BY <1>1, UserFields
  <2>. QED  BY <1>0, <1>2, <1>3, <1>4, <2>1 DEF User
<1>6. /\ user' \in [Users -> User] /\ OnlyUser(u) /\ user'[u] = x
      /\ \A w \in Users : Len(user'[w].queue) <= QueueCapacity
  <2>1. user' = [user EXCEPT ![u] = x]
    BY <1>0, <1>3, <1>4
  <2>. QED  BY <1>1, <1>5, <2>1, UsersChange
<1>7. TypeOK'
  BY <1>1, <1>6, ErrorsType DEF TypeOK
<1>8. UserMoves(u)
  BY <1>5, <1>6 DEF UserMoves, SameRides
<1>9. /\ Given' = Given /\ RidesOfUser(u)' = RidesOfUser(u)
      /\ \A q : ChairWentOn(q)' = ChairWentOn(q)
      /\ \A q : Before(q)' = Before(q) /\ UpTo(q)' = UpTo(q)
      /\ \A q : Latest(u, q)' <=> Latest(u, q)
  BY DEF Given, RidesOfUser, ChairWentOn, RidesOfChair, Before, UpTo, Latest
<1>10. ASSUME NEW q \in Given, rides[q].user = u
       PROVE  RideOK(q)' /\ OwnedOK(q)'
  <2>1. RideOK(q) /\ OwnedOK(q)
    BY <1>1 DEF RidesInv
  <2>2. user'[u].req = user[u].req /\ user'[u].pc = user[u].pc
    BY <1>5, <1>6
  <2>. QED  BY <1>9, <1>10, <2>1, <2>2 DEF RideOK, OwnedOK
<1>11. UserOK(u)'
  BY <1>1, <1>5, <1>6, <1>9 DEF UserOK
<1>12. ASSUME NEW f, UserEventOK(u, f)
       PROVE  UserEventOK(u, f)'
  <2>1. user'[u].req = user[u].req
    BY <1>5, <1>6
  <2>. QED  BY <1>9, <1>12, <2>1 DEF UserEventOK
<1>13. UserQueueOK(u)'
  BY <1>2, <1>3, <1>5, <1>6, <1>12 DEF UserQueueOK
<1>14. Holds(queue, r, 2) => Holds(t, r, 2)
  BY <1>0, <1>2, <1>3, HoldsShrinks
<1>15. ValidatedOK(u)'
  <2>1. v.ride # Nothing => /\ v.ride \in RidesOfUser(u) /\ rides[v.ride].chair # NoOne
                            /\ v.total = Cardinality(Before(v.ride))
    BY <1>0, <1>1 DEF ValidatedOK
  <2>2. r # Nothing =>
          /\ reqs[r].user # Matching => v.ride = r
          /\ rides[r].app >= Dispatching =>
               \/ v.ride = r \/ ChairWentOn(r)
               \/ <<"user", r, Dispatching>> \in faults
               \/ Holds(t, r, Dispatching)
    BY <1>0, <1>1, <1>14 DEF ValidatedOK
  <2>3. /\ RidesOfUser(u)' = RidesOfUser(u) /\ ChairWentOn(r)' = ChairWentOn(r)
        /\ Before(v.ride)' = Before(v.ride)
    BY <1>9
  <2>4. user'[u].req = r /\ user'[u].validated = v /\ user'[u].queue = t
    BY <1>0, <1>5, <1>6
  <2>. QED  BY <2>1, <2>2, <2>3, <2>4 DEF ValidatedOK
<1>. QED  BY <1>7, <1>8, <1>10, <1>11, <1>13, <1>15, UserMovesKeeps

\* The user has been told status s of ride r.
SetsTold(r, s) == reqs' = [reqs EXCEPT ![r].user = s]

LEMMA ToldSet ==
  ASSUME TypeOK, NEW r \in Given, NEW s \in 1 .. 6, SetsTold(r, s)
  PROVE  /\ reqs' \in Seq(Request) /\ Len(reqs') = Len(reqs)
         /\ \A q \in Given : q # r => reqs'[q] = reqs[q]
         /\ reqs'[r].user = s /\ reqs'[r].known = reqs[r].known
         /\ reqs'[r].desired = reqs[r].desired /\ reqs'[r].chair = reqs[r].chair
         /\ reqs'[r].holder = reqs[r].holder /\ reqs'[r].evaluated = reqs[r].evaluated
<1>1. PICK x : x = [reqs[r] EXCEPT !.user = s]
  OBVIOUS
<1>2. reqs[r] \in Request
  BY RideFields
<1>3. /\ x \in Request /\ x.user = s /\ x.known = reqs[r].known
      /\ x.desired = reqs[r].desired /\ x.chair = reqs[r].chair
      /\ x.holder = reqs[r].holder /\ x.evaluated = reqs[r].evaluated
  BY <1>1, <1>2 DEF Request, RequestStatus
<1>4. reqs' = [reqs EXCEPT ![r] = x]
  BY <1>1 DEF SetsTold
<1>. QED  BY <1>3, <1>4, ReqsChange

\* ... which it was told before.
LEMMA ToldAgain ==
  ASSUME TypeOK, NEW r \in Given, SetsTold(r, Completed), reqs[r].user = Completed
  PROVE  reqs' = reqs
<1>1. PICK x : x = [reqs[r] EXCEPT !.user = 6]
  OBVIOUS
<1>2. reqs[r] \in Request
  BY RideFields
<1>3. x = reqs[r]
  BY <1>1, <1>2 DEF Request
<1>4. reqs' = [reqs EXCEPT ![r] = x]
  BY <1>1 DEF SetsTold
<1>5. reqs \in Seq(Request) /\ r \in 1 .. Len(reqs)
  BY DEF TypeOK, Given
<1>. QED  BY <1>3, <1>4, <1>5

\* The user is told the next status of the current ride.
LEMMA UserHears ==
  ASSUME WorldInv, NEW u \in Users, user[u].pc = "idle", user[u].queue # <<>>,
         NEW r \in Given, r = user[u].req, NEW e, e = Head(user[u].queue), e.ride = r,
         Expected(reqs[r], e.status), NEW w, w = Remembers(u, e),
         user' = [[user EXCEPT ![u].queue = Tail(@)] EXCEPT ![u].validated = w],
         SetsTold(r, e.status), UNCHANGED errorVars,
         rides' = rides, chair' = chair, faults' = faults, stopped' = stopped
  PROVE  WorldInv'
<1>0. PICK queue, v : queue = user[u].queue /\ v = user[u].validated
  OBVIOUS
<1>1. TypeOK /\ RidesInv /\ UserOK(u) /\ UserQueueOK(u) /\ ValidatedOK(u)
  BY DEF WorldInv, UsersInv, UserQueuesInv
<1>2. /\ e \in Event /\ UserEventOK(u, e)
      /\ queue \in Seq(Event) /\ Tail(queue) \in Seq(Event) /\ Sorted(Tail(queue))
      /\ Len(Tail(queue)) <= QueueCapacity
      /\ \A i \in 1 .. Len(Tail(queue)) :
           Tail(queue)[i] \in Event /\ UserEventOK(u, Tail(queue)[i])
      /\ \A i \in 1 .. Len(Tail(queue)) :
           /\ e.ride <= Tail(queue)[i].ride
           /\ e.ride = Tail(queue)[i].ride => e.status <= Tail(queue)[i].status
  BY <1>0, <1>1, UsersHead, SMTT(40)
<1>3. r # Nothing /\ rides[r].user = u /\ Latest(u, r) /\ RideOK(r) /\ reqs[r].known
  BY <1>1, RideFields DEF UserOK, RidesInv
<1>4. PICK told \in 1 .. 6, d \in 1 .. 6, n \in 1 .. 6, s \in 1 .. 6, a \in 0 .. 6 :
        /\ told = reqs[r].user /\ d = reqs[r].desired /\ n = rides[r].stage /\ s = e.status
        /\ a = rides[r].app
  BY <1>1, <1>2, RideFields, ZenonT(40) DEF Event, RequestStatus
<1>5. told <= s /\ s <= a /\ a <= n /\ (n >= 4 => told >= 3) /\ (n = 6 => told >= 5)
  BY <1>2, <1>3, <1>4, ZenonT(40) DEF UserEventOK, RideOK
<1>6. s = 6 => d = 6
  <2>1. told = 6 => d = 6
    BY <1>3, <1>4 DEF RideOK
  <2>2. e.status \in {told, d} \/ <<told, d, e.status>> \in Lags
    BY <1>4, SMTT(40) DEF Expected
  <2>3. <<told, d, 6>> \notin Lags
    BY DEF Lags
  <2>. QED  BY <1>4, <2>1, <2>2, <2>3
<1>7. /\ w \in [ride : {Nothing} \cup Ids, total : 0 .. MaxRides]
      /\ s \in 2 .. 5 => w.ride = r /\ w.total = e.total
      /\ s \notin 2 .. 5 => w = v
  <2>1. CASE s \in 2 .. 5
    <3>1. w = [ride |-> r, total |-> e.total]
      BY <1>4, <2>1 DEF Remembers
    <3>2. r \in Ids /\ e.total \in 0 .. MaxRides
      BY <1>1, <1>2, RideFields DEF Event
    <3>. QED  BY <2>1, <3>1, <3>2
  <2>2. CASE s \notin 2 .. 5
    <3>1. w = v
      BY <1>0, <1>4, <2>2 DEF Remembers
    <3>. QED  BY <1>0, <1>1, <2>2, <3>1, UserFields
  <2>. QED  BY <2>1, <2>2
<1>8. PICK t : t = Tail(queue)
  OBVIOUS
<1>9. PICK x : x = [user[u] EXCEPT !.queue = t, !.validated = w]
  OBVIOUS
<1>10. /\ x \in User /\ x.pc = "idle" /\ x.req = r /\ x.conn = user[u].conn
       /\ x.validated = w /\ x.queue = t /\ Len(x.queue) <= QueueCapacity
  <2>1. user[u] \in User
    BY <1>1, UserFields, SMTT(40)
  <2>. QED  BY <1>2, <1>7, <1>8, <1>9, <2>1 DEF User
<1>11. /\ user' \in [Users -> User] /\ OnlyUser(u) /\ user'[u] = x
       /\ \A z \in Users : Len(user'[z].queue) <= QueueCapacity
  <2>1. user' = [user EXCEPT ![u] = x]
    BY <1>0, <1>1, <1>8, <1>9 DEF TypeOK
  <2>. QED  BY <1>1, <1>10, <2>1, UsersChange, ZenonT(40)
<1>12. /\ reqs' \in Seq(Request) /\ Len(reqs') = Len(reqs)
       /\ \A q \in Given : q # r => reqs'[q] = reqs[q]
       /\ reqs'[r].user = s /\ reqs'[r].known = reqs[r].known
       /\ reqs'[r].desired = reqs[r].desired /\ reqs'[r].chair = reqs[r].chair
       /\ reqs'[r].holder = reqs[r].holder /\ reqs'[r].evaluated = reqs[r].evaluated
  <2>1. SetsTold(r, s)
    BY <1>4
  <2>. QED  BY <1>1, <2>1, ToldSet
<1>13. ErrorsOK
  BY NothingErrs
<1>14. TypeOK'
  BY <1>1, <1>11, <1>12, <1>13, ErrorsType DEF TypeOK
<1>15. UserMoves(u)
  <2>1. \A q \in Given :
          /\ reqs'[q].desired = reqs[q].desired /\ reqs'[q].chair = reqs[q].chair
          /\ reqs'[q].holder = reqs[q].holder /\ (reqs[q].known => reqs'[q].known)
          /\ rides[q].user # u => reqs'[q] = reqs[q]
    BY <1>3, <1>12
  <2>. QED  BY <1>11, <2>1 DEF UserMoves, SameRides
<1>16. /\ Given' = Given /\ RidesOfUser(u)' = RidesOfUser(u)
       /\ \A q : ChairWentOn(q)' = ChairWentOn(q)
       /\ \A q : Before(q)' = Before(q) /\ UpTo(q)' = UpTo(q)
       /\ \A q : Latest(u, q)' <=> Latest(u, q)
  BY DEF Given, RidesOfUser, ChairWentOn, RidesOfChair, Before, UpTo, Latest
<1>17. ASSUME NEW q \in Given, rides[q].user = u
       PROVE  RideOK(q)' /\ OwnedOK(q)'
  <2>1. RideOK(q) /\ OwnedOK(q)
    BY <1>1 DEF RidesInv
  <2>2. user'[u].req = r /\ user'[u].pc = user[u].pc
    BY <1>10, <1>11
  <2>3. CASE q # r
    <3>1. reqs'[q] = reqs[q]
      BY <1>12, <2>3
    <3>. QED  BY <1>16, <1>17, <2>1, <2>2, <2>3, <3>1 DEF RideOK, OwnedOK
  <2>4. CASE q = r
    <3>1. OwnedOK(r)'
      BY <1>3, <1>12, <2>2, SMTT(40) DEF OwnedOK
    <3>2. RideOK(r)'
      <4>1. /\ s <= rides[r].app
            /\ rides[r].stage >= Carrying => s >= Dispatched
            /\ rides[r].stage = Completed => s >= Arrived
            /\ s = Completed => reqs[r].desired = Completed
        BY <1>4, <1>5, <1>6
      <4>2. RideOK(r) /\ reqs'[r].user = s
        BY <1>3, <1>12, SMTT(40)
      <4>. QED  BY <1>12, <4>1, <4>2, SMTT(40) DEF RideOK
    <3>. QED  BY <2>4, <3>1, <3>2, SMTT(40)
  <2>. QED  BY <2>3, <2>4
<1>18. UserOK(u)'
  <2>1. ASSUME user[u].conn = "closing"
        PROVE  \E q \in RidesOfUser(u)' : reqs'[q].user = 6
    <3>1. PICK q \in RidesOfUser(u) : reqs[q].user = 6
      BY <1>1, <2>1 DEF UserOK
    <3>2. q \in Given
      BY <3>1 DEF RidesOfUser, Given
    <3>3. reqs'[q].user = 6
      <4>1. CASE q = r
        <5>1. told = 6
          BY <1>4, <3>1, <4>1
        <5>2. s = 6
          BY <1>5, <5>1
        <5>. QED  BY <1>12, <4>1, <5>2
      <4>2. CASE q # r
        <5>1. reqs'[q] = reqs[q]
          BY <1>12, <3>2, <4>2
        <5>. QED  BY <3>1, <5>1
      <4>. QED  BY <4>1, <4>2
    <3>. QED  BY <1>16, <3>1, <3>3
  <2>2. Latest(u, r)' /\ r \in Given'
    BY <1>3, <1>16
  <2>3. user[u].conn # "open" => rides[r].app = 0
    BY <1>1, <1>3 DEF UserOK
  <2>. QED  BY <1>3, <1>10, <1>11, <1>12, <2>1, <2>2, <2>3 DEF UserOK
<1>19. ASSUME NEW i \in 1 .. Len(t)
       PROVE  UserEventOK(u, t[i])'
  <2>1. PICK f \in Event : /\ f = t[i] /\ UserEventOK(u, f) /\ e.ride <= f.ride
                           /\ e.ride = f.ride => e.status <= f.status
    BY <1>2, <1>8
  <2>2. /\ f.ride \in Given /\ rides[f.ride].user = u /\ reqs[f.ride].known
        /\ reqs[f.ride].user <= f.status
    BY <2>1 DEF UserEventOK
  <2>3. f.ride = r
    <3>1. f.ride \in RidesOfUser(u) /\ f.ride \in Nat /\ r \in Nat
      BY <1>1, <2>2, RideFields DEF RidesOfUser, Given
    <3>2. f.ride <= r
      BY <1>3, <3>1, SMTT(40) DEF Latest
    <3>. QED  BY <2>1, <3>1, <3>2
  <2>4. reqs'[r].user <= f.status /\ reqs'[r].known
    BY <1>3, <1>4, <1>12, <2>1, <2>3
  <2>5. user'[u].req = r
    BY <1>10, <1>11
  <2>6. Before(r)' = Before(r) /\ UpTo(r)' = UpTo(r) /\ ChairWentOn(r)' = ChairWentOn(r)
    BY <1>16, SMTT(40)
  <2>7. UserEventOK(u, f)'
    BY <1>16, <2>1, <2>2, <2>3, <2>4, <2>5, <2>6 DEF UserEventOK
  <2>. QED  BY <2>1, <2>7
<1>20. UserQueueOK(u)'
  BY <1>2, <1>8, <1>10, <1>11, <1>19 DEF UserQueueOK
<1>21. ValidatedOK(u)'
  <2>1. v.ride # Nothing => /\ v.ride \in RidesOfUser(u) /\ rides[v.ride].chair # NoOne
                            /\ v.total = Cardinality(Before(v.ride))
    BY <1>0, <1>1 DEF ValidatedOK
  <2>2. w.ride # Nothing => /\ w.ride \in RidesOfUser(u) /\ rides[w.ride].chair # NoOne
                            /\ w.total = Cardinality(Before(w.ride))
    <3>1. CASE s \in 2 .. 5
      <4>1. e.total = Cardinality(Before(r))
        BY <1>2, <1>4, <3>1, ZenonT(40) DEF UserEventOK
      <4>2. rides[r].chair # NoOne
        BY <1>3, <1>4, <1>5, <3>1 DEF RideOK
      <4>3. r \in RidesOfUser(u)
        BY <1>3 DEF RidesOfUser, Given
      <4>4. w.ride = r /\ w.total = e.total
        BY <1>7, <3>1
      <4>. QED  BY <4>1, <4>2, <4>3, <4>4
    <3>2. CASE s \notin 2 .. 5
      BY <1>7, <2>1, <3>2, SMTT(40)
    <3>. QED  BY <3>1, <3>2, SMTT(40)
  <2>3. told # 1 => v.ride = r
    BY <1>0, <1>1, <1>3, <1>4 DEF ValidatedOK
  <2>4. s # 1 => w.ride = r
    <3>1. CASE s \in 2 .. 5
      BY <1>7, <3>1
    <3>2. CASE s = 6
      BY <1>5, <1>7, <2>3, <3>2
    <3>. QED  BY <3>1, <3>2
  <2>5. ASSUME a >= 2
        PROVE  \/ w.ride = r \/ ChairWentOn(r)
               \/ <<"user", r, Dispatching>> \in faults
               \/ Holds(t, r, Dispatching)
    <3>1. CASE s # 1
      BY <2>4, <3>1
    <3>2. CASE s = 1
      <4>1. w = v
        BY <1>7, <3>2, SMTT(40)
      <4>2. \/ v.ride = r \/ ChairWentOn(r)
            \/ <<"user", r, Dispatching>> \in faults
            \/ Holds(queue, r, Dispatching)
        BY <1>0, <1>1, <1>3, <1>4, <2>5 DEF ValidatedOK
      <4>3. Holds(queue, r, Dispatching) => Holds(t, r, Dispatching)
        <5>1. Head(queue).status # 2 /\ queue # <<>>
          BY <1>0, <1>4, <3>2
        <5>. QED  BY <1>2, <1>8, <5>1, HoldsShrinks
      <4>. QED  BY <4>1, <4>2, <4>3
    <3>. QED  BY <3>1, <3>2
  <2>6. /\ RidesOfUser(u)' = RidesOfUser(u) /\ ChairWentOn(r)' = ChairWentOn(r)
        /\ Before(w.ride)' = Before(w.ride)
    BY <1>16
  <2>7. user'[u].req = r /\ user'[u].validated = w /\ user'[u].queue = t
    BY <1>10, <1>11
  <2>8. reqs'[r].user # Matching => w.ride = r
    BY <1>12, <2>4
  <2>9. rides[r].app >= Dispatching =>
          \/ w.ride = r \/ ChairWentOn(r)
          \/ <<"user", r, Dispatching>> \in faults
          \/ Holds(t, r, Dispatching)
    BY <1>4, <2>5, SMTT(40)
  <2>10. w.ride # Nothing =>
           /\ w.ride \in RidesOfUser(u)' /\ rides'[w.ride].chair # NoOne
           /\ w.total = Cardinality(Before(w.ride)')
    BY <2>2, <2>6
  <2>11. rides'[r].app >= Dispatching =>
           \/ w.ride = r \/ ChairWentOn(r)'
           \/ <<"user", r, Dispatching>> \in faults'
           \/ Holds(t, r, Dispatching)
    BY <2>6, <2>9
  <2>. QED  BY <2>7, <2>8, <2>10, <2>11 DEF ValidatedOK
<1>. QED  BY <1>13, <1>14, <1>15, <1>17, <1>18, <1>20, <1>21, UserMovesKeeps

LEMMA UserHandleKeeps ==
  ASSUME WorldInv, NEW u \in Users, UserHandle(u), stopped' = stopped
  PROVE  WorldInv'
<1>0. PICK r, e : r = user[u].req /\ e = Head(user[u].queue)
  BY SMTT(40)
<1>1. /\ user[u].pc = "idle" /\ user[u].queue # <<>>
      /\ r # Nothing => reqs[r].holder = NoOne
      /\ rides' = rides /\ chair' = chair /\ faults' = faults
  BY <1>0 DEF UserHandle
<1>2. TypeOK /\ UserOK(u) /\ UserQueueOK(u)
  BY DEF WorldInv, UsersInv, UserQueuesInv
<1>3. e \in Event /\ UserEventOK(u, e)
  BY <1>0, <1>1, <1>2, UsersHead
<1>4. e.ride \in Given /\ e.ride # Nothing
  BY <1>2, <1>3, RideFields DEF UserEventOK
<1>5. r # Nothing => r \in Given
  BY <1>0, <1>2 DEF UserOK
<1>6. e.ride = r => r # Nothing /\ Expected(reqs[r], e.status)
  BY <1>0, <1>1, <1>3, <1>4, PresentIsExpected
<1>7. e.ride # r => /\ OfThePast(u, e) /\ reqs[e.ride].user = Completed
                    /\ r # Nothing => ~Expected(reqs[r], e.status)
  BY <1>0, <1>3, PastIsOver
<1>8. CASE /\ r # Nothing /\ Expected(reqs[r], e.status) /\ Accepts(u, e)
           /\ user' = [[user EXCEPT ![u].queue = Tail(@)] EXCEPT ![u].validated = Remembers(u, e)]
           /\ reqs' = [reqs EXCEPT ![r].user = e.status]
           /\ UNCHANGED errorVars
  <2>1. e.ride = r /\ r \in Given
    BY <1>5, <1>7, <1>8
  <2>2. SetsTold(r, e.status)
    BY <1>8 DEF SetsTold
  <2>3. PICK w : w = Remembers(u, e)
    OBVIOUS
  <2>4. user' = [[user EXCEPT ![u].queue = Tail(@)] EXCEPT ![u].validated = w]
    BY <1>8, <2>3
  <2>5. Expected(reqs[r], e.status) /\ UNCHANGED errorVars
    BY <1>8
  <2>. HIDE <1>8
  <2>. QED  BY <1>0, <1>1, <2>1, <2>2, <2>3, <2>4, <2>5, UserHears
<1>9. CASE /\ r # Nothing /\ Expected(reqs[r], e.status) /\ ~Accepts(u, e)
           /\ user' = [user EXCEPT ![u].queue = Tail(@)]
           /\ Report("UserReceivedDataIsWrong", e.ride)
           /\ reqs' = reqs
  <2>1. e.ride = r /\ r \in Given
    BY <1>5, <1>7, <1>9
  <2>2. /\ e.status \notin {Matching, Dispatching}
        /\ \/ ChairWentOn(r)
           \/ /\ <<"user", r, Dispatching>> \in faults
              /\ \E q \in RidesOfUser(rides[r].user) : q < r
    BY <1>0, <1>1, <1>9, <2>1, ObjectionExplained
  <2>3. /\ ChairWentOn(r)' = ChairWentOn(r) /\ rides' = rides /\ faults' = faults
        /\ RidesOfUser(rides[r].user)' = RidesOfUser(rides[r].user)
    BY <1>1 DEF ChairWentOn, RidesOfUser, RidesOfChair
  <2>4. Explained("UserReceivedDataIsWrong", r)'
    BY <2>2, <2>3 DEF Explained
  <2>5. r \in Given'
    BY <1>1, <2>1 DEF Given
  <2>6. ErrorsOK
    BY <1>9, <2>1, <2>4, <2>5 DEF ErrorsOK
  <2>7. user' = [user EXCEPT ![u].queue = Tail(@)] /\ reqs' = reqs
    BY <1>9
  <2>. QED  BY <1>0, <1>1, <2>2, <2>6, <2>7, UserOnlyTakes
<1>10. CASE /\ r # Nothing => ~Expected(reqs[r], e.status)
            /\ user' = [user EXCEPT ![u].queue = Tail(@)]
            /\ reqs' = [reqs EXCEPT ![e.ride].user = Completed]
            /\ UNCHANGED errorVars
  <2>1. e.ride # r
    BY <1>6, <1>10
  <2>2. SetsTold(e.ride, Completed)
    BY <1>10 DEF SetsTold
  <2>3. reqs' = reqs
    BY <1>2, <1>4, <1>7, <2>1, <2>2, ToldAgain
  <2>4. ErrorsOK /\ user' = [user EXCEPT ![u].queue = Tail(@)]
    BY <1>10, NothingErrs
  <2>. QED  BY <1>0, <1>1, <2>1, <2>3, <2>4, UserOnlyTakes
<1>11. ~(/\ r # Nothing => ~Expected(reqs[r], e.status)
         /\ ~OfThePast(u, e))
  BY <1>6, <1>7
<1>. QED  BY <1>0, <1>8, <1>9, <1>10, <1>11, ZenonT(40) DEF UserHandle

-----------------------------------------------------------------------------
(* A ride is requested, and gets a chair.                                  *)

\* The ride that is requested.
NewRide(u) == [user |-> u, chair |-> NoOne, stage |-> Matching, app |-> 0, chr |-> 0]
NewRequest == [known |-> FALSE, desired |-> Matching, chair |-> Matching, user |-> Matching,
               holder |-> NoOne, evaluated |-> FALSE, paid |-> FALSE]

LEMMA UserBookKeeps ==
  ASSUME WorldInv, NEW u \in Users, UserBook(u), stopped' = stopped
  PROVE  WorldInv'
<1>1. /\ TypeOK /\ RidesInv /\ ChairsInv /\ UsersInv /\ OrderOK
      /\ ChairQueuesInv /\ UserQueuesInv /\ UserOK(u)
  BY DEF WorldInv, UsersInv
<1>2. /\ user[u].pc = "idle" /\ user[u].req = Nothing /\ Len(rides) < MaxRides
      /\ chair' = chair /\ UNCHANGED errorVars /\ faults' = faults
      /\ user' = [user EXCEPT ![u].pc = "booked"]
  BY DEF UserBook
<1>3. PICK new, ask : new = NewRide(u) /\ ask = NewRequest
  OBVIOUS
<1>4. /\ new \in Ride /\ new.user = u /\ new.chair = NoOne /\ new.stage = 1
      /\ new.app = 0 /\ new.chr = 0
  BY <1>3 DEF NewRide, Ride, RequestStatus
<1>5. /\ ask \in Request /\ ~ask.known /\ ask.desired = 1 /\ ask.chair = 1 /\ ask.user = 1
      /\ ~ask.evaluated
  BY <1>3 DEF NewRequest, Request, RequestStatus
<1>6. rides' = Append(rides, new) /\ reqs' = Append(reqs, ask)
  BY <1>3 DEF UserBook, NewRide, NewRequest
<1>7. PICK n : n = Len(rides) + 1
  OBVIOUS
<1>8. rides \in Seq(Ride) /\ reqs \in Seq(Request) /\ Len(rides) \in Nat /\ Len(reqs) = Len(rides)
  BY <1>1 DEF TypeOK
<1>9. /\ rides' \in Seq(Ride) /\ Len(rides') = n /\ rides'[n] = new
      /\ reqs' \in Seq(Request) /\ Len(reqs') = n /\ reqs'[n] = ask
      /\ \A q \in Given : rides'[q] = rides[q] /\ reqs'[q] = reqs[q]
  BY <1>4, <1>5, <1>6, <1>7, <1>8 DEF Given
<1>10. /\ n \in Nat /\ n \notin Given /\ \A q : q \in Given' <=> q \in Given \/ q = n
       /\ \A q \in Given : q \in Nat /\ q < n
  BY <1>7, <1>8, <1>9 DEF Given
<1>11. PICK x : x = [user[u] EXCEPT !.pc = "booked"]
  OBVIOUS
<1>12. /\ x \in User /\ x.pc = "booked" /\ x.req = Nothing /\ x.conn = user[u].conn
       /\ x.validated = user[u].validated /\ x.queue = user[u].queue
       /\ Len(x.queue) <= QueueCapacity
  <2>1. user[u] \in User /\ Len(user[u].queue) <= QueueCapacity
    BY <1>1, UserFields DEF TypeOK
  <2>. QED  BY <1>2, <1>11, <2>1 DEF User
<1>13. /\ user' \in [Users -> User] /\ OnlyUser(u) /\ user'[u] = x
       /\ \A v \in Users : Len(user'[v].queue) <= QueueCapacity
  <2>1. user' = [user EXCEPT ![u] = x]
    BY <1>2, <1>11
  <2>. QED  BY <1>1, <1>12, <2>1, UsersChange
<1>14. ErrorsOK
  BY <1>2, NothingErrs
<1>15. TypeOK'
  <2>1. n <= MaxRides
    BY <1>2, <1>7, <1>8, WorldAssumption
  <2>. QED  BY <1>1, <1>2, <1>9, <1>13, <1>14, <2>1, ErrorsType DEF TypeOK
<1>16. Grows
  <2>1. \A q \in Given : rides[q].stage <= rides[q].stage
    BY <1>1, RideFields
  <2>. QED  BY <1>2, <1>7, <1>8, <1>9, <2>1 DEF Grows
<1>17. \A v \in Users : v # u => RidesOfUser(v)' = RidesOfUser(v) /\ user'[v] = user[v]
  <2>1. ASSUME NEW v \in Users, v # u
        PROVE  RidesOfUser(v)' = RidesOfUser(v)
    <3>1. \A q : q \in RidesOfUser(v)' <=> q \in RidesOfUser(v)
      BY <1>4, <1>9, <1>10, <2>1 DEF RidesOfUser, Given
    <3>. QED  BY <3>1 DEF RidesOfUser
  <2>. QED  BY <1>13, <2>1 DEF OnlyUser
<1>18. ASSUME NEW q \in Given
       PROVE  WorkOK(q)' /\ RideOK(q)' /\ OwnedOK(q)'
  <2>1. WorkOK(q) /\ RideOK(q) /\ OwnedOK(q) /\ rides'[q] = rides[q] /\ reqs'[q] = reqs[q]
    BY <1>1, <1>9 DEF RidesInv
  <2>2. rides[q].user \in Users /\ q # Nothing
    BY <1>1, RideFields
  <2>3. BeingRated(q)' <=> BeingRated(q)
    BY <1>2, <1>12, <1>13, <2>1, <2>2 DEF BeingRated, OnlyUser
  <2>4. /\ Driven(q)' <=> Driven(q)
        /\ Unstarted(q)' <=> Unstarted(q)
        /\ Finished(q)' <=> Finished(q)
    BY <1>2, <2>1 DEF Driven, Unstarted, Finished
  <2>5. UnderWay(q) => UnderWay(q)'
    BY <1>2, <2>1, <2>3, <2>4 DEF UnderWay
  <2>6. WorkOK(q)'
    BY <1>2, <2>1, <2>4, <2>5 DEF WorkOK
  <2>7. RideOK(q)'
    BY <2>1 DEF RideOK
  <2>8. CASE rides[q].user = u
    <3>1. reqs[q].known /\ reqs[q].user = 6
      BY <1>2, <2>1, <2>2, <2>8 DEF OwnedOK
    <3>2. OwnedOK(q)'
      BY <2>1, <3>1 DEF OwnedOK
    <3>. QED  BY <2>6, <2>7, <3>2
  <2>9. CASE rides[q].user # u
    <3>1. OwnedOK(q)'
      BY <1>17, <2>1, <2>2, <2>9 DEF OwnedOK, Latest
    <3>. QED  BY <2>6, <2>7, <3>1
  <2>. QED  BY <2>8, <2>9
<1>19. WorkOK(n)' /\ RideOK(n)' /\ OwnedOK(n)'
  <2>1. WorkOK(n)'
    BY <1>4, <1>5, <1>9 DEF WorkOK, Driven, Unstarted
  <2>2. RideOK(n)'
    BY <1>4, <1>5, <1>9 DEF RideOK
  <2>3. Latest(u, n)'
    BY <1>10 DEF Latest, RidesOfUser, Given
  <2>4. OwnedOK(n)'
    BY <1>4, <1>5, <1>9, <1>12, <1>13, <2>3 DEF OwnedOK
  <2>. QED  BY <2>1, <2>2, <2>4
<1>20. RidesInv'
  BY <1>10, <1>18, <1>19 DEF RidesInv
<1>21. ASSUME NEW d \in Chairs
       PROVE  ChairOK(d)' /\ ChairQueueOK(d)'
  <2>1. ChairOK(d)'
    BY <1>1, <1>2, <1>9, <1>15, <1>16, ChairStays DEF ChairsInv
  <2>2. ChairQueueOK(d)'
    BY <1>1, <1>2, <1>9, <1>15, <1>16, ChairQueueStays DEF ChairsInv, ChairQueuesInv
  <2>. QED  BY <2>1, <2>2
<1>22. UserOK(u)'
  <2>1. n \in RidesOfUser(u)' /\ ~reqs'[n].known
    BY <1>4, <1>5, <1>9, <1>10 DEF RidesOfUser, Given
  <2>2. user[u].conn # "open"
    BY <1>1, <1>2 DEF UserOK
  <2>3. user[u].conn = "closing" => \E q \in RidesOfUser(u)' : reqs'[q].user = 6
    <3>1. ASSUME NEW q \in RidesOfUser(u)
          PROVE  q \in RidesOfUser(u)' /\ reqs'[q].user = reqs[q].user
      <4>1. q \in Given /\ rides[q].user = u
        BY DEF RidesOfUser, Given
      <4>. QED  BY <1>9, <1>10, <4>1 DEF RidesOfUser, Given
    <3>. QED  BY <1>1, <3>1 DEF UserOK
  <2>. QED  BY <1>12, <1>13, <2>1, <2>2, <2>3 DEF UserOK
<1>23. ASSUME NEW v \in Users, v # u
       PROVE  UserOK(v)'
  <2>1. UserOK(v) /\ user'[v] = user[v] /\ RidesOfUser(v)' = RidesOfUser(v)
    BY <1>1, <1>17, <1>23 DEF UsersInv
  <2>2. \A q \in RidesOfUser(v) : q \in Given
    BY DEF RidesOfUser, Given
  <2>3. PICK r : r = user[v].req
    OBVIOUS
  <2>4. r # Nothing => /\ r \in Given /\ r \in Given' /\ rides'[r] = rides[r] /\ reqs'[r] = reqs[r]
                       /\ Latest(v, r)' <=> Latest(v, r)
    BY <1>9, <1>10, <2>1, <2>3 DEF UserOK, Latest
  <2>5. user[v].pc = "booked" => \E q \in RidesOfUser(v)' : ~reqs'[q].known
    BY <1>9, <2>1, <2>2 DEF UserOK
  <2>6. user[v].conn = "closing" => \E q \in RidesOfUser(v)' : reqs'[q].user = Completed
    BY <1>9, <2>1, <2>2 DEF UserOK
  <2>7. user[v].pc \in {"rated", "refused"} => r # Nothing
    BY <2>1, <2>3 DEF UserOK
  <2>8. r # Nothing => /\ rides'[r].user = v /\ reqs'[r].known
                       /\ Latest(v, r)' /\ user[v].pc # "booked"
                       /\ user[v].conn # "open" => rides'[r].app = 0
    BY <2>1, <2>3, <2>4 DEF UserOK
  <2>9. r = Nothing => user[v].pc \in {"idle", "booked"} /\ user[v].conn # "open"
    BY <2>1, <2>3 DEF UserOK
  <2>10. user[v].pc = "rated" => /\ rides'[r].stage = Completed /\ reqs'[r].desired = Arrived
                                 /\ reqs'[r].holder = v
                                 /\ reqs'[r].paid \/ <<"unpaid", r, Arrived>> \in faults'
    <3>1. user[v].pc = "rated" => rides'[r] = rides[r] /\ reqs'[r] = reqs[r]
      BY <2>4, <2>7
    <3>. QED  BY <1>2, <2>1, <2>3, <3>1 DEF UserOK
  <2>11. user[v].pc = "refused" => <<"refused", r, Arrived>> \in faults' /\ rides'[r].stage >= Arrived
    <3>1. user[v].pc = "refused" => rides'[r] = rides[r]
      BY <2>4, <2>7
    <3>. QED  BY <1>2, <2>1, <2>3, <3>1 DEF UserOK
  <2>. QED  BY <2>1, <2>3, <2>4, <2>5, <2>6, <2>8, <2>9, <2>10, <2>11 DEF UserOK
<1>24. ASSUME NEW v \in Users
       PROVE  UserQueueOK(v)' /\ ValidatedOK(v)'
  <2>1. /\ user'[v].queue = user[v].queue /\ user'[v].validated = user[v].validated
        /\ user'[v].req = user[v].req
    BY <1>2, <1>12, <1>13 DEF OnlyUser
  <2>2. \A q \in Given :
          /\ rides'[q].app = rides[q].app
          /\ reqs'[q].user = reqs[q].user /\ (reqs[q].known => reqs'[q].known)
    BY <1>9
  <2>3. user[v].req # Nothing => user[v].req \in Given /\ rides[user[v].req].user = v
    BY <1>1 DEF UsersInv, UserOK
  <2>. QED  BY <1>15, <1>16, <2>1, <2>2, <2>3, UserQueueKept
<1>25. OrderOK'
  <2>1. SUFFICES ASSUME NEW p \in Given', NEW q \in Given', q < p
                 PROVE  /\ rides'[p].chair # NoOne => rides'[q].chair # NoOne
                        /\ rides'[p].chair = rides'[q].chair /\ rides'[p].chair # NoOne =>
                             /\ rides'[q].stage = 6 /\ rides'[q].chr = 6
                             /\ rides'[p].stage # 1 => reqs'[q].chair = 6
    BY DEF OrderOK
  <2>2. CASE p = n
    BY <1>4, <1>9, <2>2
  <2>3. CASE p # n
    <3>1. p \in Given /\ q \in Given
      BY <1>10, <2>1, <2>3
    <3>2. rides'[p] = rides[p] /\ rides'[q] = rides[q] /\ reqs'[q] = reqs[q]
      BY <1>9, <3>1
    <3>. QED  BY <1>1, <2>1, <3>1, <3>2 DEF OrderOK
  <2>. QED  BY <2>2, <2>3
<1>26. ReportsOK'
  BY <1>14, <1>15, <1>16, ErrorsExplained
<1>27. UsersInv'
  BY <1>22, <1>23 DEF UsersInv
<1>28. ChairsInv' /\ ChairQueuesInv' /\ UserQueuesInv'
  BY <1>21, <1>24 DEF ChairsInv, ChairQueuesInv, UserQueuesInv
<1>. QED  BY <1>15, <1>20, <1>25, <1>26, <1>27, <1>28 DEF WorldInv

\* Ride r gets chair c.
SetsChair(r, c) == rides' = [rides EXCEPT ![r].chair = c]

LEMMA ChairSet ==
  ASSUME TypeOK, NEW r \in Given, NEW c \in Chairs, SetsChair(r, c)
  PROVE  /\ rides' \in Seq(Ride) /\ Len(rides') = Len(rides)
         /\ \A q \in Given : q # r => rides'[q] = rides[q]
         /\ rides'[r].chair = c /\ rides'[r].user = rides[r].user
         /\ rides'[r].app = rides[r].app /\ rides'[r].chr = rides[r].chr
         /\ rides'[r].stage = rides[r].stage
<1>1. PICK x : x = [rides[r] EXCEPT !.chair = c]
  OBVIOUS
<1>2. rides[r] \in Ride
  BY RideFields
<1>3. /\ x \in Ride /\ x.chair = c /\ x.user = rides[r].user /\ x.stage = rides[r].stage
      /\ x.app = rides[r].app /\ x.chr = rides[r].chr
  BY <1>1, <1>2 DEF Ride
<1>4. rides' = [rides EXCEPT ![r] = x]
  BY <1>1 DEF SetsChair
<1>. QED  BY <1>3, <1>4, RidesChange

\* The oldest ride that waits gets a chair that has been told everything about
\* its rides so far.
LEMMA MatchKeeps ==
  ASSUME WorldInv, Match, stopped' = stopped
  PROVE  WorldInv'
<1>1. /\ TypeOK /\ RidesInv /\ ChairsInv /\ UsersInv /\ OrderOK
      /\ ChairQueuesInv /\ UserQueuesInv
  BY DEF WorldInv
<1>2. PICK waiting : waiting = {q \in 1 .. Len(rides) : rides[q].chair = NoOne}
  OBVIOUS
<1>3. PICK r : r = Min(waiting)
  OBVIOUS
<1>4. PICK c \in Chairs :
        /\ waiting # {} /\ \A q \in RidesOfChair(c) : rides[q].chr = FullLog
        /\ rides' = [rides EXCEPT ![r].chair = c]
        /\ UNCHANGED <<reqs, user, chair, errorVars, faults>>
  BY <1>2, <1>3 DEF Match
<1>5. /\ r \in Given /\ rides[r].chair = NoOne /\ r \in Nat
      /\ \A q \in Given : rides[q].chair = NoOne => r <= q
  <2>1. waiting \in SUBSET Nat
    BY <1>1, <1>2 DEF TypeOK
  <2>2. r \in waiting /\ \A q \in waiting : r <= q
    BY <1>3, <1>4, <2>1, LeastIsThere
  <2>. QED  BY <1>2, <2>1, <2>2 DEF Given
<1>6. reqs' = reqs /\ user' = user /\ chair' = chair /\ UNCHANGED errorVars /\ faults' = faults
  BY <1>4
<1>7. /\ rides' \in Seq(Ride) /\ Len(rides') = Len(rides)
      /\ \A q \in Given : q # r => rides'[q] = rides[q]
      /\ rides'[r].chair = c /\ rides'[r].user = rides[r].user
      /\ rides'[r].app = rides[r].app /\ rides'[r].chr = rides[r].chr
      /\ rides'[r].stage = rides[r].stage
  <2>1. SetsChair(r, c)
    BY <1>4 DEF SetsChair
  <2>. QED  BY <1>1, <1>5, <2>1, ChairSet
<1>8. ErrorsOK
  BY <1>6, NothingErrs
<1>9. TypeOK'
  BY <1>1, <1>6, <1>7, <1>8, ErrorsType DEF TypeOK
<1>10. c # NoOne
  BY WorldAssumption
<1>11. \A q \in Given :
         /\ rides'[q].user = rides[q].user /\ rides'[q].stage = rides[q].stage
         /\ rides'[q].app = rides[q].app /\ rides'[q].chr = rides[q].chr
         /\ rides[q].chair # NoOne => rides'[q].chair = rides[q].chair
  BY <1>5, <1>7
<1>12. Grows
  <2>1. \A q \in Given : rides[q].stage <= rides'[q].stage
    BY <1>1, <1>11, RideFields
  <2>. QED  BY <1>1, <1>6, <1>7, <1>11, <2>1 DEF Grows, TypeOK
<1>13. Given' = Given /\ \A v : RidesOfUser(v)' = RidesOfUser(v)
  <2>1. Given' = Given
    BY <1>7 DEF Given
  <2>2. \A v : RidesOfUser(v)' = RidesOfUser(v)
    BY <1>7, <1>11 DEF RidesOfUser, Given
  <2>. QED  BY <2>1, <2>2
<1>14. RideOK(r) /\ WorkOK(r) /\ OwnedOK(r) /\ rides[r].stage = 1 /\ rides[r].chr = 0
       /\ Unstarted(r)
  <2>1. RideOK(r) /\ WorkOK(r) /\ OwnedOK(r)
    BY <1>1, <1>5 DEF RidesInv
  <2>. QED  BY <1>5, <2>1 DEF RideOK, WorkOK, Driven
<1>15. ASSUME NEW q \in Given
       PROVE  WorkOK(q)' /\ RideOK(q)' /\ OwnedOK(q)'
  <2>1. WorkOK(q) /\ RideOK(q) /\ OwnedOK(q)
    BY <1>1 DEF RidesInv
  <2>2. OwnedOK(q)'
    <3>1. rides'[q].user = rides[q].user /\ rides'[q].app = rides[q].app
          /\ rides'[q].stage = rides[q].stage
      BY <1>11
    <3>2. Latest(rides[q].user, q)' <=> Latest(rides[q].user, q)
      BY <1>13, <3>1 DEF Latest
    <3>. QED  BY <1>6, <2>1, <3>1, <3>2 DEF OwnedOK
  <2>3. CASE q # r
    <3>1. rides'[q] = rides[q]
      BY <1>7, <2>3
    <3>2. WorkOK(q)'
      BY <1>6, <2>1, <3>1, WorkStays
    <3>3. RideOK(q)'
      BY <1>6, <2>1, <3>1 DEF RideOK
    <3>. QED  BY <2>2, <3>2, <3>3
  <2>4. CASE q = r
    <3>1. chair[c].req # r
      <4>1. r # Nothing
        BY <1>1, <1>5, RideFields
      <4>2. ChairOK(c)
        BY <1>1 DEF ChairsInv
      <4>3. chair[c].req # Nothing => rides[chair[c].req].chair = c
        BY <4>2 DEF ChairOK
      <4>. QED  BY <1>5, <1>10, <4>1, <4>3
    <3>2. ~Driven(r)'
      BY <1>6, <1>7, <3>1 DEF Driven
    <3>3. Unstarted(r)'
      BY <1>6, <1>7, <1>14 DEF Unstarted
    <3>4. WorkOK(r)'
      BY <3>2, <3>3 DEF WorkOK
    <3>5. RideOK(r)'
      BY <1>6, <1>7, <1>10, <1>14 DEF RideOK
    <3>. QED  BY <2>2, <2>4, <3>4, <3>5
  <2>. QED  BY <2>3, <2>4
<1>16. ASSUME NEW d \in Chairs
       PROVE  ChairOK(d)' /\ ChairQueueOK(d)'
  <2>1. ChairOK(d)'
    BY <1>1, <1>6, <1>9, <1>12, ChairStays DEF ChairsInv
  <2>2. \A q \in Given : rides[q].chair = d =>
          /\ rides'[q].chr = rides[q].chr
          /\ reqs'[q].chair = Completed => reqs[q].chair = Completed
    BY <1>6, <1>11
  <2>3. ChairQueueOK(d)'
    BY <1>1, <1>6, <1>9, <1>12, <2>2, ChairQueueStays DEF ChairsInv, ChairQueuesInv
  <2>. QED  BY <2>1, <2>3
<1>17. ASSUME NEW v \in Users
       PROVE  UserOK(v)' /\ UserQueueOK(v)' /\ ValidatedOK(v)'
  <2>1. UserOK(v) /\ user' = user /\ reqs' = reqs /\ faults' = faults
    BY <1>1, <1>6 DEF UsersInv
  <2>2. PICK k : k = user[v].req
    OBVIOUS
  <2>3. k # Nothing => k \in Given /\ rides[k].user = v
    BY <2>1, <2>2 DEF UserOK
  <2>4. k \in Given => /\ k \in Given' /\ rides'[k].user = rides[k].user
                       /\ rides'[k].stage = rides[k].stage /\ rides'[k].app = rides[k].app
    BY <1>11, <1>13
  <2>5. RidesOfUser(v)' = RidesOfUser(v) /\ (Latest(v, k)' <=> Latest(v, k))
    BY <1>13 DEF Latest
  <2>6. user[v].pc \in {"rated", "refused"} => k # Nothing
    BY <2>1, <2>2 DEF UserOK
  <2>7. UserOK(v)'
    BY <2>1, <2>2, <2>3, <2>4, <2>5, <2>6 DEF UserOK
  <2>8. UserQueueOK(v)' /\ ValidatedOK(v)'
    BY <1>9, <1>11, <1>12, <2>1, <2>2, <2>3, UserQueueKept
  <2>. QED  BY <2>7, <2>8
<1>18. OrderOK'
  <2>1. SUFFICES ASSUME NEW p \in Given, NEW q \in Given, q < p
                 PROVE  /\ rides'[p].chair # NoOne => rides'[q].chair # NoOne
                        /\ rides'[p].chair = rides'[q].chair /\ rides'[p].chair # NoOne =>
                             /\ rides'[q].stage = 6 /\ rides'[q].chr = 6
                             /\ rides'[p].stage # 1 => reqs'[q].chair = 6
    BY <1>13 DEF OrderOK
  <2>2. p \in Nat /\ q \in Nat
    BY <1>1, RideFields
  <2>3. CASE p = r
    <3>1. q # r /\ rides'[q] = rides[q] /\ rides[q].chair # NoOne
      BY <1>5, <1>7, <2>1, <2>2, <2>3
    <3>2. ASSUME rides[q].chair = c
          PROVE  rides[q].stage = 6 /\ rides[q].chr = 6
      <4>1. q \in RidesOfChair(c)
        BY <3>2 DEF RidesOfChair, Given
      <4>2. rides[q].chr = 6
        BY <1>4, <4>1
      <4>3. RideOK(q) /\ rides[q].stage \in 1 .. 6
        BY <1>1, RideFields DEF RidesInv
      <4>. QED  BY <4>2, <4>3 DEF RideOK
    <3>. QED  BY <1>7, <1>14, <2>3, <3>1, <3>2
  <2>4. CASE q = r
    <3>1. p # r /\ rides'[p] = rides[p] /\ rides[p].chair = NoOne
      BY <1>1, <1>5, <1>7, <2>1, <2>2, <2>4 DEF OrderOK
    <3>. QED  BY <3>1
  <2>5. CASE p # r /\ q # r
    <3>1. rides'[p] = rides[p] /\ rides'[q] = rides[q] /\ reqs' = reqs
      BY <1>6, <1>7, <2>5
    <3>. QED  BY <1>1, <2>1, <3>1 DEF OrderOK
  <2>. QED  BY <2>3, <2>4, <2>5
<1>19. ReportsOK'
  BY <1>8, <1>9, <1>12, ErrorsExplained
<1>. QED  BY <1>9, <1>13, <1>15, <1>16, <1>17, <1>18, <1>19
          DEF WorldInv, RidesInv, ChairsInv, UsersInv, ChairQueuesInv, UserQueuesInv

-----------------------------------------------------------------------------
(* The theorems.                                                           *)

LEMMA WorldInit ==
  ASSUME Init
  PROVE  WorldInv
<1>1. /\ rides = <<>> /\ reqs = <<>> /\ Len(rides) = 0 /\ Len(reqs) = 0
      /\ errors = 0 /\ reports = {} /\ sending = FALSE /\ stopped = FALSE /\ faults = {}
  BY DEF Init
<1>2. Given = {}
  BY <1>1 DEF Given
<1>3. \A u \in Users : /\ user[u].pc = "idle" /\ user[u].req = 0 /\ user[u].conn = "none"
                       /\ user[u].queue = <<>> /\ user[u].validated.ride = 0
                       /\ user[u] \in User
  <2>1. PICK x : x = [pc |-> "idle", req |-> Nothing, conn |-> "none", queue |-> <<>>,
                      validated |-> [ride |-> Nothing, total |-> 0]]
    OBVIOUS
  <2>2. <<>> \in Seq(Event) /\ 0 \in 0 .. MaxRides
    BY WorldAssumption
  <2>3. /\ x.pc = "idle" /\ x.req = 0 /\ x.conn = "none" /\ x.queue = <<>>
        /\ x.validated.ride = 0 /\ x \in User
    BY <2>1, <2>2 DEF User
  <2>4. user = [u \in Users |-> x]
    BY <2>1 DEF Init
  <2>. QED  BY <2>3, <2>4
<1>4. \A c \in Chairs : /\ chair[c].pc = "idle" /\ chair[c].req = 0 /\ chair[c].matching = 0
                        /\ chair[c].queue = <<>> /\ chair[c] \in Chair
  <2>1. PICK x : x = [pc |-> "idle", req |-> Nothing, matching |-> Nothing,
                      active |-> FALSE, queue |-> <<>>]
    OBVIOUS
  <2>2. <<>> \in Seq(Event)
    OBVIOUS
  <2>3. /\ x.pc = "idle" /\ x.req = 0 /\ x.matching = 0 /\ x.queue = <<>> /\ x \in Chair
    BY <2>1, <2>2 DEF Chair
  <2>4. chair = [c \in Chairs |-> x]
    BY <2>1 DEF Init
  <2>. QED  BY <2>3, <2>4
<1>5. TypeOK
  <2>1. user \in [Users -> User] /\ chair \in [Chairs -> Chair]
    <3>1. user = [u \in Users |-> user[u]] /\ chair = [c \in Chairs |-> chair[c]]
      BY DEF Init
    <3>. QED  BY <1>3, <1>4, <3>1
  <2>2. rides \in Seq(Ride) /\ reqs \in Seq(Request)
    BY <1>1
  <2>3. /\ \A u \in Users : Len(user[u].queue) <= QueueCapacity
        /\ \A c \in Chairs : Len(chair[c].queue) <= QueueCapacity
    BY <1>3, <1>4, WorldAssumption
  <2>4. errors \in 0 .. ErrorLimit + 1 /\ Len(rides) <= MaxRides
    BY <1>1, WorldAssumption
  <2>. QED  BY <1>1, <2>1, <2>2, <2>3, <2>4 DEF TypeOK
<1>6. RidesInv /\ OrderOK
  BY <1>2 DEF RidesInv, OrderOK
<1>7. ChairsInv
  BY <1>4 DEF ChairsInv, ChairOK
<1>8. UsersInv
  BY <1>3 DEF UsersInv, UserOK
<1>9. Sorted(<<>>)
  BY DEF Sorted
<1>10. ChairQueuesInv
  BY <1>4, <1>9 DEF ChairQueuesInv, ChairQueueOK
<1>11. UserQueuesInv
  BY <1>3, <1>9 DEF UserQueuesInv, UserQueueOK, ValidatedOK
<1>12. ReportsOK
  BY <1>1 DEF ReportsOK
<1>. QED  BY <1>5, <1>6, <1>7, <1>8, <1>10, <1>11, <1>12 DEF WorldInv

\* Nothing moves but the world, which stops.
LEMMA StillKeeps ==
  ASSUME WorldInv, rides' = rides, reqs' = reqs, user' = user, chair' = chair,
         UNCHANGED errorVars, faults' = faults, stopped' \in BOOLEAN
  PROVE  WorldInv'
<1>1. errors' = errors /\ reports' = reports /\ sending' = sending
  BY DEF errorVars
<1>2. TypeOK'
  BY <1>1 DEF WorldInv, TypeOK
<1>3. Given' = Given
  BY DEF Given
<1>4. \A q : ChairWentOn(q)' = ChairWentOn(q)
  BY DEF ChairWentOn, RidesOfChair
<1>5. \A q : WorkOK(q)' = WorkOK(q)
  BY DEF WorkOK, Driven, UnderWay, Unstarted, Finished, BeingRated
<1>6. \A q : RideOK(q)' = RideOK(q) /\ OwnedOK(q)' = OwnedOK(q)
  BY DEF RideOK, OwnedOK, Latest, RidesOfUser
<1>7. RidesInv'
  BY <1>3, <1>5, <1>6 DEF WorldInv, RidesInv
<1>8. ChairsInv' /\ UsersInv' /\ OrderOK'
  BY DEF WorldInv, ChairsInv, UsersInv, OrderOK, ChairOK, UserOK, Latest, RidesOfUser, Given
<1>9. ChairQueuesInv'
  BY DEF WorldInv, ChairQueuesInv, ChairQueueOK, ChairEventOK, Sorted, Holds, Given
<1>10. UserQueuesInv'
  <2>1. \A q : Before(q)' = Before(q) /\ UpTo(q)' = UpTo(q)
    BY DEF Before, UpTo, RidesOfChair
  <2>2. \A u, e : UserEventOK(u, e)' = UserEventOK(u, e)
    BY <1>3, <1>4, <2>1 DEF UserEventOK
  <2>3. \A u : UserQueueOK(u)' = UserQueueOK(u)
    BY <2>2 DEF UserQueueOK, Sorted
  <2>4. \A u : ValidatedOK(u)' = ValidatedOK(u)
    BY <1>4, <2>1 DEF ValidatedOK, Holds, RidesOfUser
  <2>. QED  BY <2>3, <2>4 DEF WorldInv, UserQueuesInv
<1>11. ReportsOK'
  <2>1. \A q \in Given : rides[q].stage <= rides'[q].stage
    BY RideFields DEF WorldInv
  <2>2. Grows
    BY <2>1 DEF Grows, WorldInv, TypeOK
  <2>. QED  BY <1>1, <1>2, <2>2, NothingReported DEF WorldInv
<1>. QED  BY <1>2, <1>7, <1>8, <1>9, <1>10, <1>11 DEF WorldInv

LEMMA WorldNext ==
  ASSUME WorldInv, Next
  PROVE  WorldInv'
<1>1. CASE Running(Match)
  BY <1>1, MatchKeeps DEF Running
<1>2. ASSUME NEW u \in Users,
             Running(UserAnswer(u) \/ UserPollLost(u) \/ UserHandle(u) \/ UserBook(u) \/ UserAct(u))
      PROVE  WorldInv'
  <2>1. /\ stopped' = stopped
        /\ UserAnswer(u) \/ UserPollLost(u) \/ UserHandle(u) \/ UserBook(u) \/ UserAct(u)
    BY <1>2 DEF Running
  <2>2. CASE UserAnswer(u)
    BY <2>1, <2>2, UserPollKeeps, LateAnswerKeeps DEF UserAnswer
  <2>3. CASE UserAct(u)
    BY <2>1, <2>3, UserBookedKeeps, UserConnectKeeps, UserRateKeeps, UserRateRefusedKeeps,
       UserRatedKeeps, UserLeavesKeeps DEF UserAct
  <2>. QED  BY <2>1, <2>2, <2>3, UserPollLostKeeps, UserHandleKeeps, UserBookKeeps
<1>3. ASSUME NEW c \in Chairs,
             Running(ChairPoll(c) \/ ChairPollLost(c) \/ ChairHandle(c) \/ ChairAct(c))
      PROVE  WorldInv'
  <2>1. /\ stopped' = stopped
        /\ ChairPoll(c) \/ ChairPollLost(c) \/ ChairHandle(c) \/ ChairAct(c)
    BY <1>3 DEF Running
  <2>2. CASE ChairAct(c)
    BY <2>1, <2>2, ChairActivateKeeps, ChairSeesKeeps, ChairAcceptKeeps, ChairAcceptRefusedKeeps,
       ChairAcceptedKeeps, ChairArriveKeeps, ChairSendCoordinateKeeps, ChairDepartKeeps,
       ChairDepartedKeeps DEF ChairAct
  <2>. QED  BY <2>1, <2>2, ChairPollKeeps, ChairPollLostKeeps, ChairHandleKeeps
<1>4. CASE Stop
  BY <1>4, StillKeeps DEF Stop
<1>5. CASE Ended
  <2>1. stopped' \in BOOLEAN
    BY <1>5 DEF Ended, vars, WorldInv, TypeOK
  <2>. QED  BY <1>5, <2>1, StillKeeps DEF Ended, vars, errorVars
<1>. QED  BY <1>1, <1>2, <1>3, <1>4, <1>5 DEF Next

\* The invariant holds of every run of the world.
THEOREM WorldInvariant == Spec => []WorldInv
<1>1. Init => WorldInv
  BY WorldInit
<1>2. WorldInv /\ [Next]_vars => WorldInv'
  <2>1. SUFFICES ASSUME WorldInv, [Next]_vars PROVE WorldInv'
    OBVIOUS
  <2>2. CASE Next
    BY <2>1, <2>2, WorldNext
  <2>3. CASE UNCHANGED vars
    <3>1. stopped' \in BOOLEAN
      BY <2>1, <2>3 DEF vars, WorldInv, TypeOK
    <3>. QED  BY <2>1, <2>3, <3>1, StillKeeps DEF vars, errorVars
  <2>. QED  BY <2>1, <2>2, <2>3
<1>. QED  BY <1>1, <1>2, PTL DEF Spec

\* Users, chairs, rides and their requests keep their types; no queue outgrows
\* its buffer and the errors are counted up to one above the limit.
THEOREM WorldTypes == Spec => []TypeOK
<1>1. WorldInv => TypeOK
  BY DEF WorldInv
<1>. QED  BY <1>1, WorldInvariant, PTL

\* The benchmarker's clients report nothing that a fault, or a notification
\* that waited while its chair completed another ride, does not explain: as long
\* as calls that fail have no effect, no transition a correct service can show
\* them is called unexpected (user.go:376, chair.go:416).
THEOREM ReportsExplained == Spec => []OnlyFaultsAreReported
<1>1. WorldInv => OnlyFaultsAreReported
  BY DEF WorldInv, ReportsOK, OnlyFaultsAreReported
<1>. QED  BY <1>1, WorldInvariant, PTL

\* The desired status of a request is what the server has recorded, but for
\* the one call that is under way, and neither side has been told more
\* (request.go:240), as long as calls that fail have no effect.
THEOREM StatusesTogether == Spec => []StatusesAgree
<1>1. WorldInv => StatusesAgree
  <2>1. SUFFICES ASSUME WorldInv, NEW r \in 1 .. Len(rides)
                 PROVE  LET u == rides[r].user
                            calling(pc) == \E c \in Chairs : chair[c].req = r /\ chair[c].pc = pc
                            behind == \/ calling("accepted") \/ calling("departed")
                                      \/ user[u].req = r /\ user[u].pc = "rated"
                        IN
                        /\ rides[r].stage - reqs[r].desired =
                             IF behind THEN 1 ELSE IF calling("sending") THEN -1 ELSE 0
                        /\ reqs[r].user <= rides[r].stage
                        /\ reqs[r].chair <= reqs[r].desired
    BY DEF StatusesAgree
  <2>2. /\ r \in Given /\ r # Nothing /\ TypeOK /\ WorkOK(r) /\ RideOK(r)
        /\ UserOK(rides[r].user) /\ \A c \in Chairs : ChairOK(c)
    <3>1. TypeOK /\ r \in Given
      BY <2>1 DEF WorldInv, Given
    <3>2. rides[r].user \in Users /\ r # Nothing
      BY <3>1, RideFields
    <3>. QED  BY <2>1, <3>1, <3>2 DEF WorldInv, RidesInv, UsersInv, ChairsInv
  <2>3. \A pc : (\E c \in Chairs : chair[c].req = r /\ chair[c].pc = pc)
                  <=> Driven(r) /\ chair[rides[r].chair].pc = pc
    <3>1. ASSUME NEW c \in Chairs, chair[c].req = r
          PROVE  rides[r].chair = c /\ c # NoOne
      <4>1. ChairOK(c)
        BY <2>2
      <4>2. chair[c].matching = r
        BY <2>2, <3>1, <4>1 DEF ChairOK
      <4>3. rides[r].chair = c
        BY <2>2, <4>1, <4>2 DEF ChairOK
      <4>. QED  BY <4>3, WorldAssumption
    <3>2. Driven(r) => rides[r].chair \in Chairs /\ chair[rides[r].chair].req = r
      <4>1. rides[r].chair \in Chairs \cup {NoOne}
        BY <2>2, RideFields
      <4>. QED  BY <4>1 DEF Driven
    <3>3. \A c \in Chairs : chair[c].req = r => Driven(r) /\ rides[r].chair = c
      BY <3>1 DEF Driven
    <3>. QED  BY <3>2, <3>3
  <2>4. BeingRated(r) => rides[r].stage = Completed /\ reqs[r].desired = Arrived
    BY <2>2 DEF BeingRated, UserOK
  <2>5. PICK n \in 1 .. 6, d \in 1 .. 6, s \in 1 .. 6, told \in 1 .. 6, a \in 0 .. 6 :
          /\ n = rides[r].stage /\ d = reqs[r].desired /\ s = reqs[r].chair
          /\ told = reqs[r].user /\ a = rides[r].app
    BY <2>2, RideFields, ZenonT(40)
  <2>6. PICK c, p : c = rides[r].chair /\ p = chair[c].pc
    OBVIOUS
  <2>7. told <= n
    BY <2>2, <2>5 DEF RideOK
  <2>8. /\ s <= d
        /\ n - d = IF \/ Driven(r) /\ p \in {"accepted", "departed"}
                      \/ BeingRated(r)
                   THEN 1 ELSE IF Driven(r) /\ p = "sending" THEN -1 ELSE 0
    <3>1. CASE ~Driven(r)
      BY <2>2, <2>4, <2>5, <3>1 DEF WorkOK, Unstarted, Finished
    <3>2. CASE Driven(r)
      <4>1. UnderWay(r)
        BY <2>2, <3>2 DEF WorkOK
      <4>2. CASE p = "idle"
        BY <2>4, <2>5, <2>6, <3>2, <4>1, <4>2 DEF UnderWay
      <4>3. CASE p = "refused"
        BY <2>4, <2>5, <2>6, <3>2, <4>1, <4>3 DEF UnderWay, Unstarted
      <4>4. CASE p = "accepted"
        BY <2>4, <2>5, <2>6, <3>2, <4>1, <4>4 DEF UnderWay
      <4>5. CASE p = "sending"
        BY <2>4, <2>5, <2>6, <3>2, <4>1, <4>5 DEF UnderWay
      <4>6. CASE p = "departed"
        BY <2>4, <2>5, <2>6, <3>2, <4>1, <4>6 DEF UnderWay
      <4>7. p \in {"idle", "refused", "accepted", "sending", "departed"}
        BY <2>5, <2>6, <4>1 DEF UnderWay
      <4>. QED  BY <4>2, <4>3, <4>4, <4>5, <4>6, <4>7
    <3>. QED  BY <3>1, <3>2
  <2>. QED  BY <2>3, <2>5, <2>6, <2>7, <2>8 DEF BeingRated
<1>. QED  BY <1>1, WorldInvariant, PTL

=============================================================================
