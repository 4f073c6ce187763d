------------------------ MODULE DispatchSafety_proofs ------------------------
(***************************************************************************)
(* The safety of Dispatch for any number of users, chairs and rides, when  *)
(* clients and matchers are Serial: IInv is an inductive invariant, and    *)
(* the properties of the tables follow from it; Dispatch implements        *)
(* RideService; which ride is the latest, and what a chair is told when;   *)
(* and that completed rides are paid for.                                  *)
(***************************************************************************)
EXTENDS DispatchInvariant, DispatchFares_proofs

-----------------------------------------------------------------------------
(* The length of a ride's log and its latest status.                       *)

LEMMA LatestIsFlow ==
  ASSUME Typed, StatusLogIsPath, NEW r \in RideIds
  PROVE  /\ log[r] \in Seq(StatusRow)
         /\ Rows(r) \in 1 .. 6
         /\ LatestStatus(r) = Flow[Rows(r)]
         /\ \A i \in 1 .. 6 : LatestStatus(r) = Flow[i] => Rows(r) = i
<1>1. log[r] \in Seq(StatusRow)
  BY ElementOfSeq DEF Typed, RowsOK, RideIds
<1>2. Rows(r) \in 1 .. 6
  BY DEF StatusLogIsPath, Rows, FullLog
<1>3. LatestStatus(r) = Flow[Rows(r)]
  <2>0. DOMAIN log[r] = 1 .. Rows(r)
    BY <1>1 DEF Rows
  <2>1. Rows(r) \in DOMAIN log[r]
    BY <1>2, <2>0
  <2>2. log[r][Rows(r)].status = Flow[Rows(r)]
    BY <2>1 DEF StatusLogIsPath
  <2>. QED  BY <2>2 DEF LatestStatus, Rows
<1>4. ASSUME NEW i \in 1 .. 6, LatestStatus(r) = Flow[i]
      PROVE  Rows(r) = i
  <2>1. Flow[Rows(r)] = Flow[i]
    BY <1>3, <1>4
  <2>. QED  BY <1>2, <2>1, FlowIsStatus
<1>. QED  BY <1>1, <1>2, <1>3, <1>4

LEMMA LatestNames ==
  ASSUME Typed, StatusLogIsPath, NEW r \in RideIds
  PROVE  /\ LatestStatus(r) = "ENROUTE" => Rows(r) = 2
         /\ LatestStatus(r) = "PICKUP" => Rows(r) = 3
         /\ LatestStatus(r) = "CARRYING" => Rows(r) = 4
         /\ LatestStatus(r) = "ARRIVED" => Rows(r) = 5
         /\ LatestStatus(r) = "COMPLETED" <=> Rows(r) = 6
  BY LatestIsFlow DEF Flow

\* The numbers 1 .. n are n.
LEMMA FirstPositives ==
  ASSUME NEW n \in Nat \ {0}
  PROVE  IsFiniteSet(1 .. n) /\ Cardinality(1 .. n) = n
<1>1. 1 \in Int /\ n \in Int /\ ~(1 > n) /\ n - 1 + 1 = n
  OBVIOUS
<1>. QED  BY <1>1, FS_Interval

\* internalGetMatching counts six sent rows exactly when the ride went through
\* its six states and each has been sent.
LEMMA FullySentIsReleased ==
  ASSUME Typed, StatusLogIsPath, NEW r \in RideIds
  PROVE  FullySent(r) <=> Released(r)
<1>. DEFINE sent == {i \in 1 .. Rows(r) : log[r][i].chair}
<1>1. Rows(r) \in 1 .. 6 /\ log[r] \in Seq(StatusRow)
  BY LatestIsFlow
<1>2. IsFiniteSet(1 .. Rows(r)) /\ Cardinality(1 .. Rows(r)) = Rows(r)
  <2>1. Rows(r) \in Nat \ {0}
    BY <1>1
  <2>. QED  BY <2>1, FirstPositives
<1>3. /\ sent \subseteq 1 .. Rows(r)
      /\ Cardinality(sent) \in Nat /\ Cardinality(sent) <= Rows(r)
      /\ Cardinality(sent) = Rows(r) => sent = 1 .. Rows(r)
  BY <1>1, <1>2, FS_Subset, FS_CardinalityType
<1>4. FullySent(r) <=> Cardinality(sent) = 6
  <2>1. DOMAIN log[r] = 1 .. Rows(r)
    BY <1>1 DEF Rows
  <2>2. {i \in DOMAIN log[r] : log[r][i].chair} = sent
    BY <2>1
  <2>. QED  BY <2>2, Zenon DEF FullySent, FullLog
<1>5. ASSUME FullySent(r) PROVE Released(r)
  <2>1. Rows(r) = 6 /\ sent = 1 .. Rows(r)
    BY <1>1, <1>3, <1>4, <1>5
  <2>. QED  BY <2>1 DEF Released, FullLog
<1>6. ASSUME Released(r) PROVE FullySent(r)
  <2>1. Rows(r) = 6 /\ sent = 1 .. Rows(r)
    BY <1>6 DEF Released, FullLog
  <2>. QED  BY <1>2, <1>4, <2>1
<1>. QED  BY <1>5, <1>6

LEMMA FreeIsReleased ==
  ASSUME Typed, StatusLogIsPath, NEW c
  PROVE  Free(c) <=> \A r \in RidesOfChair(c) : Released(r)
  BY FullySentIsReleased DEF Free, RidesOfChair

-----------------------------------------------------------------------------
(* What the steps do to rides and logs.                                    *)

SameRides ==
  /\ RideIds' = RideIds
  /\ \A r \in RideIds : /\ rides'[r].user = rides[r].user
                        /\ rides'[r].chair = rides[r].chair

SameRows(r) ==
  /\ Len(log'[r]) = Len(log[r])
  /\ \A i \in 1 .. Len(log[r]) : /\ log'[r][i].status = log[r][i].status
                                 /\ log[r][i].chair => log'[r][i].chair

\* One more row, for the next state.
NextRow(r) ==
  /\ Len(log[r]) < 6
  /\ Len(log'[r]) = Len(log[r]) + 1
  /\ \A i \in 1 .. Len(log[r]) : log'[r][i] = log[r][i]
  /\ log'[r][Len(log[r]) + 1].status = Flow[Len(log[r]) + 1]

LEMMA LogRow ==
  ASSUME NEW l \in Seq(Seq(StatusRow)), NEW r \in DOMAIN l
  PROVE  /\ l[r] \in Seq(StatusRow)
         /\ Len(l[r]) \in Nat
         /\ DOMAIN l[r] = 1 .. Len(l[r])
  BY ElementOfSeq

LEMMA RideIdsAre ==
  ASSUME Typed
  PROVE  RideIds = 1 .. Len(rides) /\ Len(rides) \in Nat /\ DOMAIN log = RideIds
  BY DEF Typed, RowsOK, RideIds

\* The rows of every ride stay a path when one ride gets its next row at most.
LEMMA PathKept ==
  ASSUME Typed, Typed', StatusLogIsPath, RideIds' = RideIds,
         \A r \in RideIds : SameRows(r) \/ NextRow(r)
  PROVE  /\ StatusLogIsPath'
         /\ \A r \in RideIds : Released(r) => Released(r)'
<1>1. DOMAIN log' = RideIds /\ DOMAIN log = RideIds
  BY DEF Typed, RowsOK, RideIds
<1>2. ASSUME NEW r \in RideIds
      PROVE  /\ Len(log[r]) \in 1 .. 6
             /\ DOMAIN log[r] = 1 .. Len(log[r])
             /\ DOMAIN log'[r] = 1 .. Len(log'[r])
             /\ Len(log'[r]) \in 1 .. 6
             /\ \A i \in 1 .. Len(log'[r]) : log'[r][i].status = Flow[i]
  <2>1. Len(log[r]) \in 1 .. 6
    BY DEF StatusLogIsPath, FullLog
  <2>2. DOMAIN log[r] = 1 .. Len(log[r]) /\ DOMAIN log'[r] = 1 .. Len(log'[r])
    BY <1>1, LogRow DEF Typed, RowsOK
  <2>3. \A i \in 1 .. Len(log[r]) : log[r][i].status = Flow[i]
    BY <2>2 DEF StatusLogIsPath
  <2>4. CASE SameRows(r)
    BY <2>1, <2>2, <2>3, <2>4 DEF SameRows
  <2>5. CASE NextRow(r)
    BY <2>1, <2>2, <2>3, <2>5, SMTT(30) DEF NextRow
  <2>. QED  BY <2>1, <2>2, <2>4, <2>5
<1>3. StatusLogIsPath'
  BY <1>2 DEF StatusLogIsPath, FullLog
<1>4. ASSUME NEW r \in RideIds, Released(r)
      PROVE  Released(r)'
  <2>1. Len(log[r]) = 6 /\ \A i \in 1 .. 6 : log[r][i].chair
    BY <1>4 DEF Released, Rows, FullLog
  <2>2. SameRows(r)
    BY <2>1 DEF NextRow
  <2>. QED  BY <2>1, <2>2 DEF SameRows, Released, Rows, FullLog
<1>. QED  BY <1>3, <1>4

\* A step that adds no ride, no chair and no row keeps what the tables promise.
LEMMA TableKept ==
  ASSUME Typed, Typed', TableInv, SameRides, acked \subseteq acked',
         \A r \in RideIds : SameRows(r)
  PROVE  /\ TableInv'
         /\ \A r \in RideIds : Rows(r)' = Rows(r) /\ (Released(r) => Released(r)')
<1>1. StatusLogIsPath' /\ \A r \in RideIds : Released(r) => Released(r)'
  BY PathKept DEF TableInv, SameRides
<1>2. \A r \in RideIds : Rows(r)' = Rows(r)
  BY DEF SameRows, Rows
<1>3. OnlyAssignedRidesMove' /\ UserRidesInTurn' /\ ChairRidesInTurn'
  BY <1>1, <1>2 DEF TableInv, SameRides, OnlyAssignedRidesMove, UserRidesInTurn,
                    ChairRidesInTurn
<1>. QED  BY <1>1, <1>2, <1>3 DEF TableInv

\* So does the next row of a ride whose chair has accepted it.
LEMMA TableGrown ==
  ASSUME Typed, Typed', TableInv, SameRides, acked \subseteq acked',
         NEW t \in RideIds, NextRow(t),
         rides[t].chair # NoChair, <<rides[t].chair, t>> \in acked',
         \A r \in RideIds : r # t => log'[r] = log[r]
  PROVE  /\ TableInv'
         /\ \A r \in RideIds : Released(r) => Released(r)'
         /\ \A r \in RideIds : r # t => Rows(r)' = Rows(r)
         /\ Rows(t) < 6 /\ Rows(t)' = Rows(t) + 1
<1>1. \A r \in RideIds : r # t => SameRows(r)
  BY DEF SameRows
<1>2. StatusLogIsPath' /\ \A r \in RideIds : Released(r) => Released(r)'
  BY <1>1, PathKept DEF TableInv, SameRides
<1>3. /\ \A r \in RideIds : r # t => Rows(r)' = Rows(r)
      /\ Rows(t) < 6 /\ Rows(t)' = Rows(t) + 1
      /\ Rows(t) \in 1 .. 6
  BY DEF Rows, NextRow, TableInv, StatusLogIsPath, FullLog
<1>4. OnlyAssignedRidesMove'
  BY <1>3 DEF TableInv, SameRides, OnlyAssignedRidesMove
<1>5. UserRidesInTurn'
  BY <1>3 DEF TableInv, SameRides, UserRidesInTurn, FullLog
<1>6. ChairRidesInTurn'
  BY <1>2 DEF TableInv, SameRides, ChairRidesInTurn
<1>. QED  BY <1>2, <1>3, <1>4, <1>5, <1>6 DEF TableInv

-----------------------------------------------------------------------------
(* What the steps do to the requests in progress.                          *)

\* Neither rides nor rows come or go.
Still ==
  /\ SameRides
  /\ \A r \in RideIds : Rows(r)' = Rows(r) /\ (Released(r) => Released(r)')

LEMMA RequestsKept ==
  ASSUME Typed, Still
  PROVE  /\ BookingStillAllowed /\ UNCHANGED userReq => BookingStillAllowed'
         /\ RatingStillAllowed /\ UNCHANGED userReq => RatingStillAllowed'
         /\ MoveStillAllowed /\ UNCHANGED chairReq => MoveStillAllowed'
         /\ MatchStillAllowed /\ UNCHANGED match => MatchStillAllowed'
<1>. USE DEF Still, SameRides, Typed
<1>1. ASSUME BookingStillAllowed, UNCHANGED userReq
      PROVE  BookingStillAllowed'
  BY <1>1 DEF BookingStillAllowed, RidesOf
<1>2. ASSUME RatingStillAllowed, UNCHANGED userReq
      PROVE  RatingStillAllowed'
  BY <1>2 DEF RatingStillAllowed, UserReqOK
<1>3. ASSUME MoveStillAllowed, UNCHANGED chairReq
      PROVE  MoveStillAllowed'
  BY <1>3 DEF MoveStillAllowed, ChairReqOK
<1>4. ASSUME MatchStillAllowed, UNCHANGED match
      PROVE  MatchStillAllowed'
  BY <1>4 DEF MatchStillAllowed, MatchOK, RidesOfChair
<1>. QED  BY <1>1, <1>2, <1>3, <1>4

LEMMA UserRequestSet ==
  ASSUME Typed, Still, BookingStillAllowed, RatingStillAllowed,
         NEW u \in Users, NEW k \in UserConns, NEW new \in UserRequest,
         userReq' = [userReq EXCEPT ![<<u, k>>] = new],
         new.op = "book" => \A r \in RidesOf(u) : Rows(r) = 6,
         new.op = "rate" => /\ new.ride \in RideIds
                            /\ rides[new.ride].user = u
                            /\ Rows(new.ride) = 5
                            /\ rides[new.ride].chair # NoChair
  PROVE  BookingStillAllowed' /\ RatingStillAllowed'
<1>. USE DEF Still, SameRides, Typed
<1>1. \A v \in Users, j \in UserConns :
        userReq'[<<v, j>>] = IF v = u /\ j = k THEN new ELSE userReq[<<v, j>>]
  BY DEF UserReqOK
<1>2. \A v \in Users, j \in UserConns :
        userReq[<<v, j>>].op = "rate" => userReq[<<v, j>>].ride \in RideIds
  BY DEF UserReqOK
<1>3. BookingStillAllowed'
  BY <1>1 DEF BookingStillAllowed, RidesOf, FullLog
<1>4. RatingStillAllowed'
  BY <1>1, <1>2 DEF RatingStillAllowed
<1>. QED  BY <1>3, <1>4

LEMMA ChairRequestSet ==
  ASSUME Typed, Still, MoveStillAllowed,
         NEW c \in Chairs, NEW k \in ChairConns, NEW new \in ChairRequest,
         chairReq' = [chairReq EXCEPT ![<<c, k>>] = new],
         new.op = "move" => /\ new.ride \in RideIds
                            /\ rides[new.ride].chair = c
                            /\ Rows(new.ride) \in {2, 4}
                            /\ new.status = Flow[Rows(new.ride) + 1]
  PROVE  MoveStillAllowed'
<1>. USE DEF Still, SameRides, Typed
<1>1. \A d \in Chairs, j \in ChairConns :
        chairReq'[<<d, j>>] = IF d = c /\ j = k THEN new ELSE chairReq[<<d, j>>]
  BY DEF ChairReqOK
<1>2. \A d \in Chairs, j \in ChairConns :
        chairReq[<<d, j>>].op = "move" => chairReq[<<d, j>>].ride \in RideIds
  BY DEF ChairReqOK
<1>. QED  BY <1>1, <1>2 DEF MoveStillAllowed

LEMMA MatchRequestSet ==
  ASSUME Typed, Still, MatchStillAllowed, NEW m \in Matchers,
         NEW new \in MatchRequest, match' = [match EXCEPT ![m] = new],
         new.op # "idle" => /\ new.ride \in RideIds
                            /\ rides[new.ride].chair = NoChair,
         new.op = "assign" => \A r \in RidesOfChair(new.chair) : Released(r)
  PROVE  MatchStillAllowed'
<1>. USE DEF Still, SameRides, Typed
<1>1. \A l \in Matchers : match'[l] = IF l = m THEN new ELSE match[l]
  BY DEF MatchOK
<1>2. \A l \in Matchers : match[l].op # "idle" => match[l].ride \in RideIds
  BY DEF MatchOK
<1>. QED  BY <1>1, <1>2 DEF MatchStillAllowed, RidesOfChair

\* The next row of ride t, when no other request works on t.
LEMMA RequestsGrown ==
  ASSUME Typed, TableInv, BookingStillAllowed, RatingStillAllowed,
         MoveStillAllowed, MatchStillAllowed, SameRides, UNCHANGED match,
         NEW t \in RideIds, Rows(t) < 6,
         \A r \in RideIds : r # t => Rows(r)' = Rows(r),
         \A r \in RideIds : Released(r) => Released(r)',
         \A u \in Users, k \in UserConns :
           LET req == userReq[<<u, k>>]
           IN  /\ userReq'[<<u, k>>] \in {req, Idle}
               /\ req.op = "rate" /\ req.ride = t => userReq'[<<u, k>>] = Idle,
         \A c \in Chairs, k \in ChairConns :
           LET req == chairReq[<<c, k>>]
           IN  /\ chairReq'[<<c, k>>] \in {req, Idle}
               /\ req.op = "move" /\ req.ride = t => chairReq'[<<c, k>>] = Idle
  PROVE  /\ BookingStillAllowed' /\ RatingStillAllowed'
         /\ MoveStillAllowed' /\ MatchStillAllowed'
<1>. USE RequestTypes DEF SameRides, Typed
<1>1. BookingStillAllowed'
  <2>1. ASSUME NEW u \in Users, NEW k \in UserConns, userReq'[<<u, k>>].op = "book",
               NEW r \in RidesOf(u)'
        PROVE  Rows(r)' = FullLog
    <3>1. userReq[<<u, k>>].op = "book"
      BY <2>1
    <3>2. r \in RidesOf(u) /\ Rows(r) = FullLog
      BY <2>1, <3>1 DEF BookingStillAllowed, RidesOf
    <3>. QED  BY <3>2 DEF FullLog, RidesOf
  <2>. QED  BY <2>1 DEF BookingStillAllowed
<1>2. RatingStillAllowed'
  <2>1. ASSUME NEW u \in Users, NEW k \in UserConns, userReq'[<<u, k>>].op = "rate"
        PROVE  LET r == userReq'[<<u, k>>].ride
               IN  /\ rides'[r].user = u /\ Len(log'[r]) = 5
                   /\ rides'[r].chair # NoChair
    <3>1. /\ userReq'[<<u, k>>] = userReq[<<u, k>>]
          /\ userReq[<<u, k>>].ride \in RideIds
          /\ userReq[<<u, k>>].ride # t
      BY <2>1 DEF UserReqOK
    <3>. QED  BY <2>1, <3>1 DEF RatingStillAllowed, Rows
  <2>. QED  BY <2>1 DEF RatingStillAllowed, Rows
<1>3. MoveStillAllowed'
  <2>1. ASSUME NEW c \in Chairs, NEW k \in ChairConns, chairReq'[<<c, k>>].op = "move"
        PROVE  LET req == chairReq'[<<c, k>>]
               IN  /\ rides'[req.ride].chair = c
                   /\ Len(log'[req.ride]) \in {2, 4}
                   /\ req.status = Flow[Len(log'[req.ride]) + 1]
    <3>1. /\ chairReq'[<<c, k>>] = chairReq[<<c, k>>]
          /\ chairReq[<<c, k>>].ride \in RideIds
          /\ chairReq[<<c, k>>].ride # t
      BY <2>1 DEF ChairReqOK
    <3>. QED  BY <2>1, <3>1, SMTT(30) DEF MoveStillAllowed, Rows
  <2>. QED  BY <2>1 DEF MoveStillAllowed, Rows
<1>4. MatchStillAllowed'
  BY DEF MatchStillAllowed, MatchOK, RidesOfChair
<1>. QED  BY <1>1, <1>2, <1>3, <1>4

-----------------------------------------------------------------------------
(* The invariant, action by action.                                        *)

Safe ==
  /\ TableInv
  /\ BookingStillAllowed /\ RatingStillAllowed
  /\ MoveStillAllowed /\ MatchStillAllowed

LEMMA AddIsNextRow ==
  ASSUME Typed, TableInv, NEW t \in RideIds, NEW status \in Status,
         AddStatus(t, status), Rows(t) < 6, status = Flow[Rows(t) + 1]
  PROVE  NextRow(t) /\ \A r \in RideIds : r # t => log'[r] = log[r]
<1>1. /\ log \in Seq(Seq(StatusRow)) /\ t \in DOMAIN log
      /\ DOMAIN log = RideIds
  BY DEF Typed, RowsOK, RideIds
<1>2. /\ \A s \in DOMAIN log : s # t => log'[s] = log[s]
      /\ Len(log'[t]) = Len(log[t]) + 1
      /\ \A i \in 1 .. Len(log[t]) : log'[t][i] = log[t][i]
      /\ log'[t][Len(log[t]) + 1] = NewRow(status)
  BY <1>1, AddStatusEffect
<1>3. NewRow(status).status = status
  BY DEF NewRow
<1>. QED  BY <1>1, <1>2, <1>3 DEF NextRow, Rows

LEMMA FlagIsSameRows ==
  ASSUME Typed, NEW t \in RideIds, NEW i \in DOMAIN log[t],
         NEW flag \in {"app", "chair"},
         log' = [log EXCEPT ![t][i][flag] = TRUE]
  PROVE  \A r \in RideIds : SameRows(r)
<1>1. /\ log \in Seq(Seq(StatusRow)) /\ t \in DOMAIN log
      /\ DOMAIN log = RideIds
  BY DEF Typed, RowsOK, RideIds
<1>2. /\ \A s \in DOMAIN log : s # t => log'[s] = log[s]
      /\ Len(log'[t]) = Len(log[t])
      /\ \A j \in DOMAIN log[t] :
           log'[t][j] = IF j = i THEN [log[t][j] EXCEPT ![flag] = TRUE]
                                 ELSE log[t][j]
  BY <1>1, FlagEffect
<1>3. DOMAIN log[t] = 1 .. Len(log[t]) /\ log[t] \in Seq(StatusRow)
  BY <1>1, LogRow
<1>4. ASSUME NEW j \in 1 .. Len(log[t])
      PROVE  /\ log'[t][j].status = log[t][j].status
             /\ log[t][j].chair => log'[t][j].chair
  <2>1. log[t][j] \in StatusRow
    BY <1>3, ElementOfSeq
  <2>2. CASE flag = "app"
    BY <1>2, <1>3, <2>1, <2>2 DEF StatusRow
  <2>3. CASE flag = "chair"
    BY <1>2, <1>3, <2>1, <2>3 DEF StatusRow
  <2>. QED  BY <2>2, <2>3
<1>. QED  BY <1>1, <1>2, <1>4 DEF SameRows

\* A step that changes no ride and sets flags at most.
LEMMA StillStep ==
  ASSUME Typed, Typed', TableInv, acked \subseteq acked', SameRides,
         \/ UNCHANGED log
         \/ \E t \in RideIds : \E i \in DOMAIN log[t], flag \in {"app", "chair"} :
              log' = [log EXCEPT ![t][i][flag] = TRUE]
  PROVE  TableInv' /\ Still
<1>1. \A r \in RideIds : SameRows(r)
  <2>1. CASE UNCHANGED log
    BY <2>1 DEF SameRows
  <2>2. CASE \E t \in RideIds : \E i \in DOMAIN log[t], flag \in {"app", "chair"} :
               log' = [log EXCEPT ![t][i][flag] = TRUE]
    <3>1. PICK t \in RideIds : \E i \in DOMAIN log[t], flag \in {"app", "chair"} :
               log' = [log EXCEPT ![t][i][flag] = TRUE]
      BY <2>2
    <3>2. PICK i \in DOMAIN log[t], flag \in {"app", "chair"} :
            log' = [log EXCEPT ![t][i][flag] = TRUE]
      BY <3>1
    <3>. QED  BY <3>2, FlagIsSameRows
  <2>. QED  BY <2>1, <2>2
<1>. QED  BY <1>1, TableKept DEF Still

\* A new ride of a user whose rides are all over.
LEMMA BookStep ==
  ASSUME Serial, Typed, Typed', Safe,
         NEW u \in Users, NEW k \in UserConns, BookCommit(u, k)
  PROVE  Safe'
<1>. DEFINE new == Len(rides) + 1
<1>1. PICK ride : /\ rides' = Append(rides, ride)
                  /\ ride.user = u /\ ride.chair = NoChair
  BY DEF BookCommit
<1>2. log' = Append(log, <<NewRow("MATCHING")>>)
  BY DEF BookCommit
<1>3. /\ RideIds = 1 .. Len(rides) /\ Len(rides) \in Nat /\ DOMAIN log = RideIds
      /\ Len(log) = Len(rides)
  BY RideIdsAre DEF Typed, RowsOK
<1>4. /\ RideIds' = RideIds \cup {new}
      /\ \A r \in RideIds : rides'[r] = rides[r] /\ log'[r] = log[r]
      /\ rides'[new].user = u /\ rides'[new].chair = NoChair
      /\ log'[new] = <<NewRow("MATCHING")>>
  BY <1>1, <1>2, <1>3 DEF RideIds, Typed, RowsOK
<1>5. /\ \A r \in RideIds : Rows(r)' = Rows(r) /\ (Released(r) => Released(r)')
      /\ Len(log'[new]) = 1
  BY <1>4 DEF Rows, Released
<1>6. \A r \in RideIds : rides[r].user = u => Rows(r) = FullLog
  BY DEF BookCommit, Safe, BookingStillAllowed, RidesOf
<1>7. StatusLogIsPath'
  <2>2. Len(log'[new]) = 1 /\ DOMAIN log'[new] = {1} /\ log'[new][1].status = Flow[1]
    BY <1>4 DEF NewRow, Flow
  <2>3. ASSUME NEW r \in RideIds
        PROVE  /\ Len(log'[r]) \in 1 .. FullLog
               /\ \A i \in DOMAIN log'[r] : log'[r][i].status = Flow[i]
    BY <1>4 DEF Safe, TableInv, StatusLogIsPath
  <2>4. ASSUME NEW r \in RideIds'
        PROVE  /\ Len(log'[r]) \in 1 .. FullLog
               /\ \A i \in DOMAIN log'[r] : log'[r][i].status = Flow[i]
    <3>1. CASE r \in RideIds
      BY <2>3, <3>1
    <3>2. CASE r = new
      BY <2>2, <3>2 DEF FullLog
    <3>. QED  BY <1>4, <3>1, <3>2
  <2>. QED  BY <2>4 DEF StatusLogIsPath
<1>8. OnlyAssignedRidesMove'
  <2>1. UNCHANGED acked
    BY DEF BookCommit
  <2>2. ASSUME NEW r \in RideIds
        PROVE  /\ rides'[r].chair = NoChair => Len(log'[r]) = 1
               /\ Len(log'[r]) > 1 => <<rides'[r].chair, r>> \in acked'
    BY <1>4, <2>1 DEF Safe, TableInv, OnlyAssignedRidesMove, Rows
  <2>3. ASSUME NEW r \in RideIds'
        PROVE  /\ rides'[r].chair = NoChair => Len(log'[r]) = 1
               /\ Len(log'[r]) > 1 => <<rides'[r].chair, r>> \in acked'
    <3>1. CASE r \in RideIds
      BY <2>2, <3>1
    <3>2. CASE r = new
      <4>1. Len(log'[r]) = 1
        BY <1>5, <3>2, Zenon
      <4>. QED  BY <4>1
    <3>. QED  BY <1>4, <3>1, <3>2
  <2>. QED  BY <2>3 DEF OnlyAssignedRidesMove, Rows
<1>9. UserRidesInTurn'
  BY <1>3, <1>4, <1>5, <1>6 DEF Safe, TableInv, UserRidesInTurn
<1>10. ChairRidesInTurn'
  BY <1>4, <1>5 DEF Safe, TableInv, ChairRidesInTurn
<1>11. BookingStillAllowed'
  <2>1. ASSUME NEW v \in Users, NEW j \in UserConns, userReq'[<<v, j>>].op = "book"
        PROVE  v # u /\ userReq[<<v, j>>].op = "book"
    <3>1. userReq' = [userReq EXCEPT ![<<u, k>>] = Idle]
      BY DEF BookCommit
    <3>2. <<v, j>> # <<u, k>>
      BY <2>1, <3>1, RequestTypes DEF Typed, UserReqOK
    <3>. QED  BY <2>1, <3>1, <3>2 DEF Serial, Typed, UserReqOK
  <2>2. \A v \in Users : v # u => RidesOf(v)' = RidesOf(v) /\ RidesOf(v) \subseteq RideIds
    BY <1>4 DEF RidesOf
  <2>. QED  BY <1>5, <2>1, <2>2 DEF Safe, BookingStillAllowed
<1>12. RatingStillAllowed'
  <2>1. ASSUME NEW v \in Users, NEW j \in UserConns, userReq'[<<v, j>>].op = "rate"
        PROVE  /\ userReq'[<<v, j>>] = userReq[<<v, j>>]
               /\ userReq[<<v, j>>].ride \in RideIds
    <3>1. userReq' = [userReq EXCEPT ![<<u, k>>] = Idle]
      BY DEF BookCommit
    <3>. QED  BY <2>1, <3>1, RequestTypes DEF Typed, UserReqOK
  <2>. QED  BY <1>4, <2>1 DEF Safe, RatingStillAllowed, Rows
<1>13. MoveStillAllowed'
  <2>1. UNCHANGED chairReq
    BY DEF BookCommit
  <2>2. \A c \in Chairs, j \in ChairConns :
          chairReq[<<c, j>>].op = "move" => chairReq[<<c, j>>].ride \in RideIds
    BY DEF Typed, ChairReqOK
  <2>. QED  BY <1>4, <2>1, <2>2 DEF Safe, MoveStillAllowed, Rows
<1>14. MatchStillAllowed'
  <2>1. ASSUME NEW c \in ChairId PROVE RidesOfChair(c)' = RidesOfChair(c)
    BY <1>4, DispatchAssumption DEF RidesOfChair, ChairId
  <2>2. \A m \in Matchers : match[m].op # "idle" => match[m].chair \in ChairId
                                               /\ match[m].ride \in RideIds
    BY RequestTypes DEF Typed, MatchOK
  <2>3. \A c \in ChairId : RidesOfChair(c) \subseteq RideIds
    BY DEF RidesOfChair
  <2>. QED  BY <1>4, <1>5, <2>1, <2>2, <2>3 DEF Safe, MatchStillAllowed, BookCommit
<1>. QED
  BY <1>7, <1>8, <1>9, <1>10, <1>11, <1>12, <1>13, <1>14 DEF Safe, TableInv

\* A row lands on a ride only as the one its handler has checked for.
LEMMA GrownStep ==
  ASSUME Typed, Typed', Safe, SameRides, UNCHANGED match, acked \subseteq acked',
         NEW t \in RideIds, NEW status \in Status, AddStatus(t, status),
         Rows(t) < 6, status = Flow[Rows(t) + 1],
         rides[t].chair # NoChair, <<rides[t].chair, t>> \in acked',
         \A u \in Users, k \in UserConns :
           LET req == userReq[<<u, k>>]
           IN  /\ userReq'[<<u, k>>] \in {req, Idle}
               /\ req.op = "rate" /\ req.ride = t => userReq'[<<u, k>>] = Idle,
         \A c \in Chairs, k \in ChairConns :
           LET req == chairReq[<<c, k>>]
           IN  /\ chairReq'[<<c, k>>] \in {req, Idle}
               /\ req.op = "move" /\ req.ride = t => chairReq'[<<c, k>>] = Idle
  PROVE  Safe'
<1>1. NextRow(t) /\ \A r \in RideIds : r # t => log'[r] = log[r]
  BY AddIsNextRow DEF Safe
<1>2. /\ TableInv'
      /\ \A r \in RideIds : Released(r) => Released(r)'
      /\ \A r \in RideIds : r # t => Rows(r)' = Rows(r)
  BY <1>1, TableGrown DEF Safe
<1>3. /\ BookingStillAllowed' /\ RatingStillAllowed'
      /\ MoveStillAllowed' /\ MatchStillAllowed'
  BY <1>2, RequestsGrown DEF Safe
<1>. QED  BY <1>2, <1>3 DEF Safe

LEMMA UserSafe ==
  ASSUME Serial, Typed, Typed', Safe, NEW u \in Users, UserStep(u)
  PROVE  Safe'
<1>. USE DEF tables
<1>0. /\ UNCHANGED rides => SameRides
      /\ StatusLogIsPath
  BY DEF SameRides, RideIds, Safe, TableInv
<1>1. ASSUME SameRides, UNCHANGED <<log, acked, chairReq, match>>,
             NEW k \in UserConns, NEW new \in UserRequest,
             userReq' = [userReq EXCEPT ![<<u, k>>] = new],
             new.op = "book" => \A r \in RidesOf(u) : Rows(r) = 6,
             new.op = "rate" => /\ new.ride \in RideIds
                                /\ rides[new.ride].user = u
                                /\ Rows(new.ride) = 5
                                /\ rides[new.ride].chair # NoChair
      PROVE  Safe'
  <2>1. TableInv' /\ Still
    BY <1>1, StillStep DEF Safe
  <2>2. BookingStillAllowed' /\ RatingStillAllowed'
    BY <1>1, <2>1, UserRequestSet DEF Safe
  <2>. QED  BY <1>1, <2>1, <2>2, RequestsKept DEF Safe
<1>2. CASE RegisterPaymentMethod(u)
  <2>1. TableInv' /\ Still
    BY <1>0, <1>2, StillStep DEF Safe, RegisterPaymentMethod
  <2>. QED  BY <1>2, <2>1, RequestsKept DEF Safe, RegisterPaymentMethod
<1>3. CASE AppNotify(u)
  <2>1. \E t \in RideIds : \E i \in DOMAIN log[t], flag \in {"app", "chair"} :
          log' = [log EXCEPT ![t][i][flag] = TRUE]
    <3>1. PICK r \in LatestOfUser(u) : \E i \in OldestUnsent(r, "app") :
            log' = [log EXCEPT ![r][i].app = TRUE]
      BY <1>3 DEF AppNotify
    <3>2. PICK i \in OldestUnsent(r, "app") :
            log' = [log EXCEPT ![r][i].app = TRUE]
      BY <3>1
    <3>3. r \in RideIds /\ i \in DOMAIN log[r]
      BY <3>1, <3>2 DEF LatestOfUser, RidesOf, OldestUnsent
    <3>. QED  BY <3>2, <3>3
  <2>2. SameRides /\ acked \subseteq acked'
    BY <1>0, <1>3 DEF AppNotify
  <2>3. TableInv' /\ Still
    BY <2>1, <2>2, StillStep DEF Safe
  <2>. QED  BY <1>3, <2>3, RequestsKept DEF Safe, AppNotify
<1>4. ASSUME NEW k \in UserConns, BookBegin(u, k)
      PROVE  Safe'
  <2>1. PICK b \in BOOLEAN :
          userReq' = [userReq EXCEPT ![<<u, k>>] = [op |-> "book", first |-> b]]
    BY <1>4, Zenon DEF BookBegin
  <2>2. [op |-> "book", first |-> b] \in UserRequest
    BY DEF UserRequest
  <2>3. \A r \in RidesOf(u) : Rows(r) = 6
    BY <1>0, <1>4, LatestNames DEF BookBegin, RidesOf
  <2>4. SameRides /\ UNCHANGED <<log, acked, chairReq, match>>
    BY <1>0, <1>4 DEF BookBegin
  <2>. QED  BY <1>1, <2>1, <2>2, <2>3, <2>4
<1>5. ASSUME NEW k \in UserConns, NEW r \in RideIds, NEW e \in Evaluations,
             RateBegin(u, k, r, e)
      PROVE  Safe'
  <2>1. PICK new : /\ userReq' = [userReq EXCEPT ![<<u, k>>] = new]
                   /\ new.op = "rate" /\ new.ride = r
    <3>1. (u \in tokens) \in BOOLEAN
      OBVIOUS
    <3>2. PICK b \in BOOLEAN :
            userReq' = [userReq EXCEPT
                          ![<<u, k>>] = [op |-> "rate", stage |-> "read",
                                         ride |-> r, evaluation |-> e,
                                         rides |-> Cardinality(RidesOf(u)),
                                         token |-> b]]
      BY <1>5, <3>1, Zenon DEF RateBegin
    <3>. DEFINE w == [op |-> "rate", stage |-> "read", ride |-> r, evaluation |-> e,
                      rides |-> Cardinality(RidesOf(u)), token |-> b]
    <3>3. w.op = "rate" /\ w.ride = r
      OBVIOUS
    <3>. HIDE DEF w
    <3>4. userReq' = [userReq EXCEPT ![<<u, k>>] = w]
      BY <3>2 DEF w
    <3>. QED  BY <3>3, <3>4, Zenon
  <2>2. new \in UserRequest
    <3>1. userReq'[<<u, k>>] \in UserRequest /\ userReq'[<<u, k>>] = new
      BY <2>1 DEF Typed, UserReqOK
    <3>. QED  BY <3>1
  <2>3. rides[r].user = u /\ Rows(r) = 5
    BY <1>0, <1>5, LatestNames DEF RateBegin, RidesOf
  <2>4. rides[r].chair # NoChair
    <3>1. Rows(r) # 1
      BY <2>3
    <3>. QED  BY <3>1, Zenon DEF Safe, TableInv, OnlyAssignedRidesMove
  <2>5. SameRides /\ UNCHANGED <<log, acked, chairReq, match>>
    BY <1>0, <1>5 DEF RateBegin
  <2>. QED  BY <1>1, <2>1, <2>2, <2>3, <2>4, <2>5
\* A rating goes on with the same ride, or ends.
<1>6. ASSUME NEW k \in UserConns, userReq[<<u, k>>].op = "rate", NEW stage,
             NEW new \in {Idle, [userReq[<<u, k>>] EXCEPT !.stage = stage]},
             userReq' = [userReq EXCEPT ![<<u, k>>] = new],
             SameRides, UNCHANGED <<log, acked, chairReq, match>>
      PROVE  Safe'
  <2>. DEFINE req == userReq[<<u, k>>]
  <2>1. new \in UserRequest
    <3>1. userReq'[<<u, k>>] \in UserRequest /\ userReq'[<<u, k>>] = new
      BY <1>6 DEF Typed, UserReqOK
    <3>. QED  BY <3>1
  <2>0. req \in [op : {"rate"}, stage : {"read", "locked", "paid"}, ride : Nat,
                evaluation : 1 .. 5, rides : Nat, token : BOOLEAN]
    BY <1>6, RequestTypes DEF Typed, UserReqOK
  <2>01. /\ [req EXCEPT !.stage = stage].op = "rate"
        /\ [req EXCEPT !.stage = stage].ride = req.ride
    BY <2>0
  <2>2. new.op = "rate" => new.ride = req.ride
    BY <1>6, <2>01, RequestTypes
  <2>3. new.op # "book"
    BY <1>6, <2>01, RequestTypes
  <2>4. /\ req.ride \in RideIds /\ rides[req.ride].user = u
        /\ Rows(req.ride) = 5 /\ rides[req.ride].chair # NoChair
    BY <1>6 DEF Safe, RatingStillAllowed, Typed, UserReqOK
  <2>5. new.op = "rate" => /\ new.ride \in RideIds
                           /\ rides[new.ride].user = u
                           /\ Rows(new.ride) = 5
                           /\ rides[new.ride].chair # NoChair
    BY <2>2, <2>4
  <2>. HIDE DEF req
  <2>. QED  BY <1>1, <1>6, <2>1, <2>3, <2>5
<1>7. ASSUME NEW k \in UserConns, RateUpdate(u, k)
      PROVE  Safe'
  <2>1. PICK new \in {Idle, [userReq[<<u, k>>] EXCEPT !.stage = "locked"]} :
          userReq' = [userReq EXCEPT ![<<u, k>>] = new]
    BY <1>7 DEF RateUpdate
  <2>2. SameRides /\ UNCHANGED <<log, acked, chairReq, match>>
    BY <1>0, <1>7 DEF RateUpdate
  <2>. QED  BY <1>6, <1>7, <2>1, <2>2 DEF RateUpdate
<1>8. ASSUME NEW k \in UserConns, RatePay(u, k)
      PROVE  Safe'
  <2>1. PICK new \in {Idle, [userReq[<<u, k>>] EXCEPT !.stage = "paid"]} :
          userReq' = [userReq EXCEPT ![<<u, k>>] = new]
    BY <1>8 DEF RatePay
  <2>2. SameRides /\ UNCHANGED <<log, acked, chairReq, match>>
    BY <1>0, <1>8 DEF RatePay
  <2>. QED  BY <1>6, <1>8, <2>1, <2>2 DEF RatePay
<1>9. ASSUME NEW k \in UserConns, RateCommit(u, k)
      PROVE  Safe'
  <2>. DEFINE t == userReq[<<u, k>>].ride
  <2>1. /\ t \in RideIds /\ rides[t].user = u /\ Rows(t) = 5
        /\ rides[t].chair # NoChair
    BY <1>9 DEF RateCommit, Safe, RatingStillAllowed, Typed, UserReqOK
  <2>2. <<rides[t].chair, t>> \in acked
    BY <2>1 DEF Safe, TableInv, OnlyAssignedRidesMove
  <2>3. SameRides
    <3>1. \A r \in RideIds : rides[r] \in Ride
      BY ElementOfSeq DEF Typed, RowsOK, RideIds
    <3>2. rides' = [rides EXCEPT ![t].evaluation = userReq[<<u, k>>].evaluation]
      BY <1>9 DEF RateCommit
    <3>. HIDE DEF t
    <3>. QED  BY <3>1, <3>2 DEF SameRides, RideIds, Ride
  <2>4. AddStatus(t, "COMPLETED") /\ "COMPLETED" = Flow[Rows(t) + 1]
    BY <1>9, <2>1 DEF RateCommit, Flow
  <2>5. UNCHANGED <<acked, chairReq, match>>
    BY <1>9 DEF RateCommit
  <2>6. \A v \in Users, j \in UserConns :
          /\ userReq'[<<v, j>>] \in {userReq[<<v, j>>], Idle}
          /\ userReq[<<v, j>>].op = "rate" /\ userReq[<<v, j>>].ride = t
               => userReq'[<<v, j>>] = Idle
    <3>1. \A v \in Users, j \in UserConns :
            userReq'[<<v, j>>] = IF v = u /\ j = k THEN Idle ELSE userReq[<<v, j>>]
      BY <1>9 DEF RateCommit, Typed, UserReqOK
    <3>2. \A v \in Users, j \in UserConns :
            userReq[<<v, j>>].op = "rate" /\ userReq[<<v, j>>].ride = t
              => v = u /\ j = k
      BY <2>1 DEF Serial, Safe, RatingStillAllowed
    <3>. QED  BY <3>1, <3>2
  <2>7. \A c \in Chairs, j \in ChairConns :
          chairReq[<<c, j>>].op = "move" => chairReq[<<c, j>>].ride # t
    BY <2>1 DEF Safe, MoveStillAllowed
  <2>8. "COMPLETED" \in Status
    BY DEF Status
  <2>. HIDE DEF t
  <2>. QED  BY <2>1, <2>2, <2>3, <2>4, <2>5, <2>6, <2>7, <2>8, GrownStep
<1>10. ASSUME NEW k \in UserConns, UserAbort(u, k)
       PROVE  Safe'
  <2>1. /\ userReq' = [userReq EXCEPT ![<<u, k>>] = Idle]
        /\ SameRides /\ UNCHANGED <<log, acked, chairReq, match>>
    BY <1>0, <1>10 DEF UserAbort
  <2>. QED  BY <1>1, <2>1, RequestTypes
<1>11. CASE LatePayment(u)
  <2>1. TableInv' /\ Still
    BY <1>0, <1>11, StillStep DEF Safe, LatePayment
  <2>. QED  BY <1>11, <2>1, RequestsKept DEF Safe, LatePayment
<1>. QED
  BY <1>2, <1>3, <1>4, <1>5, <1>7, <1>8, <1>9, <1>10, <1>11, BookStep DEF UserStep

LEMMA ChairSafe ==
  ASSUME Serial, Typed, Typed', Safe, NEW c \in Chairs, ChairStep(c)
  PROVE  Safe'
<1>. USE DEF tables
<1>0. /\ UNCHANGED rides => SameRides
      /\ StatusLogIsPath
      /\ c # NoChair
  BY DispatchAssumption DEF SameRides, RideIds, Safe, TableInv
<1>1. ASSUME SameRides, UNCHANGED <<log, acked, userReq, match>>,
             NEW k \in ChairConns, NEW new \in ChairRequest,
             chairReq' = [chairReq EXCEPT ![<<c, k>>] = new],
             new.op = "move" => /\ new.ride \in RideIds
                                /\ rides[new.ride].chair = c
                                /\ Rows(new.ride) \in {2, 4}
                                /\ new.status = Flow[Rows(new.ride) + 1]
      PROVE  Safe'
  <2>1. TableInv' /\ Still
    BY <1>1, StillStep DEF Safe
  <2>2. MoveStillAllowed'
    BY <1>1, <2>1, ChairRequestSet DEF Safe
  <2>. QED  BY <1>1, <2>1, <2>2, RequestsKept DEF Safe
<1>2. ASSUME NEW on \in BOOLEAN, SetActivity(c, on)
      PROVE  Safe'
  <2>1. TableInv' /\ Still
    BY <1>0, <1>2, StillStep DEF Safe, SetActivity
  <2>. QED  BY <1>2, <2>1, RequestsKept DEF Safe, SetActivity
<1>3. CASE ChairNotify(c)
  <2>1. \E t \in RideIds : \E i \in DOMAIN log[t], flag \in {"app", "chair"} :
          log' = [log EXCEPT ![t][i][flag] = TRUE]
    <3>1. PICK r \in LatestOfChair(c) : \E i \in OldestUnsent(r, "chair") :
            log' = [log EXCEPT ![r][i].chair = TRUE]
      BY <1>3 DEF ChairNotify
    <3>2. PICK i \in OldestUnsent(r, "chair") :
            log' = [log EXCEPT ![r][i].chair = TRUE]
      BY <3>1
    <3>3. r \in RideIds /\ i \in DOMAIN log[r]
      BY <3>1, <3>2 DEF LatestOfChair, RidesOfChair, OldestUnsent
    <3>. QED  BY <3>2, <3>3
  <2>2. SameRides /\ acked \subseteq acked'
    BY <1>0, <1>3 DEF ChairNotify
  <2>3. TableInv' /\ Still
    BY <2>1, <2>2, StillStep DEF Safe
  <2>. QED  BY <1>3, <2>3, RequestsKept DEF Safe, ChairNotify
\* A row for a ride of the chair, when the chair's command in progress, if it
\* works on that ride, ends with it.
<1>4. ASSUME NEW t \in RideIds, rides[t].chair = c, Rows(t) \in {1, 2, 3, 4},
             NEW status \in Status, AddStatus(t, status),
             status = Flow[Rows(t) + 1],
             acked \subseteq acked', <<c, t>> \in acked',
             UNCHANGED <<rides, userReq, match>>,
             \A d \in Chairs, k \in ChairConns :
               LET req == chairReq[<<d, k>>]
               IN  /\ chairReq'[<<d, k>>] \in {req, Idle}
                   /\ req.op = "move" /\ req.ride = t => chairReq'[<<d, k>>] = Idle
      PROVE  Safe'
  <2>1. Rows(t) < 6 /\ Rows(t) # 5
    BY <1>4
  <2>2. ASSUME NEW u \in Users, NEW k \in UserConns
        PROVE  /\ userReq'[<<u, k>>] = userReq[<<u, k>>]
               /\ ~(userReq[<<u, k>>].op = "rate" /\ userReq[<<u, k>>].ride = t)
    BY <1>4, <2>1, ZenonT(30) DEF Safe, RatingStillAllowed
  <2>. QED  BY <1>0, <1>4, <2>1, <2>2, GrownStep
<1>5. ASSUME NEW k \in ChairConns, NEW r \in RideIds, Accept(c, k, r)
      PROVE  Safe'
  <2>1. rides[r].chair = c /\ <<c, r>> \notin acked
    BY <1>5 DEF Accept, Knows, RidesOfChair
  <2>2. Rows(r) = 1
    <3>1. Rows(r) \in 1 .. 6
      BY <1>0, LatestIsFlow
    <3>. QED  BY <2>1, <3>1 DEF Safe, TableInv, OnlyAssignedRidesMove
  <2>3. AddStatus(r, "ENROUTE") /\ "ENROUTE" = Flow[Rows(r) + 1] /\ "ENROUTE" \in Status
    BY <1>5, <2>2 DEF Accept, Flow, Status
  <2>4. acked' = acked \cup {<<c, r>>}
    BY <1>5 DEF Accept, Serial
  <2>5. UNCHANGED <<rides, userReq, chairReq, match>>
    BY <1>5 DEF Accept
  <2>6. \A d \in Chairs, j \in ChairConns :
          ~(chairReq[<<d, j>>].op = "move" /\ chairReq[<<d, j>>].ride = r)
    <3>1. Rows(r) \notin {2, 4}
      BY <2>2
    <3>. QED  BY <3>1, Zenon DEF Safe, MoveStillAllowed
  <2>. QED  BY <1>4, <2>1, <2>2, <2>3, <2>4, <2>5, <2>6
<1>6. ASSUME NEW k \in ChairConns, NEW r \in RideIds, Depart(c, k, r)
      PROVE  Safe'
  <2>1. rides[r].chair = c
    BY <1>6 DEF Depart, Knows, RidesOfChair
  <2>2. Rows(r) = 3
    BY <1>0, <1>6, LatestNames DEF Depart
  <2>3. AddStatus(r, "CARRYING") /\ "CARRYING" = Flow[Rows(r) + 1] /\ "CARRYING" \in Status
    BY <1>6, <2>2 DEF Depart, Flow, Status
  <2>4. <<c, r>> \in acked
    BY <2>1, <2>2 DEF Safe, TableInv, OnlyAssignedRidesMove
  <2>5. UNCHANGED <<rides, userReq, chairReq, match, acked>>
    BY <1>6 DEF Depart
  <2>6. \A d \in Chairs, j \in ChairConns :
          ~(chairReq[<<d, j>>].op = "move" /\ chairReq[<<d, j>>].ride = r)
    <3>1. Rows(r) \notin {2, 4}
      BY <2>2
    <3>. QED  BY <3>1, Zenon DEF Safe, MoveStillAllowed
  <2>. QED  BY <1>4, <2>1, <2>2, <2>3, <2>4, <2>5, <2>6
<1>7. ASSUME NEW k \in ChairConns, MoveBegin(c, k)
      PROVE  Safe'
  <2>1. PICK r \in LatestOfChair(c) :
          \E step \in {<<"ENROUTE", "PICKUP">>, <<"CARRYING", "ARRIVED">>} :
            /\ LatestStatus(r) = step[1]
            /\ chairReq' = [chairReq EXCEPT
                              ![<<c, k>>] = [op |-> "move", ride |-> r,
                                             status |-> step[2]]]
    BY <1>7 DEF MoveBegin
  <2>2. r \in RideIds /\ rides[r].chair = c
    BY <2>1 DEF LatestOfChair, RidesOfChair
  <2>3. PICK status \in {"PICKUP", "ARRIVED"} :
          /\ status = "PICKUP" => LatestStatus(r) = "ENROUTE"
          /\ status = "ARRIVED" => LatestStatus(r) = "CARRYING"
          /\ chairReq' = [chairReq EXCEPT
                            ![<<c, k>>] = [op |-> "move", ride |-> r,
                                           status |-> status]]
    <3>1. PICK step \in {<<"ENROUTE", "PICKUP">>, <<"CARRYING", "ARRIVED">>} :
            /\ LatestStatus(r) = step[1]
            /\ chairReq' = [chairReq EXCEPT
                              ![<<c, k>>] = [op |-> "move", ride |-> r,
                                             status |-> step[2]]]
      BY <2>1
    <3>2. /\ step[2] \in {"PICKUP", "ARRIVED"}
          /\ step[2] = "PICKUP" => step[1] = "ENROUTE"
          /\ step[2] = "ARRIVED" => step[1] = "CARRYING"
      OBVIOUS
    <3>. QED  BY <3>1, <3>2, Zenon
  <2>4. Rows(r) \in {2, 4} /\ status = Flow[Rows(r) + 1]
    BY <1>0, <2>2, <2>3, LatestNames DEF Flow
  <2>5. [op |-> "move", ride |-> r, status |-> status] \in ChairRequest
    BY <2>2, <2>3 DEF ChairRequest, Typed, RowsOK, RideIds, Status
  <2>6. SameRides /\ UNCHANGED <<log, acked, userReq, match>>
    BY <1>0, <1>7 DEF MoveBegin
  <2>. QED  BY <1>1, <2>2, <2>3, <2>4, <2>5, <2>6
<1>8. ASSUME NEW k \in ChairConns, MoveCommit(c, k)
      PROVE  Safe'
  <2>. DEFINE req == chairReq[<<c, k>>]
  <2>1. /\ req.op = "move" /\ req.ride \in RideIds /\ req.status \in Status
        /\ rides[req.ride].chair = c
        /\ Rows(req.ride) \in {2, 4}
        /\ req.status = Flow[Rows(req.ride) + 1]
    BY <1>8, RequestTypes DEF MoveCommit, Safe, MoveStillAllowed, Typed, ChairReqOK
  <2>2. AddStatus(req.ride, req.status) /\ UNCHANGED <<rides, userReq, match, acked>>
    BY <1>8 DEF MoveCommit
  <2>3. <<c, req.ride>> \in acked
    BY <2>1 DEF Safe, TableInv, OnlyAssignedRidesMove
  <2>4. \A d \in Chairs, j \in ChairConns :
          chairReq'[<<d, j>>] = IF d = c /\ j = k THEN Idle ELSE chairReq[<<d, j>>]
    BY <1>8 DEF MoveCommit, Typed, ChairReqOK
  <2>5. \A d \in Chairs, j \in ChairConns :
          chairReq[<<d, j>>].op = "move" /\ chairReq[<<d, j>>].ride = req.ride
            => d = c /\ j = k
    BY <2>1 DEF Serial, Safe, MoveStillAllowed
  <2>. HIDE DEF req
  <2>. QED  BY <1>4, <2>1, <2>2, <2>3, <2>4, <2>5
<1>9. ASSUME NEW k \in ChairConns, ChairAbort(c, k)
      PROVE  Safe'
  <2>1. /\ chairReq' = [chairReq EXCEPT ![<<c, k>>] = Idle]
        /\ SameRides /\ UNCHANGED <<log, acked, userReq, match>>
    BY <1>0, <1>9 DEF ChairAbort
  <2>. QED  BY <1>1, <2>1, RequestTypes
<1>. QED
  BY <1>2, <1>3, <1>5, <1>6, <1>7, <1>8, <1>9 DEF ChairStep

LEMMA AssignSafe ==
  ASSUME Serial, Typed, Typed', Safe, NEW m \in Matchers, MatchAssign(m)
  PROVE  Safe'
<1>. USE DEF tables
<1>. DEFINE t == match[m].ride
            c == match[m].chair
<1>1. /\ t \in RideIds /\ c \in ChairId /\ c # NoChair
      /\ rides[t].chair = NoChair
      /\ \A r \in RidesOfChair(c) : Released(r)
  <2>1. match[m].op = "assign"
    BY DEF MatchAssign
  <2>2. t \in RideIds /\ c \in ChairId
    BY <2>1, RequestTypes DEF Typed, MatchOK
  <2>3. c # NoChair
    BY <2>2, DispatchAssumption DEF ChairId
  <2>. QED  BY <2>1, <2>2, <2>3 DEF Safe, MatchStillAllowed
<1>2. UNCHANGED <<log, userReq, chairReq, acked>> /\ match' = [match EXCEPT ![m] = Idle]
  BY DEF MatchAssign
<1>. HIDE DEF c
<1>3. /\ RideIds' = RideIds
      /\ \A r \in RideIds : /\ rides'[r].user = rides[r].user
                            /\ rides'[r].chair = IF r = t THEN c ELSE rides[r].chair
  <2>1. \A r \in RideIds : rides[r] \in Ride
    BY ElementOfSeq DEF Typed, RowsOK, RideIds
  <2>2. rides' = [rides EXCEPT ![t].chair = c]
    BY DEF MatchAssign, c
  <2>. HIDE DEF t
  <2>. QED  BY <2>1, <2>2 DEF RideIds, Ride
<1>. HIDE DEF t
<1>4. \A r \in RideIds : Rows(r)' = Rows(r) /\ (Released(r)' <=> Released(r))
  BY <1>2 DEF Rows, Released
<1>5. StatusLogIsPath'
  BY <1>2, <1>3 DEF Safe, TableInv, StatusLogIsPath
<1>6. OnlyAssignedRidesMove'
  <2>1. ASSUME NEW r \in RideIds
        PROVE  /\ rides'[r].chair = NoChair => Rows(r)' = 1
               /\ Rows(r)' > 1 => <<rides'[r].chair, r>> \in acked'
    <3>0. /\ rides[r].chair = NoChair => Rows(r) = 1
          /\ Rows(r) > 1 => <<rides[r].chair, r>> \in acked
          /\ Rows(r)' = Rows(r)
      BY <1>4 DEF Safe, TableInv, OnlyAssignedRidesMove
    <3>1. CASE r = t
      BY <1>1, <1>3, <3>0, <3>1
    <3>2. CASE r # t
      BY <1>2, <1>3, <3>0, <3>2
    <3>. QED  BY <3>1, <3>2
  <2>. QED  BY <1>3, <2>1 DEF OnlyAssignedRidesMove
<1>7. UserRidesInTurn'
  BY <1>3, <1>4 DEF Safe, TableInv, UserRidesInTurn
<1>8. ChairRidesInTurn'
  BY <1>1, <1>3, <1>4 DEF Safe, TableInv, ChairRidesInTurn, RidesOfChair
<1>9. BookingStillAllowed'
  BY <1>2, <1>3, <1>4 DEF Safe, BookingStillAllowed, RidesOf
<1>10. RatingStillAllowed'
  <2>1. \A u \in Users, k \in UserConns :
          userReq[<<u, k>>].op = "rate" => userReq[<<u, k>>].ride \in RideIds
    BY DEF Typed, UserReqOK
  <2>. QED  BY <1>1, <1>2, <1>3, <1>4, <2>1 DEF Safe, RatingStillAllowed
<1>11. MoveStillAllowed'
  <2>1. \A d \in Chairs, k \in ChairConns :
          chairReq[<<d, k>>].op = "move" => chairReq[<<d, k>>].ride \in RideIds
    BY DEF Typed, ChairReqOK
  <2>2. \A d \in Chairs : d # NoChair
    BY DispatchAssumption
  <2>. QED  BY <1>1, <1>2, <1>3, <1>4, <2>1, <2>2 DEF Safe, MoveStillAllowed
<1>12. MatchStillAllowed'
  <2>1. \A l \in Matchers : match'[l].op = "idle"
    BY <1>2, RequestTypes DEF Serial, Typed, MatchOK
  <2>. QED  BY <2>1 DEF MatchStillAllowed
<1>. QED
  BY <1>5, <1>6, <1>7, <1>8, <1>9, <1>10, <1>11, <1>12 DEF Safe, TableInv

LEMMA MatchSafe ==
  ASSUME Serial, Typed, Typed', Safe, NEW m \in Matchers, MatchStep(m)
  PROVE  Safe'
<1>. USE DEF tables
<1>0. /\ UNCHANGED rides => SameRides
      /\ StatusLogIsPath
      /\ match'[m] \in MatchRequest
  BY DEF SameRides, RideIds, Safe, TableInv, Typed, MatchOK
<1>1. ASSUME UNCHANGED <<tables, userReq, chairReq, acked>>,
             NEW new \in MatchRequest, match' = [match EXCEPT ![m] = new],
             new.op # "idle" => /\ new.ride \in RideIds
                                /\ rides[new.ride].chair = NoChair,
             new.op = "assign" => \A r \in RidesOfChair(new.chair) : Released(r)
      PROVE  Safe'
  <2>1. TableInv' /\ Still
    BY <1>0, <1>1, StillStep DEF Safe
  <2>2. MatchStillAllowed'
    BY <1>1, <2>1, MatchRequestSet DEF Safe
  <2>. QED  BY <1>1, <2>1, <2>2, RequestsKept DEF Safe
<1>2. CASE MatchRide(m)
  <2>1. PICK r \in RidesOfChair(NoChair) :
          match' = [match EXCEPT ![m] = [op |-> "pick", ride |-> r,
                                         chair |-> BlankChair, tries |-> 0]]
    BY <1>2 DEF MatchRide
  <2>2. r \in RideIds /\ rides[r].chair = NoChair
    BY DEF RidesOfChair
  <2>3. [op |-> "pick", ride |-> r, chair |-> BlankChair, tries |-> 0] \in MatchRequest
    BY <2>2 DEF MatchRequest, ChairId, RideIds, Typed, RowsOK
  <2>. QED  BY <1>1, <1>2, <2>1, <2>2, <2>3 DEF MatchRide
\* The request goes on with the same ride.
<1>3. ASSUME match[m].op # "idle", NEW new \in MatchRequest,
             match' = [match EXCEPT ![m] = new], new.ride = match[m].ride,
             UNCHANGED <<tables, userReq, chairReq, acked>>,
             new.op = "assign" => \A r \in RidesOfChair(new.chair) : Released(r)
      PROVE  Safe'
  <2>1. match[m].ride \in RideIds /\ rides[match[m].ride].chair = NoChair
    BY <1>3 DEF Typed, MatchOK, Safe, MatchStillAllowed
  <2>. QED  BY <1>1, <1>3, <2>1
<1>4. match[m].op # "idle" =>
        match[m] \in [op : {"pick", "check", "assign"}, ride : Nat,
                      chair : ChairId, tries : Nat]
  BY RequestTypes DEF Typed, MatchOK
<1>5. ASSUME NEW c \in Chairs, MatchChair(m, c)
      PROVE  Safe'
  <2>. DEFINE new == [match[m] EXCEPT !.op = "check", !.chair = c]
  <2>1. match' = [match EXCEPT ![m] = new] /\ match[m].op # "idle"
    BY <1>5 DEF MatchChair
  <2>2. new.op = "check" /\ new.ride = match[m].ride
    BY <1>4, <2>1
  <2>3. UNCHANGED <<tables, userReq, chairReq, acked>>
    BY <1>5 DEF MatchChair
  <2>. HIDE DEF new
  <2>4. new \in MatchRequest
    BY <1>0, <2>1 DEF Typed, MatchOK
  <2>. QED  BY <1>3, <2>1, <2>2, <2>3, <2>4
<1>6. CASE MatchNoChair(m)
  BY <1>1, <1>6, RequestTypes DEF MatchNoChair
<1>7. CASE MatchChairError(m)
  <2>. DEFINE new == [match[m] EXCEPT !.op = "check"]
  <2>1. match' = [match EXCEPT ![m] = new] /\ match[m].op # "idle"
    BY <1>7 DEF MatchChairError
  <2>2. new.op = "check" /\ new.ride = match[m].ride
    BY <1>4, <2>1
  <2>3. UNCHANGED <<tables, userReq, chairReq, acked>>
    BY <1>7 DEF MatchChairError
  <2>. HIDE DEF new
  <2>4. new \in MatchRequest
    BY <1>0, <2>1 DEF Typed, MatchOK
  <2>. QED  BY <1>3, <2>1, <2>2, <2>3, <2>4
<1>8. CASE MatchCheck(m)
  <2>1. match[m].op # "idle" /\ UNCHANGED <<tables, userReq, chairReq, acked>>
    BY <1>8 DEF MatchCheck
  <2>2. CASE Free(match[m].chair)
    <3>. DEFINE new == [match[m] EXCEPT !.op = "assign"]
    <3>1. match' = [match EXCEPT ![m] = new]
      BY <1>8, <2>2 DEF MatchCheck
    <3>2. new.ride = match[m].ride /\ new.chair = match[m].chair
      BY <1>4, <2>1
    <3>3. \A r \in RidesOfChair(match[m].chair) : Released(r)
      BY <1>0, <2>2, FreeIsReleased
    <3>. HIDE DEF new
    <3>4. new \in MatchRequest
      BY <1>0, <3>1 DEF Typed, MatchOK
    <3>. QED  BY <1>3, <2>1, <3>1, <3>2, <3>3, <3>4
  <2>3. CASE ~Free(match[m].chair) /\ match[m].tries + 1 < MaxTries
    <3>. DEFINE new == [match[m] EXCEPT !.op = "pick",
                                        !.tries = match[m].tries + 1]
    <3>1. match' = [match EXCEPT ![m] = new]
      BY <1>8, <2>3, Zenon DEF MatchCheck
    <3>2. new.ride = match[m].ride /\ new.op = "pick"
      BY <1>4, <2>1
    <3>. HIDE DEF new
    <3>3. new \in MatchRequest
      BY <1>0, <3>1 DEF Typed, MatchOK
    <3>. QED  BY <1>3, <2>1, <3>1, <3>2, <3>3
  <2>4. CASE ~Free(match[m].chair) /\ ~(match[m].tries + 1 < MaxTries)
    <3>1. match' = [match EXCEPT ![m] = Idle]
      BY <1>8, <2>4 DEF MatchCheck
    <3>. QED  BY <1>1, <2>1, <3>1, RequestTypes
  <2>. QED  BY <2>2, <2>3, <2>4
<1>9. CASE MatchAbort(m)
  BY <1>1, <1>9, RequestTypes DEF MatchAbort
<1>. QED
  BY <1>2, <1>5, <1>6, <1>7, <1>8, <1>9, AssignSafe DEF MatchStep

LEMMA InitSafe == Init => Safe
<1>. SUFFICES ASSUME Init PROVE Safe
  OBVIOUS
<1>1. RideIds = {}
  BY DEF Init, RideIds
<1>2. TableInv
  BY <1>1 DEF TableInv, StatusLogIsPath, OnlyAssignedRidesMove, UserRidesInTurn,
              ChairRidesInTurn
<1>. QED
  BY <1>2, RequestTypes DEF Init, Safe, BookingStillAllowed, RatingStillAllowed,
                            MoveStillAllowed, MatchStillAllowed

LEMMA NextSafe ==
  ASSUME Serial, Typed, Typed', Safe, [Next]_vars
  PROVE  Safe'
<1>1. CASE UNCHANGED vars
  <2>1. TableInv' /\ Still
    BY <1>1, StillStep DEF vars, Safe, SameRides, RideIds
  <2>. QED  BY <1>1, <2>1, RequestsKept DEF vars, Safe
<1>2. CASE Settled
  BY <1>1, <1>2 DEF Settled
<1>. QED  BY <1>1, <1>2, UserSafe, ChairSafe, MatchSafe DEF Next

\* With one connection per client and one matcher, what a handler has checked
\* is still true when it writes, for any number of users, chairs and rides.
THEOREM Invariance ==
  ASSUME Serial
  PROVE  Spec => []IInv
<1>1. Typed /\ Safe => IInv
  BY TypedIsTypeOK DEF Safe, IInv
<1>2. Typed /\ Safe /\ [Next]_vars => Typed' /\ Safe'
  BY NextType, NextSafe
<1>. QED  BY <1>1, <1>2, InitType, InitSafe, PTL DEF Spec

-----------------------------------------------------------------------------
(* The properties.                                                         *)

LEMMA SafeImplies ==
  ASSUME Typed, Safe
  PROVE  OneOpenRidePerUser /\ OneOpenRidePerChair
<1>1. StatusLogIsPath
  BY DEF Safe, TableInv
<1>2. \A r \in RideIds : Completed(r) <=> Rows(r) = FullLog
  BY <1>1, LatestNames DEF Completed, FullLog
<1>3. OneOpenRidePerUser
  <2>1. ASSUME NEW r \in RideIds, NEW s \in RideIds, r # s,
               rides[r].user = rides[s].user
        PROVE  Rows(r) = FullLog \/ Rows(s) = FullLog
    <3>1. r < s \/ s < r
      BY <2>1, RideIdsAre
    <3>. QED  BY <2>1, <3>1 DEF Safe, TableInv, UserRidesInTurn
  <2>. QED  BY <1>2, <2>1 DEF OneOpenRidePerUser
<1>4. OneOpenRidePerChair
  BY <1>1, FullySentIsReleased DEF Safe, TableInv, ChairRidesInTurn, OneOpenRidePerChair
<1>. QED  BY <1>3, <1>4

LEMMA TypedSafe ==
  ASSUME Serial
  PROVE  Spec => [](Typed /\ Safe)
<1>1. Typed /\ Safe /\ [Next]_vars => Typed' /\ Safe'
  BY NextType, NextSafe
<1>. QED  BY <1>1, InitType, InitSafe, PTL DEF Spec

\* The rows of a ride run through the six states in order.
THEOREM StatusPath ==
  ASSUME Serial
  PROVE  Spec => []StatusLogIsPath
<1>1. Typed /\ Safe => StatusLogIsPath
  BY DEF Safe, TableInv
<1>. QED  BY <1>1, TypedSafe, PTL

\* A user never has two rides that are not COMPLETED.
THEOREM UserExclusion ==
  ASSUME Serial
  PROVE  Spec => []OneOpenRidePerUser
<1>1. Typed /\ Safe => OneOpenRidePerUser
  BY SafeImplies
<1>. QED  BY <1>1, TypedSafe, PTL

\* A chair never has two unfinished rides.
THEOREM ChairExclusion ==
  ASSUME Serial
  PROVE  Spec => []OneOpenRidePerChair
<1>1. Typed /\ Safe => OneOpenRidePerChair
  BY SafeImplies
<1>. QED  BY <1>1, TypedSafe, PTL

\* Only the matcher's UPDATE gives a ride another chair.
LEMMA OnlyMatchAssigns ==
  ASSUME Typed, [Next]_vars, NEW r \in RideIds, rides'[r].chair # rides[r].chair
  PROVE  \E m \in Matchers : MatchAssign(m) /\ match[m].ride = r
<1>. USE DEF tables
<1>1. rides' # rides
  OBVIOUS
<1>2. rides \in Seq(Ride) /\ r \in 1 .. Len(rides) /\ rides[r] \in Ride
  BY ElementOfSeq DEF Typed, RowsOK, RideIds
<1>3. ASSUME NEW u \in Users, UserStep(u) PROVE FALSE
  <2>1. PICK k \in UserConns : BookCommit(u, k) \/ RateCommit(u, k)
    BY <1>1, <1>3 DEF UserStep, RegisterPaymentMethod, AppNotify, BookBegin,
       RateBegin, RateUpdate, RatePay, UserAbort, LatePayment
  <2>2. CASE BookCommit(u, k)
    <3>1. PICK ride : rides' = Append(rides, ride)
      BY <2>2 DEF BookCommit
    <3>. QED  BY <1>2, <3>1
  <2>3. CASE RateCommit(u, k)
    <3>1. PICK t, e : rides' = [rides EXCEPT ![t].evaluation = e]
      BY <2>3 DEF RateCommit
    <3>2. [rides[r] EXCEPT !.evaluation = e].chair = rides[r].chair
      BY <1>2 DEF Ride
    <3>. QED  BY <1>2, <3>1, <3>2
  <2>. QED  BY <2>1, <2>2, <2>3
<1>4. ASSUME NEW c \in Chairs, ChairStep(c) PROVE FALSE
  BY <1>1, <1>4 DEF ChairStep, SetActivity, ChairNotify, Accept, Depart, MoveBegin,
     MoveCommit, ChairAbort
<1>5. ASSUME NEW m \in Matchers, MatchStep(m)
      PROVE  MatchAssign(m) /\ match[m].ride = r
  <2>1. MatchAssign(m)
    BY <1>1, <1>5 DEF MatchStep, MatchRide, MatchChair, MatchNoChair, MatchChairError,
       MatchCheck, MatchAbort
  <2>2. rides' = [rides EXCEPT ![match[m].ride].chair = match[m].chair]
    BY <2>1 DEF MatchAssign
  <2>. QED  BY <1>2, <2>1, <2>2
<1>6. ~UNCHANGED vars /\ ~Settled
  BY <1>1 DEF vars, Settled
<1>. QED  BY <1>3, <1>4, <1>5, <1>6 DEF Next

\* A ride gets one chair, once, and one that has been told of the end of each
\* of its earlier rides.
THEOREM AssignmentSafe ==
  ASSUME Serial
  PROVE  Spec => AssignedOnceToFreeChair
<1>1. ASSUME Typed, Typed', Safe, [Next]_vars, NEW r \in RideIds,
             rides'[r].chair # rides[r].chair
      PROVE  rides[r].chair = NoChair /\ Free(rides'[r].chair)
  <2>1. PICK m \in Matchers : MatchAssign(m) /\ match[m].ride = r
    BY <1>1, OnlyMatchAssigns
  <2>2. match[m].op = "assign"
    BY <2>1 DEF MatchAssign
  <2>3. rides[r].chair = NoChair
    BY <1>1, <2>1, <2>2 DEF Safe, MatchStillAllowed
  <2>4. rides'[r].chair = match[m].chair
    <3>1. rides \in Seq(Ride) /\ r \in DOMAIN rides /\ rides[r] \in Ride
      BY <1>1, ElementOfSeq DEF Typed, RowsOK, RideIds
    <3>2. rides' = [rides EXCEPT ![r].chair = match[m].chair]
      BY <2>1 DEF MatchAssign
    <3>. QED  BY <3>1, <3>2 DEF Ride
  <2>5. \A s \in RidesOfChair(match[m].chair) : Released(s)
    BY <1>1, <2>2 DEF Safe, MatchStillAllowed
  <2>6. Free(match[m].chair)
    BY <1>1, <2>5, FreeIsReleased DEF Safe, TableInv
  <2>. QED  BY <2>3, <2>4, <2>6
<1>2. Typed /\ Typed' /\ Safe /\ [Next]_vars
        => [\A r \in RideIds :
              rides'[r].chair # rides[r].chair
                => rides[r].chair = NoChair /\ Free(rides'[r].chair)]_vars
  BY <1>1
<1>. QED  BY <1>2, TypedSafe, PTL DEF Spec, AssignedOnceToFreeChair

-----------------------------------------------------------------------------
(***************************************************************************)
(* Dispatch implements RideService: every step of a handler is a step of   *)
(* the ride life cycle, or leaves it alone.                                *)
(***************************************************************************)

(* The kinds of steps.                                                     *)

\* At most flags are set.
Quiet == SameRides /\ \A r \in RideIds : SameRows(r)

\* A ride with a chair gets the row of its next state.
Moves(t) ==
  /\ SameRides /\ NextRow(t) /\ rides[t].chair # NoChair
  /\ \A r \in RideIds : r # t => log'[r] = log[r]

LEMMA QuietSteps ==
  ASSUME Typed,
         \/ UNCHANGED <<rides, log>>
         \/ /\ UNCHANGED rides
            /\ \E r \in RideIds : \E i \in DOMAIN log[r] :
                 \/ log' = [log EXCEPT ![r][i].app = TRUE]
                 \/ log' = [log EXCEPT ![r][i].chair = TRUE]
  PROVE  Quiet
<1>1. SameRides
  BY DEF SameRides, RideIds
<1>2. CASE UNCHANGED log
  BY <1>1, <1>2 DEF Quiet, SameRows
<1>3. ASSUME NEW r \in RideIds, NEW i \in DOMAIN log[r],
             \/ log' = [log EXCEPT ![r][i].app = TRUE]
             \/ log' = [log EXCEPT ![r][i].chair = TRUE]
      PROVE  Quiet
  <2>1. PICK flag \in {"app", "chair"} : log' = [log EXCEPT ![r][i][flag] = TRUE]
    BY <1>3
  <2>. QED  BY <1>1, <2>1, FlagIsSameRows DEF Quiet
<1>. QED  BY <1>2, <1>3

LEMMA UserStepKinds ==
  ASSUME Serial, Typed, Safe, NEW u \in Users, UserStep(u)
  PROVE  \/ Quiet
         \/ \E t \in RideIds : Moves(t)
         \/ \E k \in UserConns : BookCommit(u, k)
<1>. USE DEF tables
<1>1. CASE AppNotify(u)
  <2>1. PICK r \in LatestOfUser(u) : \E i \in OldestUnsent(r, "app") :
          log' = [log EXCEPT ![r][i].app = TRUE]
    BY <1>1 DEF AppNotify
  <2>2. PICK i \in OldestUnsent(r, "app") : log' = [log EXCEPT ![r][i].app = TRUE]
    BY <2>1
  <2>3. r \in RideIds /\ i \in DOMAIN log[r]
    BY <2>1, <2>2 DEF LatestOfUser, RidesOf, OldestUnsent
  <2>4. UNCHANGED rides
    BY <1>1 DEF AppNotify
  <2>. QED  BY <2>2, <2>3, <2>4, QuietSteps
<1>2. ASSUME NEW k \in UserConns, RateCommit(u, k)
      PROVE  \E t \in RideIds : Moves(t)
  <2>. DEFINE t == userReq[<<u, k>>].ride
  <2>1. t \in RideIds /\ Rows(t) = 5 /\ rides[t].chair # NoChair
    BY <1>2 DEF RateCommit, Safe, RatingStillAllowed, Typed, UserReqOK
  <2>2. SameRides
    <3>1. \A r \in RideIds : rides[r] \in Ride
      BY ElementOfSeq DEF Typed, RowsOK, RideIds
    <3>2. rides' = [rides EXCEPT ![t].evaluation = userReq[<<u, k>>].evaluation]
      BY <1>2 DEF RateCommit
    <3>. HIDE DEF t
    <3>. QED  BY <3>1, <3>2 DEF SameRides, RideIds, Ride
  <2>3. AddStatus(t, "COMPLETED") /\ "COMPLETED" = Flow[Rows(t) + 1]
    BY <1>2, <2>1 DEF RateCommit, Flow
  <2>4. "COMPLETED" \in Status
    BY DEF Status
  <2>. HIDE DEF t
  <2>5. NextRow(t) /\ \A r \in RideIds : r # t => log'[r] = log[r]
    BY <2>1, <2>3, <2>4, AddIsNextRow DEF Safe
  <2>. QED  BY <2>1, <2>2, <2>5 DEF Moves
<1>3. \/ AppNotify(u) \/ \E k \in UserConns : RateCommit(u, k) \/ BookCommit(u, k)
      \/ UNCHANGED <<rides, log>>
  BY DEF UserStep, RegisterPaymentMethod, BookBegin, RateBegin, RateUpdate, RatePay,
         UserAbort, LatePayment
<1>. QED  BY <1>1, <1>2, <1>3, QuietSteps

LEMMA ChairStepKinds ==
  ASSUME Serial, Typed, Safe, NEW c \in Chairs, ChairStep(c)
  PROVE  Quiet \/ \E t \in RideIds : Moves(t) /\ Rows(t) # 5
<1>. USE DEF tables
<1>0. StatusLogIsPath /\ c # NoChair /\ (UNCHANGED rides => SameRides)
  BY DispatchAssumption DEF Safe, TableInv, SameRides, RideIds
<1>1. CASE ChairNotify(c)
  <2>1. PICK r \in LatestOfChair(c) : \E i \in OldestUnsent(r, "chair") :
          log' = [log EXCEPT ![r][i].chair = TRUE]
    BY <1>1 DEF ChairNotify
  <2>2. PICK i \in OldestUnsent(r, "chair") : log' = [log EXCEPT ![r][i].chair = TRUE]
    BY <2>1
  <2>3. r \in RideIds /\ i \in DOMAIN log[r]
    BY <2>1, <2>2 DEF LatestOfChair, RidesOfChair, OldestUnsent
  <2>4. UNCHANGED rides
    BY <1>1 DEF ChairNotify
  <2>. QED  BY <2>2, <2>3, <2>4, QuietSteps
<1>2. ASSUME NEW t \in RideIds, rides[t].chair = c, Rows(t) \in {1, 2, 3, 4},
             NEW status \in Status, AddStatus(t, status),
             status = Flow[Rows(t) + 1], UNCHANGED rides
      PROVE  Moves(t) /\ Rows(t) # 5
  <2>1. NextRow(t) /\ \A r \in RideIds : r # t => log'[r] = log[r]
    BY <1>2, AddIsNextRow DEF Safe
  <2>. QED  BY <1>0, <1>2, <2>1 DEF Moves
<1>3. ASSUME NEW k \in ChairConns, NEW r \in RideIds, Accept(c, k, r)
      PROVE  Moves(r) /\ Rows(r) # 5
  <2>1. rides[r].chair = c /\ <<c, r>> \notin acked
    BY <1>3 DEF Accept, Knows, RidesOfChair
  <2>2. Rows(r) = 1
    <3>1. Rows(r) \in 1 .. 6
      BY <1>0, LatestIsFlow
    <3>. QED  BY <2>1, <3>1 DEF Safe, TableInv, OnlyAssignedRidesMove
  <2>3. AddStatus(r, "ENROUTE") /\ "ENROUTE" = Flow[Rows(r) + 1] /\ "ENROUTE" \in Status
    BY <1>3, <2>2 DEF Accept, Flow, Status
  <2>4. UNCHANGED rides
    BY <1>3 DEF Accept
  <2>. QED  BY <1>2, <2>1, <2>2, <2>3, <2>4
<1>4. ASSUME NEW k \in ChairConns, NEW r \in RideIds, Depart(c, k, r)
      PROVE  Moves(r) /\ Rows(r) # 5
  <2>1. rides[r].chair = c
    BY <1>4 DEF Depart, Knows, RidesOfChair
  <2>2. Rows(r) = 3
    BY <1>0, <1>4, LatestNames DEF Depart
  <2>3. AddStatus(r, "CARRYING") /\ "CARRYING" = Flow[Rows(r) + 1] /\ "CARRYING" \in Status
    BY <1>4, <2>2 DEF Depart, Flow, Status
  <2>4. UNCHANGED rides
    BY <1>4 DEF Depart
  <2>. QED  BY <1>2, <2>1, <2>2, <2>3, <2>4
<1>5. ASSUME NEW k \in ChairConns, MoveCommit(c, k)
      PROVE  \E t \in RideIds : Moves(t) /\ Rows(t) # 5
  <2>. DEFINE req == chairReq[<<c, k>>]
  <2>1. /\ req.ride \in RideIds /\ req.status \in Status
        /\ rides[req.ride].chair = c /\ Rows(req.ride) \in {2, 4}
        /\ req.status = Flow[Rows(req.ride) + 1]
    BY <1>5, RequestTypes DEF MoveCommit, Safe, MoveStillAllowed, Typed, ChairReqOK
  <2>2. AddStatus(req.ride, req.status) /\ UNCHANGED rides
    BY <1>5 DEF MoveCommit
  <2>. HIDE DEF req
  <2>. QED  BY <1>2, <2>1, <2>2
<1>6. \/ ChairNotify(c) \/ UNCHANGED <<rides, log>>
      \/ \E k \in ChairConns : \/ \E r \in RideIds : Accept(c, k, r) \/ Depart(c, k, r)
                          \/ MoveCommit(c, k)
  BY DEF ChairStep, SetActivity, MoveBegin, ChairAbort
<1>. QED  BY <1>1, <1>3, <1>4, <1>5, <1>6, QuietSteps

LEMMA StepKinds ==
  ASSUME Serial, Typed, Safe, [Next]_vars
  PROVE  \/ Quiet
         \/ \E t \in RideIds : Moves(t)
         \/ \E u \in Users, k \in UserConns : BookCommit(u, k)
         \/ \E m \in Matchers : MatchAssign(m)
<1>. USE DEF tables
<1>1. ASSUME NEW m \in Matchers, MatchStep(m)
      PROVE  MatchAssign(m) \/ UNCHANGED <<rides, log>>
  BY <1>1 DEF MatchStep, MatchRide, MatchChair, MatchNoChair, MatchChairError,
              MatchCheck, MatchAbort
<1>2. UNCHANGED vars \/ Settled => UNCHANGED <<rides, log>>
  BY DEF vars, Settled
<1>. QED
  BY <1>1, <1>2, UserStepKinds, ChairStepKinds, QuietSteps DEF Next

-----------------------------------------------------------------------------
(* The mapping.                                                            *)

Trip(r) == [user |-> rides[r].user, chair |-> rides[r].chair,
            status |-> LatestStatus(r)]

LEMMA TripsAre == Trips = [r \in RideIds |-> Trip(r)]
  BY DEF Trips, Trip

LEMMA TripFields ==
  ASSUME NEW r
  PROVE  /\ Trip(r).user = rides[r].user /\ Trip(r).chair = rides[r].chair
         /\ Trip(r).status = LatestStatus(r)
  BY DEF Trip

LEMMA QuietTrips ==
  ASSUME Typed, Safe, Quiet
  PROVE  Trips' = Trips
<1>1. ASSUME NEW r \in RideIds PROVE Trip(r)' = Trip(r)
  <2>1. LatestStatus(r)' = LatestStatus(r)
    <3>1. Rows(r) \in 1 .. 6 /\ log[r] \in Seq(StatusRow)
      BY LatestIsFlow DEF Safe, TableInv
    <3>2. SameRows(r)
      BY DEF Quiet
    <3>3. /\ Len(log'[r]) = Len(log[r])
          /\ log'[r][Len(log[r])].status = log[r][Len(log[r])].status
      <4>1. \A n \in 1 .. 6 : n \in 1 .. n
        OBVIOUS
      <4>2. Len(log[r]) \in 1 .. 6
        BY <3>1, Zenon DEF Rows
      <4>3. Len(log[r]) \in 1 .. Len(log[r])
        BY <4>1, <4>2, Zenon
      <4>. QED  BY <3>2, <4>3, Zenon DEF SameRows
    <3>. QED  BY <3>3, Zenon DEF LatestStatus
  <2>. QED  BY <2>1 DEF Quiet, SameRides, Trip
<1>2. RideIds' = RideIds
  BY DEF Quiet, SameRides
<1>3. Trips' = [r \in RideIds' |-> Trip(r)']
  BY DEF Trips, Trip
<1>. QED  BY <1>1, <1>2, <1>3, TripsAre

LEMMA MoveTrips ==
  ASSUME Typed, Safe, NEW t \in RideIds, Moves(t)
  PROVE  Service!Advance(t)
<1>1. /\ Rows(t) \in 1 .. 5 /\ LatestStatus(t) = Flow[Rows(t)]
      /\ LatestStatus(t)' = Flow[Rows(t) + 1]
  <2>1. Rows(t) \in 1 .. 6 /\ LatestStatus(t) = Flow[Rows(t)]
    BY LatestIsFlow DEF Safe, TableInv
  <2>. QED  BY <2>1 DEF Moves, NextRow, Rows, LatestStatus
<1>2. \A r \in RideIds : r # t => LatestStatus(r)' = LatestStatus(r)
  BY DEF Moves, LatestStatus
<1>3. Trips' = [r \in RideIds' |-> Trip(r)'] /\ RideIds' = RideIds
  BY DEF Trips, Trip, Moves, SameRides
<1>4. ASSUME NEW r \in RideIds
      PROVE  Trip(r)' = IF r = t THEN [Trip(r) EXCEPT !.status = Flow[Rows(t) + 1]]
                                 ELSE Trip(r)
  BY <1>1, <1>2 DEF Trip, Moves, SameRides
<1>5. Trips' = [Trips EXCEPT ![t].status = Flow[Rows(t) + 1]]
  BY <1>3, <1>4, TripsAre
<1>6. Trips[t].chair # NoChair /\ Trips[t].status = Flow[Rows(t)]
  BY <1>1, TripsAre, TripFields DEF Moves
<1>7. Service!Flow = Flow /\ Service!FullLog = 6
  BY DEF Service!FullLog, FullLog, Service!Flow, Flow
<1>8. Rows(t) \in 1 .. Service!FullLog - 1
  BY <1>1, <1>7
<1>. QED  BY <1>5, <1>6, <1>7, <1>8, Zenon DEF Service!Advance

LEMMA BookTrips ==
  ASSUME Serial, Typed, Safe, NEW u \in Users, NEW k \in UserConns, BookCommit(u, k)
  PROVE  Service!Request(u)
<1>. DEFINE n == Len(rides)
            trip == [user |-> u, chair |-> NoChair, status |-> "MATCHING"]
<1>1. PICK ride : /\ rides' = Append(rides, ride)
                  /\ ride.user = u /\ ride.chair = NoChair
  BY DEF BookCommit
<1>2. log' = Append(log, <<NewRow("MATCHING")>>)
  BY DEF BookCommit
<1>3. /\ RideIds = 1 .. n /\ n \in Nat /\ DOMAIN log = RideIds /\ Len(log) = n
      /\ rides \in Seq(Ride) /\ log \in Seq(Seq(StatusRow))
  BY RideIdsAre DEF Typed, RowsOK
<1>4. /\ RideIds' = 1 .. n + 1
      /\ \A r \in 1 .. n : rides'[r] = rides[r] /\ log'[r] = log[r]
      /\ rides'[n + 1] = ride /\ log'[n + 1] = <<NewRow("MATCHING")>>
  BY <1>1, <1>2, <1>3 DEF RideIds
<1>5. /\ \A r \in 1 .. n : Trip(r)' = Trip(r)
      /\ [user |-> rides'[n + 1].user, chair |-> rides'[n + 1].chair,
          status |-> log'[n + 1][Len(log'[n + 1])].status] = trip
  BY <1>1, <1>4, SMTT(30) DEF Trip, LatestStatus, NewRow
<1>6. Trips' = [r \in 1 .. n + 1 |-> IF r = n + 1 THEN trip ELSE Trip(r)]
  <2>1. Trips' = [r \in RideIds' |-> Trip(r)']
    BY DEF Trips, Trip
  <2>2. ASSUME NEW r \in 1 .. n + 1
        PROVE  Trip(r)' = IF r = n + 1 THEN trip ELSE Trip(r)
    <3>1. CASE r \in 1 .. n
      BY <1>3, <1>5, <3>1
    <3>2. CASE r = n + 1
      <4>1. Trip(r)' = [user |-> rides'[r].user, chair |-> rides'[r].chair,
                        status |-> log'[r][Len(log'[r])].status]
        BY DEF Trip, LatestStatus
      <4>. QED  BY <1>5, <3>2, <4>1
    <3>. QED  BY <1>3, <3>1, <3>2
  <2>. QED  BY <1>4, <2>1, <2>2
<1>7. Trips = [r \in 1 .. n |-> Trip(r)]
  BY <1>3, TripsAre
<1>8. Trips' = Append(Trips, trip)
  <2>. DEFINE All == {Trip(r) : r \in 1 .. n} \cup {trip}
  <2>1. Trips \in Seq(All) /\ Len(Trips) = n
    <3>1. Trips \in [1 .. n -> All]
      BY <1>7
    <3>. HIDE DEF All
    <3>. QED  BY <1>3, <3>1
  <2>2. /\ Append(Trips, trip) \in Seq(All)
        /\ Len(Append(Trips, trip)) = n + 1
        /\ \A i \in 1 .. n : Append(Trips, trip)[i] = Trips[i]
        /\ Append(Trips, trip)[n + 1] = trip
    BY <2>1, AppendProperties
  <2>3. Trips' \in Seq(All) /\ Len(Trips') = n + 1
    <3>1. Trips' \in [1 .. n + 1 -> All]
      <4>1. ASSUME NEW r \in 1 .. n + 1
            PROVE  (IF r = n + 1 THEN trip ELSE Trip(r)) \in All
        BY <1>3
      <4>. QED  BY <1>6, <4>1
    <3>2. ASSUME NEW S, NEW k1 \in Nat, NEW f \in [1 .. k1 -> S]
          PROVE  f \in Seq(S) /\ Len(f) = k1
      OBVIOUS
    <3>. HIDE DEF All
    <3>3. n + 1 \in Nat
      BY <1>3
    <3>. QED  BY <3>1, <3>2, <3>3
  <2>. QED  BY <1>3, <1>6, <1>7, <2>2, <2>3, SeqEqual
<1>9. ASSUME NEW r \in DOMAIN Trips, Trips[r].user = u
      PROVE  Trips[r].status = "COMPLETED"
  <2>1. r \in RideIds /\ rides[r].user = u
    BY <1>3, <1>7, <1>9, TripFields
  <2>2. Rows(r) = 6
    BY <2>1 DEF BookCommit, Safe, BookingStillAllowed, RidesOf, FullLog
  <2>3. LatestStatus(r) = "COMPLETED"
    BY <2>1, <2>2, LatestNames DEF Safe, TableInv
  <2>. QED  BY <1>9, <1>7, <2>3, TripFields
<1>. QED  BY <1>8, <1>9 DEF Service!Request

LEMMA AssignTrips ==
  ASSUME Serial, Typed, Safe, NEW m \in Matchers, MatchAssign(m)
  PROVE  \E t \in RideIds, c \in ChairId : Service!Assign(t, c)
<1>. DEFINE t == match[m].ride
            c == match[m].chair
<1>1. /\ t \in RideIds /\ c \in ChairId /\ rides[t].chair = NoChair
      /\ \A r \in RidesOfChair(c) : Released(r)
  <2>1. match[m].op = "assign"
    BY DEF MatchAssign
  <2>2. t \in RideIds /\ c \in ChairId
    BY <2>1, RequestTypes DEF Typed, MatchOK
  <2>. QED  BY <2>1, <2>2 DEF Safe, MatchStillAllowed
<1>2. rides' = [rides EXCEPT ![t].chair = c] /\ UNCHANGED log
  BY DEF MatchAssign
<1>. HIDE DEF t, c
<1>3. /\ RideIds' = RideIds
      /\ \A r \in RideIds : /\ rides'[r].user = rides[r].user
                            /\ rides'[r].chair = IF r = t THEN c ELSE rides[r].chair
  <2>1. \A r \in RideIds : rides[r] \in Ride
    BY ElementOfSeq DEF Typed, RowsOK, RideIds
  <2>. QED  BY <1>2, <2>1 DEF RideIds, Ride
<1>4. \A r \in RideIds : LatestStatus(r)' = LatestStatus(r)
  BY <1>2 DEF LatestStatus
<1>5. Trips' = [r \in RideIds' |-> Trip(r)']
  BY DEF Trips, Trip
<1>6. ASSUME NEW r \in RideIds
      PROVE  Trip(r)' = IF r = t THEN [Trip(r) EXCEPT !.chair = c] ELSE Trip(r)
  BY <1>3, <1>4 DEF Trip
<1>7. Trips' = [Trips EXCEPT ![t].chair = c]
  BY <1>3, <1>5, <1>6, TripsAre
<1>8. Trips[t].chair = NoChair /\ Trips[t].status = "MATCHING"
  <2>1. Rows(t) = 1
    BY <1>1 DEF Safe, TableInv, OnlyAssignedRidesMove
  <2>2. LatestStatus(t) = "MATCHING"
    BY <1>1, <2>1, LatestIsFlow DEF Flow, Safe, TableInv
  <2>. QED  BY <1>1, <2>2, TripsAre, TripFields
<1>9. ASSUME NEW s \in DOMAIN Trips, Trips[s].chair = c
      PROVE  Trips[s].status = "COMPLETED"
  <2>1. s \in RidesOfChair(c)
    BY <1>9, TripsAre, TripFields DEF RidesOfChair
  <2>2. Rows(s) = 6 /\ s \in RideIds
    BY <1>1, <2>1 DEF Released, RidesOfChair, FullLog
  <2>3. LatestStatus(s) = "COMPLETED"
    BY <2>2, LatestNames DEF Safe, TableInv
  <2>. QED  BY <2>2, <2>3, TripsAre, TripFields
<1>. QED  BY <1>1, <1>7, <1>8, <1>9 DEF Service!Assign

\* The handlers implement the ride life cycle: with one connection per client
\* and one matcher, each of their steps is one the user, the chair and the ride
\* may take at that point.
THEOREM Refinement ==
  ASSUME Serial
  PROVE  Spec => ImplementsRideService
<1>1. Init => Service!Init
  BY DEF Init, Service!Init, Trips, RideIds
<1>2. ASSUME Typed, Safe, [Next]_vars
      PROVE  [Service!Next]_Trips
  <2>0. DOMAIN Trips = RideIds
    BY TripsAre
  <2>1. CASE Quiet
    BY <1>2, <2>1, QuietTrips
  <2>2. CASE \E t \in RideIds : Moves(t)
    BY <1>2, <2>0, <2>2, MoveTrips DEF Service!Next
  <2>3. CASE \E u \in Users, k \in UserConns : BookCommit(u, k)
    BY <1>2, <2>3, BookTrips DEF Service!Next
  <2>4. CASE \E m \in Matchers : MatchAssign(m)
    BY <1>2, <2>0, <2>4, AssignTrips DEF Service!Next
  <2>. QED  BY <1>2, <2>1, <2>2, <2>3, <2>4, StepKinds
<1>. QED
  BY <1>1, <1>2, TypedSafe, PTL DEF Spec, ImplementsRideService, Service!Spec

-----------------------------------------------------------------------------
(***************************************************************************)
(* The properties that depend on updated_at and on the order of            *)
(* notifications.                                                          *)
(***************************************************************************)

(* updated_at.                                                             *)

\* The ranks of the rides are distinct.
Ranked ==
  /\ \A r \in RideIds : updatedAt[r] \in 1 .. Len(rides)
  /\ \A r, s \in RideIds : r # s => updatedAt[r] # updatedAt[s]

\* The ride a chair works on has been updated after its other ones.
WorkIsLatest ==
  \A r, s \in RideIds :
    /\ r # s /\ rides[r].chair = rides[s].chair
    /\ rides[r].chair # NoChair /\ ~Released(r)
    => updatedAt[s] < updatedAt[r]

OrderInv == Ranked /\ WorkIsLatest

\* The ride that is touched becomes the latest, the others keep their order.
LEMMA TouchOrder ==
  ASSUME Typed, Ranked, NEW t \in RideIds, Touch(t), RideIds' = RideIds,
         Len(rides') = Len(rides)
  PROVE  /\ Ranked'
         /\ \A s \in RideIds : s # t => updatedAt'[s] < updatedAt'[t]
         /\ \A r, s \in RideIds :
              r # t /\ s # t /\ updatedAt[s] < updatedAt[r]
                => updatedAt'[s] < updatedAt'[r]
<1>1. DOMAIN updatedAt = RideIds /\ Len(updatedAt) = Len(rides) /\ Len(rides) \in Nat
  BY DEF Typed, RowsOK, RideIds
<1>2. \A s \in RideIds :
        updatedAt'[s] = IF s = t THEN Len(rides)
                        ELSE IF updatedAt[s] > updatedAt[t] THEN updatedAt[s] - 1
                        ELSE updatedAt[s]
  BY <1>1 DEF Touch
<1>3. /\ \A s \in RideIds : updatedAt[s] \in 1 .. Len(rides)
      /\ \A r, s \in RideIds : r # s => updatedAt[r] # updatedAt[s]
  BY DEF Ranked
<1>4. \A s \in RideIds : s # t => updatedAt'[s] < updatedAt'[t]
  BY <1>1, <1>2, <1>3
<1>5. \A r, s \in RideIds :
        r # t /\ s # t /\ updatedAt[s] < updatedAt[r] => updatedAt'[s] < updatedAt'[r]
  BY <1>1, <1>2, <1>3
<1>6. \A r \in RideIds : updatedAt'[r] \in 1 .. Len(rides)
  BY <1>1, <1>2, <1>3
<1>7. ASSUME NEW r \in RideIds, NEW s \in RideIds, r # s
      PROVE  updatedAt'[r] # updatedAt'[s]
  <2>1. updatedAt'[r] \in Int /\ updatedAt'[s] \in Int
    BY <1>6
  <2>2. CASE r = t \/ s = t
    BY <1>4, <1>7, <2>1, <2>2
  <2>3. CASE r # t /\ s # t
    <3>1. updatedAt[r] < updatedAt[s] \/ updatedAt[s] < updatedAt[r]
      BY <1>1, <1>3, <1>7
    <3>. QED  BY <1>5, <2>1, <2>3, <3>1
  <2>. QED  BY <2>2, <2>3
<1>. QED  BY <1>4, <1>5, <1>6, <1>7 DEF Ranked

LEMMA ReleasedStays ==
  ASSUME Serial, Typed, Typed', Safe, [Next]_vars, NEW r \in RideIds, Released(r)
  PROVE  Released(r)'
<1>1. StatusLogIsPath
  BY DEF Safe, TableInv
<1>2. CASE Quiet
  <2>1. RideIds' = RideIds /\ \A s \in RideIds : SameRows(s) \/ NextRow(s)
    BY <1>2 DEF Quiet, SameRides
  <2>. QED  BY <1>1, <2>1, PathKept
<1>3. ASSUME NEW t \in RideIds, Moves(t)
      PROVE  Released(r)'
  <2>1. RideIds' = RideIds /\ \A s \in RideIds : SameRows(s) \/ NextRow(s)
    BY <1>3 DEF Moves, SameRides, SameRows
  <2>. QED  BY <1>1, <2>1, PathKept
<1>4. ASSUME NEW u \in Users, NEW k \in UserConns, BookCommit(u, k)
      PROVE  Released(r)'
  <2>1. log' = Append(log, <<NewRow("MATCHING")>>)
    BY <1>4 DEF BookCommit
  <2>2. log'[r] = log[r]
    BY <2>1, RideIdsAre DEF Typed, RowsOK
  <2>. QED  BY <2>2 DEF Released, Rows
<1>5. ASSUME NEW m \in Matchers, MatchAssign(m)
      PROVE  Released(r)'
  BY <1>5 DEF MatchAssign, Released, Rows
<1>. QED  BY <1>2, <1>3, <1>4, <1>5, StepKinds

\* The steps that touch a ride, or add one.
LEMMA TouchingSteps ==
  ASSUME Serial, Typed, Safe, [Next]_vars
  PROVE  \/ UNCHANGED updatedAt /\ SameRides /\ Len(rides') = Len(rides)
         \/ \E u \in Users, k \in UserConns : BookCommit(u, k) \/ RateCommit(u, k)
         \/ \E m \in Matchers : MatchAssign(m)
<1>. USE DEF tables
<1>1. UNCHANGED rides => SameRides /\ Len(rides') = Len(rides)
  BY DEF SameRides, RideIds
<1>2. ASSUME NEW u \in Users, UserStep(u)
      PROVE  \/ UNCHANGED <<rides, updatedAt>>
             \/ \E k \in UserConns : BookCommit(u, k) \/ RateCommit(u, k)
  BY <1>2 DEF UserStep, RegisterPaymentMethod, AppNotify, LatePayment, BookBegin,
    RateBegin, RateUpdate, RatePay, UserAbort
<1>3. ASSUME NEW c \in Chairs, ChairStep(c)
      PROVE  UNCHANGED <<rides, updatedAt>>
  BY <1>3 DEF ChairStep, SetActivity, ChairNotify, Accept, Depart, MoveBegin,
    MoveCommit, ChairAbort
<1>4. ASSUME NEW m \in Matchers, MatchStep(m)
      PROVE  MatchAssign(m) \/ UNCHANGED <<rides, updatedAt>>
  BY <1>4 DEF MatchStep, MatchRide, MatchChair, MatchNoChair, MatchChairError,
    MatchCheck, MatchAbort
<1>5. Settled \/ UNCHANGED vars => UNCHANGED <<rides, updatedAt>>
  BY DEF Settled, vars
<1>. QED  BY <1>1, <1>2, <1>3, <1>4, <1>5 DEF Next

LEMMA BookOrder ==
  ASSUME Serial, Typed, Typed', Safe, OrderInv, [Next]_vars,
         NEW u \in Users, NEW k \in UserConns, BookCommit(u, k)
  PROVE  OrderInv'
<1>1. PICK ride : rides' = Append(rides, ride) /\ ride.chair = NoChair
  BY DEF BookCommit
<1>2. PICK new \in Nat : new = Len(rides) + 1
  BY DEF Typed, RowsOK
<1>3. /\ RideIds = 1 .. Len(rides) /\ Len(rides) \in Nat
      /\ Len(updatedAt) = Len(rides) /\ updatedAt \in Seq(Nat) /\ rides \in Seq(Ride)
  BY DEF Typed, RowsOK, RideIds
<1>4. /\ RideIds' = RideIds \cup {new} /\ Len(rides') = new
      /\ \A r \in RideIds : rides'[r] = rides[r]
      /\ rides'[new].chair = NoChair
  <2>1. Len(rides') = Len(rides) + 1 /\ DOMAIN rides' = 1 .. Len(rides) + 1
    BY <1>1, <1>3
  <2>2. /\ \A r \in 1 .. Len(rides) : rides'[r] = rides[r]
        /\ rides'[Len(rides) + 1] = ride
    BY <1>1, <1>3
  <2>. QED  BY <1>1, <1>2, <1>3, <2>1, <2>2 DEF RideIds
<1>5. /\ \A r \in RideIds : updatedAt'[r] = updatedAt[r]
      /\ updatedAt'[new] = new
  BY <1>2, <1>3 DEF BookCommit
<1>6. Ranked'
  <2>1. /\ \A r \in RideIds : updatedAt[r] \in 1 .. Len(rides)
        /\ \A r, s \in RideIds : r # s => updatedAt[r] # updatedAt[s]
    BY DEF OrderInv, Ranked
  <2>2. ASSUME NEW r \in RideIds'
        PROVE  updatedAt'[r] \in 1 .. Len(rides')
    BY <1>2, <1>3, <1>4, <1>5, <2>1
  <2>3. ASSUME NEW r \in RideIds', NEW s \in RideIds', r # s
        PROVE  updatedAt'[r] # updatedAt'[s]
    <3>1. \A q \in RideIds : updatedAt'[q] < new
      BY <1>2, <1>3, <1>5, <2>1
    <3>2. CASE r = new \/ s = new
      BY <1>4, <1>5, <2>3, <3>1, <3>2
    <3>3. CASE r # new /\ s # new
      BY <1>4, <1>5, <2>1, <2>3, <3>3
    <3>. QED  BY <3>2, <3>3
  <2>. QED  BY <2>2, <2>3 DEF Ranked
<1>7. WorkIsLatest'
  <2>1. ASSUME NEW r \in RideIds', NEW s \in RideIds', r # s,
               rides'[r].chair = rides'[s].chair, rides'[r].chair # NoChair,
               ~Released(r)'
        PROVE  updatedAt'[s] < updatedAt'[r]
    <3>1. r \in RideIds /\ s \in RideIds
      BY <1>4, <2>1
    <3>2. ~Released(r)
      BY <2>1, <3>1, ReleasedStays
    <3>. QED  BY <1>4, <1>5, <2>1, <3>1, <3>2 DEF OrderInv, WorkIsLatest
  <2>. QED  BY <2>1 DEF WorkIsLatest
<1>. QED  BY <1>6, <1>7 DEF OrderInv

\* An evaluation touches the ride its chair still works on.
LEMMA RateOrder ==
  ASSUME Serial, Typed, Typed', Safe, OrderInv, [Next]_vars,
         NEW u \in Users, NEW k \in UserConns, RateCommit(u, k)
  PROVE  OrderInv'
<1>1. PICK t \in RideIds : t = userReq[<<u, k>>].ride
  BY DEF RateCommit, Typed, UserReqOK
<1>2. Rows(t) = 5 /\ rides[t].chair # NoChair /\ ~Released(t)
  BY <1>1 DEF RateCommit, Safe, RatingStillAllowed, Released, FullLog
<1>3. SameRides /\ Len(rides') = Len(rides)
  <2>1. \A r \in RideIds : rides[r] \in Ride
    BY ElementOfSeq DEF Typed, RowsOK, RideIds
  <2>2. rides' = [rides EXCEPT ![t].evaluation = userReq[<<u, k>>].evaluation]
    BY <1>1 DEF RateCommit
  <2>3. rides \in Seq(Ride) /\ rides' \in Seq(Ride)
    BY DEF Typed, RowsOK
  <2>4. DOMAIN rides' = DOMAIN rides
    BY <2>2
  <2>5. Len(rides') = Len(rides)
    BY <2>3, <2>4
  <2>. QED  BY <2>1, <2>2, <2>4, <2>5 DEF SameRides, RideIds, Ride
<1>4. RideIds' = RideIds /\ Touch(t)
  BY <1>1, <1>3 DEF SameRides, RateCommit
<1>5. /\ Ranked'
      /\ \A s \in RideIds : s # t => updatedAt'[s] < updatedAt'[t]
      /\ \A r, s \in RideIds :
           r # t /\ s # t /\ updatedAt[s] < updatedAt[r]
             => updatedAt'[s] < updatedAt'[r]
  BY <1>3, <1>4, TouchOrder DEF OrderInv
<1>6. WorkIsLatest'
  <2>1. ASSUME NEW r \in RideIds, NEW s \in RideIds, r # s,
               rides'[r].chair = rides'[s].chair, rides'[r].chair # NoChair,
               ~Released(r)'
        PROVE  updatedAt'[s] < updatedAt'[r]
    <3>1. /\ rides[r].chair = rides[s].chair /\ rides[r].chair # NoChair
          /\ ~Released(r)
      BY <1>3, <2>1, ReleasedStays DEF SameRides
    <3>2. s # t
      BY <1>2, <2>1, <3>1 DEF Safe, TableInv, ChairRidesInTurn
    <3>3. CASE r = t
      BY <1>5, <2>1, <3>3
    <3>4. CASE r # t
      BY <1>5, <2>1, <3>1, <3>2, <3>4 DEF OrderInv, WorkIsLatest
    <3>. QED  BY <3>3, <3>4
  <2>. QED  BY <1>4, <2>1 DEF WorkIsLatest
<1>. QED  BY <1>5, <1>6 DEF OrderInv

\* An assignment touches the ride it assigns.
LEMMA AssignOrder ==
  ASSUME Serial, Typed, Typed', Safe, OrderInv, [Next]_vars,
         NEW m \in Matchers, MatchAssign(m)
  PROVE  OrderInv'
<1>0. match[m].op = "assign"
  BY DEF MatchAssign
<1>1. PICK t \in RideIds, c \in ChairId : t = match[m].ride /\ c = match[m].chair
  BY <1>0, RequestTypes DEF Typed, MatchOK
<1>2. /\ c # NoChair /\ rides[t].chair = NoChair
      /\ \A r \in RidesOfChair(c) : Released(r)
  BY <1>0, <1>1, DispatchAssumption DEF Safe, MatchStillAllowed, ChairId
<1>3. /\ RideIds' = RideIds /\ Len(rides') = Len(rides)
      /\ \A r \in RideIds : rides'[r].chair = IF r = t THEN c ELSE rides[r].chair
  <2>1. \A r \in RideIds : rides[r] \in Ride
    BY ElementOfSeq DEF Typed, RowsOK, RideIds
  <2>2. rides' = [rides EXCEPT ![t].chair = c]
    BY <1>1 DEF MatchAssign
  <2>3. rides \in Seq(Ride) /\ rides' \in Seq(Ride)
    BY DEF Typed, RowsOK
  <2>4. DOMAIN rides' = DOMAIN rides
    BY <2>2
  <2>5. Len(rides') = Len(rides)
    BY <2>3, <2>4
  <2>. QED  BY <2>1, <2>2, <2>4, <2>5 DEF RideIds, Ride
<1>4. Touch(t)
  BY <1>1, <1>2 DEF MatchAssign
<1>5. /\ Ranked'
      /\ \A s \in RideIds : s # t => updatedAt'[s] < updatedAt'[t]
      /\ \A r, s \in RideIds :
           r # t /\ s # t /\ updatedAt[s] < updatedAt[r]
             => updatedAt'[s] < updatedAt'[r]
  BY <1>3, <1>4, TouchOrder DEF OrderInv
<1>6. WorkIsLatest'
  <2>1. ASSUME NEW r \in RideIds, NEW s \in RideIds, r # s,
               rides'[r].chair = rides'[s].chair, rides'[r].chair # NoChair,
               ~Released(r)'
        PROVE  updatedAt'[s] < updatedAt'[r]
    <3>1. ~Released(r)
      BY <2>1, ReleasedStays
    <3>2. CASE r = t
      BY <1>5, <2>1, <3>2
    <3>3. CASE r # t
      <4>1. rides[r].chair # c
        BY <1>2, <3>1 DEF RidesOfChair
      <4>2. s # t /\ rides[r].chair = rides[s].chair /\ rides[r].chair # NoChair
        BY <1>3, <2>1, <3>3, <4>1
      <4>. QED  BY <1>5, <2>1, <3>1, <3>3, <4>2 DEF OrderInv, WorkIsLatest
    <3>. QED  BY <3>2, <3>3
  <2>. QED  BY <1>3, <2>1 DEF WorkIsLatest
<1>. QED  BY <1>5, <1>6 DEF OrderInv

LEMMA NextOrder ==
  ASSUME Serial, Typed, Typed', Safe, OrderInv, [Next]_vars
  PROVE  OrderInv'
<1>1. ASSUME UNCHANGED updatedAt, SameRides, Len(rides') = Len(rides)
      PROVE  OrderInv'
  <2>1. Ranked'
    BY <1>1 DEF OrderInv, Ranked, SameRides
  <2>2. \A r \in RideIds : ~Released(r)' => ~Released(r)
    BY ReleasedStays
  <2>3. WorkIsLatest'
    BY <1>1, <2>2 DEF OrderInv, WorkIsLatest, SameRides
  <2>. QED  BY <2>1, <2>3 DEF OrderInv
<1>. QED  BY <1>1, TouchingSteps, BookOrder, RateOrder, AssignOrder

LEMMA InitOrder == Init => OrderInv
  BY DEF Init, OrderInv, Ranked, WorkIsLatest, RideIds

LEMMA OrderHolds ==
  ASSUME Serial
  PROVE  Spec => [](Typed /\ Safe /\ OrderInv)
<1>1. Typed /\ Typed' /\ Safe /\ OrderInv /\ [Next]_vars => OrderInv'
  BY NextOrder
<1>. QED  BY <1>1, InitOrder, TypedSafe, PTL DEF Spec

\* The latest ride of a user, by its id, and of a chair, by updated_at, is the
\* one that is not finished, if there is one: the ride every endpoint works on.
THEOREM LatestCorrect ==
  ASSUME Serial
  PROVE  Spec => []OpenRideIsLatest
<1>1. ASSUME Typed, Safe, OrderInv
      PROVE  OpenRideIsLatest
  <2>0. StatusLogIsPath
    BY <1>1 DEF Safe, TableInv
  <2>1. ASSUME NEW r \in RideIds, ~Completed(r)
        PROVE  r \in LatestOfUser(rides[r].user)
    <3>1. Rows(r) # 6
      BY <1>1, <2>0, <2>1, LatestNames DEF Completed
    <3>2. ASSUME NEW s \in RidesOf(rides[r].user) PROVE s <= r
      <4>1. s \in RideIds /\ rides[s].user = rides[r].user
        BY DEF RidesOf
      <4>2. ~(r < s)
        BY <1>1, <3>1, <4>1 DEF Safe, TableInv, UserRidesInTurn, FullLog
      <4>. QED  BY <1>1, <4>1, <4>2, RideIdsAre
    <3>. QED  BY <3>2 DEF LatestOfUser, RidesOf
  <2>2. ASSUME NEW r \in RideIds, rides[r].chair # NoChair, ~FullySent(r)
        PROVE  LatestOfChair(rides[r].chair) = {r}
    <3>1. ~Released(r)
      BY <1>1, <2>0, <2>2, FullySentIsReleased
    <3>2. \A s \in RidesOfChair(rides[r].chair) :
            s \in RideIds /\ (s # r => updatedAt[s] < updatedAt[r])
      BY <1>1, <2>2, <3>1 DEF OrderInv, WorkIsLatest, RidesOfChair
    <3>3. \A s \in RideIds : updatedAt[s] \in Nat
      BY <1>1 DEF Typed, RowsOK, RideIds
    <3>4. r \in RidesOfChair(rides[r].chair)
      BY DEF RidesOfChair
    <3>. QED  BY <3>2, <3>3, <3>4 DEF LatestOfChair
  <2>. QED  BY <2>1, <2>2 DEF OpenRideIsLatest
<1>. QED  BY <1>1, OrderHolds, PTL

-----------------------------------------------------------------------------
(* What chairs are told.                                                   *)

\* Only a notification tells a chair anything, and it tells the oldest row of
\* the ride that was updated last.
LEMMA TellingSteps ==
  ASSUME Typed, [Next]_vars, NEW r \in RideIds, NEW i \in DOMAIN log[r],
         log'[r][i].chair, ~log[r][i].chair
  PROVE  \E c \in Chairs : r \in LatestOfChair(c) /\ i \in OldestUnsent(r, "chair")
<1>. USE DEF tables
<1>0. /\ log \in Seq(Seq(StatusRow)) /\ DOMAIN log = RideIds
      /\ log[r] \in Seq(StatusRow) /\ DOMAIN log[r] = 1 .. Len(log[r])
      /\ Len(log) = Len(rides) /\ RideIds = 1 .. Len(rides)
  <2>1. log \in Seq(Seq(StatusRow)) /\ DOMAIN log = RideIds
    BY DEF Typed, RowsOK, RideIds
  <2>. QED  BY <2>1, LogRow, RideIdsAre DEF Typed, RowsOK
<1>1. ~UNCHANGED log
  OBVIOUS
<1>2. ~\E t \in RideIds, status \in Status : AddStatus(t, status)
  <2>1. ASSUME NEW t \in RideIds, NEW status \in Status, AddStatus(t, status)
        PROVE  log'[r][i] = log[r][i]
    <3>1. /\ \A s \in DOMAIN log : s # t => log'[s] = log[s]
          /\ \A j \in 1 .. Len(log[t]) : log'[t][j] = log[t][j]
      BY <1>0, <2>1, AddStatusEffect
    <3>. QED  BY <1>0, <3>1
  <2>. QED  BY <2>1
<1>3. ~\E row : log' = Append(log, row)
  <2>1. ASSUME NEW row, log' = Append(log, row)
        PROVE  log'[r] = log[r]
    BY <1>0, <2>1
  <2>. QED  BY <2>1
<1>4. ASSUME NEW u \in Users
      PROVE  ~AppNotify(u)
  <2>1. ASSUME NEW t \in RideIds, NEW j \in DOMAIN log[t],
               log' = [log EXCEPT ![t][j]["app"] = TRUE]
        PROVE  log'[r][i].chair = log[r][i].chair
    <3>1. /\ \A s \in DOMAIN log : s # t => log'[s] = log[s]
          /\ \A l \in DOMAIN log[t] :
               log'[t][l] = IF l = j THEN [log[t][l] EXCEPT !["app"] = TRUE]
                                     ELSE log[t][l]
      BY <1>0, <2>1, FlagEffect
    <3>2. PICK row \in StatusRow : row = log[r][i]
      BY <1>0, ElementOfSeq
    <3>3. [row EXCEPT !["app"] = TRUE].chair = row.chair
      BY DEF StatusRow
    <3>. QED  BY <1>0, <3>1, <3>2, <3>3
  <2>2. ASSUME AppNotify(u)
        PROVE  \E t \in RideIds : \E j \in DOMAIN log[t] :
                 log' = [log EXCEPT ![t][j]["app"] = TRUE]
    BY <2>2 DEF AppNotify, LatestOfUser, RidesOf, OldestUnsent
  <2>. QED  BY <2>1, <2>2
<1>5. ASSUME NEW u \in Users
      PROVE  ~UserStep(u)
  <2>1. ASSUME NEW k \in UserConns, RateCommit(u, k)
        PROVE  FALSE
    <3>1. userReq[<<u, k>>].ride \in RideIds
      BY <2>1 DEF RateCommit, Typed, UserReqOK
    <3>2. AddStatus(userReq[<<u, k>>].ride, "COMPLETED") /\ "COMPLETED" \in Status
      BY <2>1 DEF RateCommit, Status
    <3>. QED  BY <1>2, <3>1, <3>2
  <2>2. ASSUME NEW k \in UserConns, BookCommit(u, k)
        PROVE  FALSE
    BY <1>3, <2>2 DEF BookCommit
  <2>. QED
    BY <1>1, <1>4, <2>1, <2>2 DEF UserStep, RegisterPaymentMethod, LatePayment, BookBegin,
      RateBegin, RateUpdate, RatePay, UserAbort
<1>6. ASSUME NEW c \in Chairs, ChairStep(c)
      PROVE  r \in LatestOfChair(c) /\ i \in OldestUnsent(r, "chair")
  <2>1. ASSUME NEW k \in ChairConns, NEW t \in RideIds, Accept(c, k, t) \/ Depart(c, k, t)
        PROVE  FALSE
    BY <1>2, <2>1 DEF Accept, Depart, Status
  <2>2. ASSUME NEW k \in ChairConns, MoveCommit(c, k)
        PROVE  FALSE
    <3>1. chairReq[<<c, k>>].ride \in RideIds /\ chairReq[<<c, k>>].status \in Status
      BY <2>2, RequestTypes DEF MoveCommit, Typed, ChairReqOK
    <3>. QED  BY <1>2, <2>2, <3>1 DEF MoveCommit
  <2>3. ChairNotify(c)
    BY <1>1, <1>6, <2>1, <2>2 DEF ChairStep, SetActivity, MoveBegin, ChairAbort
  <2>4. PICK t \in LatestOfChair(c) : \E j \in OldestUnsent(t, "chair") :
          log' = [log EXCEPT ![t][j].chair = TRUE]
    BY <2>3 DEF ChairNotify
  <2>5. PICK j \in OldestUnsent(t, "chair") : log' = [log EXCEPT ![t][j]["chair"] = TRUE]
    BY <2>4
  <2>6. t \in DOMAIN log /\ j \in DOMAIN log[t]
    BY <1>0 DEF LatestOfChair, RidesOfChair, OldestUnsent
  <2>7. /\ \A s \in DOMAIN log : s # t => log'[s] = log[s]
        /\ \A l \in DOMAIN log[t] : l # j => log'[t][l] = log[t][l]
    BY <1>0, <2>5, <2>6, FlagEffect
  <2>8. r = t /\ i = j
    BY <1>0, <2>7
  <2>. QED  BY <2>8
<1>7. ASSUME NEW m \in Matchers
      PROVE  ~MatchStep(m)
  BY <1>1 DEF MatchStep, MatchRide, MatchChair, MatchNoChair, MatchChairError, MatchCheck,
    MatchAssign, MatchAbort
<1>8. ~UNCHANGED vars /\ ~Settled
  BY <1>1 DEF vars, Settled
<1>. QED  BY <1>5, <1>6, <1>7, <1>8 DEF Next

\* A chair is told the states of a ride in order, and nothing of a ride before
\* all of the rides it had earlier: it is assigned a ride only when it has been
\* told everything, and its notifications follow the ride updated last.
THEOREM TellingCorrect ==
  ASSUME Serial
  PROVE  Spec => ChairToldInOrder
<1>1. ASSUME Typed, Safe, [Next]_vars, NEW r \in RideIds, NEW i \in DOMAIN log[r],
             NewlyTold(r, i, "chair")
      PROVE  /\ \A j \in 1 .. i - 1 : log[r][j].chair
             /\ \A s \in RidesOfChair(rides[r].chair) :
                  updatedAt[s] < updatedAt[r] => Told(s, "chair")
  <2>1. log'[r][i].chair /\ ~log[r][i].chair
    BY <1>1 DEF NewlyTold
  <2>2. PICK c \in Chairs : r \in LatestOfChair(c) /\ i \in OldestUnsent(r, "chair")
    BY <1>1, <2>1, TellingSteps
  <2>3. \A j \in 1 .. i - 1 : log[r][j].chair
    BY <2>2 DEF OldestUnsent
  <2>4. rides[r].chair = c /\ c # NoChair
    BY <2>2, DispatchAssumption DEF LatestOfChair, RidesOfChair
  <2>5. ~Released(r)
    <3>1. DOMAIN log[r] = 1 .. Rows(r)
      BY <1>1, LatestIsFlow DEF Safe, TableInv, Rows
    <3>. QED  BY <2>1, <3>1 DEF Released
  <2>6. ASSUME NEW s \in RidesOfChair(c), updatedAt[s] < updatedAt[r]
        PROVE  Told(s, "chair")
    <3>1. s \in RideIds /\ rides[s].chair = c
      BY DEF RidesOfChair
    <3>2. s # r
      BY <1>1, <2>6 DEF Typed, RowsOK, RideIds
    <3>3. Released(s)
      BY <1>1, <2>4, <2>5, <3>1, <3>2 DEF Safe, TableInv, ChairRidesInTurn
    <3>4. DOMAIN log[s] = 1 .. 6
      BY <1>1, <3>1, <3>3, LatestIsFlow DEF Safe, TableInv, Released, Rows, FullLog
    <3>. QED  BY <3>3, <3>4 DEF Told, Released, FullLog
  <2>. QED  BY <2>3, <2>4, <2>6
<1>2. Typed /\ Safe /\ [Next]_vars
        => [\A r \in RideIds : \A i \in DOMAIN log[r] :
              NewlyTold(r, i, "chair")
                => /\ \A j \in 1 .. i - 1 : log[r][j].chair
                   /\ \A s \in RidesOfChair(rides[r].chair) :
                        updatedAt[s] < updatedAt[r] => Told(s, "chair")]_vars
  BY <1>1
<1>. QED  BY <1>2, TypedSafe, PTL DEF Spec, ChairToldInOrder

-----------------------------------------------------------------------------
(***************************************************************************)
(* Payments.  A call of the payment client that succeeds without a payment *)
(* has found as many payments as the snapshot had rides; so the invariant  *)
(* says that these are more than the rides the user has completed, one of  *)
(* them being the ride under evaluation, until the evaluation is committed.*)
(***************************************************************************)

\* The rides of a user with all their rows, which are the completed ones.
Finished(u) == {r \in RideIds : rides[r].user = u /\ Rows(r) = FullLog}

Done(u) == Cardinality(Finished(u))

Paid(u) == Cardinality(Listed(u))

RatingPaid(u, k) ==
  LET req == userReq[<<u, k>>]
  IN  req.op = "rate" => /\ Done(u) < req.rides
                         /\ req.stage = "paid" => Done(u) < Paid(u)

PaidInv ==
  /\ \A u \in Users : Done(u) <= Paid(u)
  /\ \A u \in Users, k \in UserConns : RatingPaid(u, k)

LEMMA CompletedIsFinished ==
  ASSUME Typed, StatusLogIsPath, NEW u
  PROVE  CompletedRidesOf(u) = Finished(u)
  BY LatestNames DEF CompletedRidesOf, RidesOf, Completed, Finished, FullLog

\* All of these are counts.
LEMMA CountsAreNumbers ==
  ASSUME Typed, NEW u \in Users
  PROVE  /\ IsFiniteSet(RidesOf(u)) /\ IsFiniteSet(Finished(u))
         /\ IsFiniteSet(Listed(u))
         /\ Done(u) \in Nat /\ Paid(u) \in Nat
<1>1. /\ Len(rides) \in Nat
      /\ RidesOf(u) \subseteq 1 .. Len(rides)
      /\ Finished(u) \subseteq 1 .. Len(rides)
  BY RideIdsAre DEF RidesOf, Finished
<1>2. /\ Len(payments[u]) \in Nat
      /\ Listed(u) \subseteq 1 .. Len(payments[u])
  BY DEF Typed, OthersOK, Listed
<1>3. IsFiniteSet(1 .. Len(rides)) /\ IsFiniteSet(1 .. Len(payments[u]))
  BY <1>1, <1>2, FS_Interval
<1>4. /\ IsFiniteSet(RidesOf(u)) /\ IsFiniteSet(Finished(u))
      /\ IsFiniteSet(Listed(u))
  BY <1>1, <1>2, <1>3, FS_Subset
<1>. QED  BY <1>4, FS_CardinalityType DEF Done, Paid

\* A set has fewer members than one it is a proper part of.
LEMMA FewerMembers ==
  ASSUME NEW S, NEW T, IsFiniteSet(S), IsFiniteSet(T), S \subseteq T
  PROVE  /\ Cardinality(S) <= Cardinality(T)
         /\ S # T => Cardinality(S) < Cardinality(T)
<1>1. /\ Cardinality(S) <= Cardinality(T)
      /\ Cardinality(T) = Cardinality(S) => T = S
  BY FS_Subset
<1>2. Cardinality(S) \in Nat /\ Cardinality(T) \in Nat
  BY FS_CardinalityType
<1>. QED  BY <1>1, <1>2

LEMMA ListedIsFinite ==
  ASSUME Typed', NEW u \in Users
  PROVE  IsFiniteSet(Listed(u)')
<1>1. /\ Len(payments'[u]) \in Nat
      /\ Listed(u)' \subseteq 1 .. Len(payments'[u])
  BY DEF Typed, OthersOK, Listed
<1>2. IsFiniteSet(1 .. Len(payments'[u]))
  BY <1>1, FS_Interval
<1>. QED  BY <1>1, <1>2, FS_Subset

\* What a step must keep: the rides that are over, the payments on record, and
\* what is said of each evaluation in progress.
LEMMA PaidKept ==
  ASSUME Typed, Typed', PaidInv,
         \A u \in Users : Finished(u)' = Finished(u) /\ Listed(u) \subseteq Listed(u)',
         \A u \in Users, k \in UserConns :
           \/ userReq'[<<u, k>>] = userReq[<<u, k>>]
           \/ userReq'[<<u, k>>].op # "rate"
           \/ RatingPaid(u, k)'
  PROVE  PaidInv'
<1>1. ASSUME NEW u \in Users
      PROVE  /\ Done(u)' = Done(u) /\ Paid(u) <= Paid(u)'
             /\ Done(u) \in Nat /\ Paid(u) \in Nat /\ Paid(u)' \in Nat
  <2>1. IsFiniteSet(Listed(u)) /\ IsFiniteSet(Listed(u)')
    BY CountsAreNumbers, ListedIsFinite
  <2>2. Paid(u) <= Paid(u)' /\ Paid(u)' \in Nat
    BY <2>1, FewerMembers, FS_CardinalityType DEF Paid
  <2>. QED  BY <2>2, CountsAreNumbers DEF Done
<1>2. ASSUME NEW u \in Users, NEW k \in UserConns,
             userReq'[<<u, k>>] = userReq[<<u, k>>]
      PROVE  RatingPaid(u, k)'
  BY <1>1, <1>2 DEF PaidInv, RatingPaid
<1>3. ASSUME NEW u \in Users, NEW k \in UserConns, userReq'[<<u, k>>].op # "rate"
      PROVE  RatingPaid(u, k)'
  BY <1>3 DEF RatingPaid
<1>4. ASSUME NEW u \in Users PROVE Done(u)' <= Paid(u)'
  BY <1>1 DEF PaidInv
<1>. QED  BY <1>2, <1>3, <1>4 DEF PaidInv

\* The rides that are over change with the number of rows only.
LEMMA SameFinished ==
  ASSUME Typed, NEW u \in Users, SameRides,
         \A r \in RideIds : Rows(r)' = FullLog <=> Rows(r) = FullLog
  PROVE  Finished(u)' = Finished(u)
  BY DEF Finished, SameRides

\* A step that adds no row, or one that is not the last.
LEMMA KeepsFinished ==
  ASSUME Typed, Safe, NEW u \in Users,
         Quiet \/ \E t \in RideIds : Moves(t) /\ Rows(t) # 5
  PROVE  Finished(u)' = Finished(u)
<1>1. CASE Quiet
  BY <1>1, SameFinished DEF Quiet, SameRows, Rows
<1>2. ASSUME NEW t \in RideIds, Moves(t), Rows(t) # 5
      PROVE  Finished(u)' = Finished(u)
  <2>1. Rows(t) \in Nat /\ Rows(t) < 6 /\ Rows(t)' = Rows(t) + 1
    BY <1>2, LatestIsFlow DEF Moves, NextRow, Rows, Safe, TableInv
  <2>2. ASSUME NEW r \in RideIds PROVE Rows(r)' = FullLog <=> Rows(r) = FullLog
    <3>1. CASE r = t
      BY <1>2, <2>1, <3>1 DEF FullLog
    <3>2. CASE r # t
      BY <1>2, <3>2 DEF Moves, Rows
    <3>. QED  BY <3>1, <3>2
  <2>. QED  BY <1>2, <2>2, SameFinished DEF Moves
<1>. QED  BY <1>1, <1>2

\* An evaluation that commits completes its ride, and no other.
LEMMA CommitFinishes ==
  ASSUME Typed, Safe, NEW u \in Users, NEW k \in UserConns, RateCommit(u, k)
  PROVE  \E t \in RideIds :
           /\ rides[t].user = u /\ t \notin Finished(u)
           /\ Finished(u)' = Finished(u) \cup {t}
           /\ \A v \in Users : v # u => Finished(v)' = Finished(v)
<1>1. PICK t \in RideIds : t = userReq[<<u, k>>].ride
  BY DEF RateCommit, Typed, UserReqOK
<1>2. Rows(t) = 5 /\ rides[t].user = u
  BY <1>1 DEF RateCommit, Safe, RatingStillAllowed
<1>3. SameRides
  <2>1. \A r \in RideIds : rides[r] \in Ride
    BY ElementOfSeq DEF Typed, RowsOK, RideIds
  <2>2. rides' = [rides EXCEPT ![t].evaluation = userReq[<<u, k>>].evaluation]
    BY <1>1 DEF RateCommit
  <2>. QED  BY <2>1, <2>2 DEF SameRides, RideIds, Ride
<1>4. Rows(t)' = 6 /\ \A r \in RideIds : r # t => Rows(r)' = Rows(r)
  <2>1. AddStatus(t, "COMPLETED") /\ "COMPLETED" = Flow[Rows(t) + 1]
    BY <1>1, <1>2 DEF RateCommit, Flow
  <2>2. "COMPLETED" \in Status
    BY DEF Status
  <2>3. NextRow(t) /\ \A r \in RideIds : r # t => log'[r] = log[r]
    BY <1>2, <2>1, <2>2, AddIsNextRow DEF Safe
  <2>. QED  BY <1>2, <2>3 DEF NextRow, Rows
<1>5. t \notin Finished(u)
  BY <1>2 DEF Finished, FullLog
<1>6. Finished(u)' = Finished(u) \cup {t}
  BY <1>2, <1>3, <1>4 DEF Finished, FullLog, SameRides
<1>7. ASSUME NEW v \in Users, v # u PROVE Finished(v)' = Finished(v)
  BY <1>2, <1>3, <1>4, <1>7 DEF Finished, FullLog, SameRides
<1>. QED  BY <1>2, <1>5, <1>6, <1>7

\* It had been paid for: the user is even again.
LEMMA CommitPaid ==
  ASSUME Serial, Typed, Typed', Safe, PaidInv,
         NEW u \in Users, NEW k \in UserConns, RateCommit(u, k)
  PROVE  PaidInv'
<1>1. PICK t \in RideIds :
        /\ t \notin Finished(u)
        /\ Finished(u)' = Finished(u) \cup {t}
        /\ \A v \in Users : v # u => Finished(v)' = Finished(v)
  BY CommitFinishes
<1>2. Done(u)' = Done(u) + 1 /\ \A v \in Users : v # u => Done(v)' = Done(v)
  BY <1>1, CountsAreNumbers, FS_AddElement DEF Done
<1>3. \A v \in Users : Paid(v)' = Paid(v)
  BY DEF RateCommit, Paid, Listed
<1>4. /\ userReq' = [userReq EXCEPT ![<<u, k>>] = Idle]
      /\ userReq[<<u, k>>].op = "rate" /\ userReq[<<u, k>>].stage = "paid"
  BY DEF RateCommit
<1>5. Done(u) < Paid(u)
  BY <1>4 DEF PaidInv, RatingPaid
<1>6. ASSUME NEW v \in Users PROVE Done(v)' <= Paid(v)'
  BY <1>2, <1>3, <1>5, CountsAreNumbers DEF PaidInv
<1>7. ASSUME NEW v \in Users, NEW l \in UserConns PROVE RatingPaid(v, l)'
  <2>1. CASE v = u
    <3>1. userReq'[<<v, l>>] = Idle
      BY <1>4, <2>1 DEF Serial, Typed, UserReqOK
    <3>. QED  BY <3>1, RequestTypes DEF RatingPaid
  <2>2. CASE v # u
    <3>1. userReq'[<<v, l>>] = userReq[<<v, l>>]
      BY <1>4, <2>2 DEF Typed, UserReqOK
    <3>. QED  BY <1>2, <1>3, <2>2, <3>1 DEF PaidInv, RatingPaid
  <2>. QED  BY <2>1, <2>2
<1>. QED  BY <1>6, <1>7 DEF PaidInv

\* A new ride has one row.
LEMMA BookFinishes ==
  ASSUME Typed, NEW u \in Users, NEW k \in UserConns, BookCommit(u, k), NEW v \in Users
  PROVE  Finished(v)' = Finished(v)
<1>1. PICK ride : rides' = Append(rides, ride)
  BY DEF BookCommit
<1>2. PICK n \in Nat : n = Len(rides)
  BY DEF Typed, RowsOK
<1>3. /\ RideIds = 1 .. n /\ Len(log) = n
      /\ rides \in Seq(Ride) /\ log \in Seq(Seq(StatusRow))
  BY <1>2 DEF Typed, RowsOK, RideIds
<1>4. /\ RideIds' = 1 .. n + 1
      /\ \A r \in 1 .. n : rides'[r] = rides[r]
  BY <1>1, <1>2, <1>3 DEF RideIds
<1>5. /\ \A r \in 1 .. n : log'[r] = log[r]
      /\ log'[n + 1] = <<NewRow("MATCHING")>>
  BY <1>3 DEF BookCommit
<1>6. Rows(n + 1)' = 1 /\ \A r \in 1 .. n : Rows(r)' = Rows(r)
  BY <1>5 DEF Rows
<1>. QED  BY <1>3, <1>4, <1>6 DEF Finished, FullLog

\* An assignment changes the chair of a ride, not its user.
LEMMA AssignFinishes ==
  ASSUME Typed, Safe, NEW m \in Matchers, MatchAssign(m), NEW v \in Users
  PROVE  Finished(v)' = Finished(v)
<1>1. rides' = [rides EXCEPT ![match[m].ride].chair = match[m].chair] /\ UNCHANGED log
  BY DEF MatchAssign
<1>2. \A r \in RideIds : rides[r] \in Ride
  BY ElementOfSeq DEF Typed, RowsOK, RideIds
<1>3. RideIds' = RideIds /\ \A r \in RideIds : rides'[r].user = rides[r].user
  BY <1>1, <1>2 DEF RideIds, Ride
<1>. QED  BY <1>1, <1>3 DEF Finished, Rows

\* The snapshot of an evaluation has a ride more than the completed ones.
LEMMA BeginPaid ==
  ASSUME Typed, Typed', Safe, PaidInv, NEW u \in Users, NEW k \in UserConns,
         NEW r \in RideIds, NEW e \in Evaluations, RateBegin(u, k, r, e)
  PROVE  PaidInv'
<1>1. /\ userReq' = [userReq EXCEPT
                      ![<<u, k>>] = [op |-> "rate", stage |-> "read", ride |-> r,
                                     evaluation |-> e,
                                     rides |-> Cardinality(RidesOf(u)),
                                     token |-> u \in tokens]]
      /\ r \in RidesOf(u) /\ LatestStatus(r) = "ARRIVED"
      /\ UNCHANGED <<rides, log, payments>>
  BY DEF RateBegin, tables
<1>2. \A v \in Users : Finished(v)' = Finished(v) /\ Listed(v)' = Listed(v)
  BY <1>1 DEF Finished, Listed, RideIds, Rows
<1>3. Done(u) < Cardinality(RidesOf(u))
  <2>1. r \notin Finished(u)
    BY <1>1, LatestNames DEF Finished, FullLog, Safe, TableInv
  <2>2. Finished(u) \subseteq RidesOf(u) /\ Finished(u) # RidesOf(u)
    BY <1>1, <2>1 DEF Finished, RidesOf
  <2>. QED  BY <2>2, CountsAreNumbers, FewerMembers DEF Done
<1>4. RatingPaid(u, k)'
  <2>1. userReq'[<<u, k>>] = [op |-> "rate", stage |-> "read", ride |-> r,
                              evaluation |-> e, rides |-> Cardinality(RidesOf(u)),
                              token |-> u \in tokens]
    BY <1>1 DEF Typed, UserReqOK
  <2>. QED  BY <1>2, <1>3, <2>1 DEF RatingPaid, Done
<1>5. ASSUME NEW v \in Users, NEW l \in UserConns
      PROVE  userReq'[<<v, l>>] = userReq[<<v, l>>] \/ RatingPaid(v, l)'
  <2>1. CASE <<v, l>> = <<u, k>>
    BY <1>4, <2>1
  <2>2. CASE <<v, l>> # <<u, k>>
    BY <1>1, <2>2 DEF Typed, UserReqOK
  <2>. QED  BY <2>1, <2>2
<1>. QED  BY <1>2, <1>5, PaidKept

\* A call that succeeds has paid, or has found more payments than completed rides.
LEMMA PayPaid ==
  ASSUME Typed, Typed', Safe, PaidInv,
         NEW u \in Users, NEW k \in UserConns, RatePay(u, k)
  PROVE  PaidInv'
<1>1. PICK req \in UserRequest : req = userReq[<<u, k>>]
  BY DEF Typed, UserReqOK
<1>2. PICK o \in GatewayOutcomes(Paid(u), req.rides) :
        /\ payments' = [payments EXCEPT
             ![u] = @ \o [i \in 1 .. o.charged + o.late |->
                            [ride |-> req.ride, listed |-> i <= o.charged]]]
        /\ userReq' = [userReq EXCEPT
                         ![<<u, k>>] = IF o.ok THEN [req EXCEPT !.stage = "paid"]
                                               ELSE Idle]
  BY <1>1 DEF RatePay, Paid
<1>3. req.op = "rate" /\ UNCHANGED <<rides, log>>
  BY <1>1 DEF RatePay, tables
<1>4. req.rides \in Nat /\ [req EXCEPT !.stage = "paid"].op = "rate"
      /\ [req EXCEPT !.stage = "paid"].rides = req.rides
  BY <1>3, RequestTypes
<1>5. /\ o.charged \in Nat /\ o.late \in Nat
      /\ o.ok => o.charged > 0 \/ Paid(u) = req.rides
  BY DispatchAssumption DEF GatewayOutcomes, ChargeOutcomes
<1>6. PICK more : /\ more = [i \in 1 .. o.charged + o.late |->
                               [ride |-> req.ride, listed |-> i <= o.charged]]
                  /\ payments'[u] = payments[u] \o more
  BY <1>2 DEF Typed, OthersOK
<1>7. PICK n \in Nat : n = Len(payments[u])
  BY DEF Typed, OthersOK
<1>8. /\ Listed(u) \subseteq Listed(u)'
      /\ o.charged > 0 => n + 1 \in Listed(u)' /\ n + 1 \notin Listed(u)
  <2>1. payments[u] \in Seq(PaymentRequest) /\ payments'[u] \in Seq(PaymentRequest)
    BY DEF Typed, OthersOK
  <2>2. PICK m \in Nat : m = o.charged + o.late
    BY <1>5
  <2>3. /\ more = [i \in 1 .. m |-> [ride |-> req.ride, listed |-> i <= o.charged]]
        /\ more \in [1 .. m -> PaymentRequest]
    <3>1. req.ride \in Nat
      BY <1>3, RequestTypes
    <3>. QED  BY <1>5, <1>6, <2>2, <3>1 DEF PaymentRequest
  <2>4. more \in Seq(PaymentRequest) /\ Len(more) = m
    BY <2>3, SeqOfValues
  <2>5. /\ DOMAIN payments[u] = 1 .. n
        /\ DOMAIN payments'[u] = 1 .. n + m
        /\ \A i \in 1 .. n : payments'[u][i] = payments[u][i]
    BY <1>6, <1>7, <2>1, <2>2, <2>4
  <2>6. ASSUME o.charged > 0 PROVE n + 1 \in Listed(u)'
    <3>1. 1 \in 1 .. m /\ (1 <= o.charged) = TRUE
      BY <1>5, <2>2, <2>6
    <3>2. more[1] = [ride |-> req.ride, listed |-> TRUE]
      BY <2>3, <3>1
    <3>3. payments'[u][n + 1] = more[1] /\ n + 1 \in 1 .. n + m
      BY <1>6, <1>7, <2>1, <2>2, <2>4, <3>1
    <3>. QED  BY <2>5, <3>2, <3>3 DEF Listed
  <2>7. n + 1 \notin Listed(u)
    BY <2>5 DEF Listed
  <2>8. Listed(u) \subseteq Listed(u)'
    BY <2>5 DEF Listed
  <2>. QED  BY <2>6, <2>7, <2>8
<1>9. /\ \A v \in Users : Finished(v)' = Finished(v)
      /\ \A v \in Users : Listed(v) \subseteq Listed(v)'
  <2>1. \A v \in Users : Finished(v)' = Finished(v)
    BY <1>3 DEF Finished, RideIds, Rows
  <2>2. \A v \in Users : v # u => Listed(v)' = Listed(v)
    BY <1>2 DEF Typed, OthersOK, Listed
  <2>. QED  BY <1>8, <2>1, <2>2
<1>10. /\ Done(u)' = Done(u) /\ Done(u) < req.rides
       /\ Done(u) \in Nat /\ Paid(u) \in Nat /\ Done(u) <= Paid(u)
  BY <1>1, <1>3, <1>9, CountsAreNumbers DEF Done, PaidInv, RatingPaid
<1>11. /\ Paid(u)' \in Nat /\ Paid(u) <= Paid(u)'
       /\ o.charged > 0 => Paid(u) < Paid(u)'
  <2>1. IsFiniteSet(Listed(u)')
    BY ListedIsFinite
  <2>. QED  BY <1>8, <2>1, CountsAreNumbers, FewerMembers, FS_CardinalityType DEF Paid
<1>12. RatingPaid(u, k)'
  <2>1. CASE o.ok
    <3>1. userReq'[<<u, k>>] = [req EXCEPT !.stage = "paid"]
      BY <1>2, <2>1 DEF Typed, UserReqOK
    <3>2. Done(u)' < req.rides /\ Done(u)' < Paid(u)'
      BY <1>4, <1>5, <1>10, <1>11, <2>1
    <3>. QED  BY <1>4, <3>1, <3>2 DEF RatingPaid
  <2>2. CASE ~o.ok
    <3>1. userReq'[<<u, k>>] = Idle
      BY <1>2, <2>2 DEF Typed, UserReqOK
    <3>. QED  BY <3>1, RequestTypes DEF RatingPaid
  <2>. QED  BY <2>1, <2>2
<1>13. ASSUME NEW v \in Users, NEW l \in UserConns
       PROVE  userReq'[<<v, l>>] = userReq[<<v, l>>] \/ RatingPaid(v, l)'
  <2>1. CASE <<v, l>> = <<u, k>>
    BY <1>12, <2>1
  <2>2. CASE <<v, l>> # <<u, k>>
    BY <1>2, <2>2 DEF Typed, UserReqOK
  <2>. QED  BY <2>1, <2>2
<1>. QED  BY <1>9, <1>13, PaidKept

\* A late payment is one more on record.
LEMMA LatePaid ==
  ASSUME Typed, Typed', Safe, PaidInv, NEW u \in Users, LatePayment(u)
  PROVE  PaidInv'
<1>1. PICK i \in DOMAIN payments[u] \ Listed(u) :
        payments' = [payments EXCEPT ![u][i].listed = TRUE]
  BY DEF LatePayment
<1>2. UNCHANGED <<rides, log, userReq>>
  BY DEF LatePayment, tables
<1>3. \A v \in Users : Finished(v)' = Finished(v)
  BY <1>2 DEF Finished, RideIds, Rows
<1>4. ASSUME NEW v \in Users PROVE Listed(v) \subseteq Listed(v)'
  <2>1. /\ DOMAIN payments'[v] = DOMAIN payments[v]
        /\ \A j \in DOMAIN payments[v] :
             v # u \/ j # i => payments'[v][j] = payments[v][j]
    BY <1>1 DEF Typed, OthersOK
  <2>2. CASE v # u
    BY <2>1, <2>2 DEF Listed
  <2>3. CASE v = u
    BY <1>1, <2>1, <2>3 DEF Listed
  <2>. QED  BY <2>2, <2>3
<1>. QED  BY <1>2, <1>3, <1>4, PaidKept

\* The other steps of a user: a request ends, begins with a booking, or has
\* locked its ride.
LEMMA UserPaid ==
  ASSUME Serial, Typed, Typed', Safe, PaidInv, NEW u \in Users, UserStep(u)
  PROVE  PaidInv'
<1>1. ASSUME UNCHANGED payments, \A v \in Users : Finished(v)' = Finished(v),
             NEW k \in UserConns, NEW new \in UserRequest,
             userReq' = [userReq EXCEPT ![<<u, k>>] = new],
             new.op = "rate" => /\ userReq[<<u, k>>].op = "rate"
                                /\ new.rides = userReq[<<u, k>>].rides
                                /\ new.stage # "paid"
      PROVE  PaidInv'
  <2>1. \A v \in Users : Listed(v)' = Listed(v) /\ Done(v)' = Done(v)
    BY <1>1 DEF Listed, Done
  <2>2. userReq'[<<u, k>>] = new
    BY <1>1 DEF Typed, UserReqOK
  <2>3. RatingPaid(u, k)'
    BY <1>1, <2>1, <2>2 DEF RatingPaid, PaidInv
  <2>4. ASSUME NEW v \in Users, NEW l \in UserConns
        PROVE  userReq'[<<v, l>>] = userReq[<<v, l>>] \/ RatingPaid(v, l)'
    <3>1. CASE <<v, l>> = <<u, k>>
      BY <2>3, <3>1
    <3>2. CASE <<v, l>> # <<u, k>>
      BY <1>1, <3>2 DEF Typed, UserReqOK
    <3>. QED  BY <3>1, <3>2
  <2>. QED  BY <1>1, <2>1, <2>4, PaidKept
<1>2. UNCHANGED <<rides, log>> => \A v \in Users : Finished(v)' = Finished(v)
  BY DEF Finished, RideIds, Rows
<1>3. CASE RegisterPaymentMethod(u)
  <2>1. UNCHANGED <<rides, log, payments, userReq>>
    BY <1>3 DEF RegisterPaymentMethod
  <2>. QED  BY <1>2, <2>1, PaidKept DEF Listed
<1>4. CASE AppNotify(u)
  <2>1. PICK r \in LatestOfUser(u) : \E i \in OldestUnsent(r, "app") :
          log' = [log EXCEPT ![r][i].app = TRUE]
    BY <1>4 DEF AppNotify
  <2>2. PICK i \in OldestUnsent(r, "app") : log' = [log EXCEPT ![r][i].app = TRUE]
    BY <2>1
  <2>3. r \in RideIds /\ i \in DOMAIN log[r]
    BY <2>1, <2>2 DEF LatestOfUser, RidesOf, OldestUnsent
  <2>4. UNCHANGED <<rides, payments, userReq>>
    BY <1>4 DEF AppNotify
  <2>5. \A v \in Users : Finished(v)' = Finished(v)
    BY <2>2, <2>3, <2>4, QuietSteps, KeepsFinished
  <2>. QED  BY <2>4, <2>5, PaidKept DEF Listed
<1>5. ASSUME NEW k \in UserConns, BookBegin(u, k) PROVE PaidInv'
  <2>1. [op |-> "book", first |-> RidesOf(u) = {}] \in UserRequest
    BY DEF UserRequest
  <2>2. /\ userReq' = [userReq EXCEPT
                        ![<<u, k>>] = [op |-> "book", first |-> RidesOf(u) = {}]]
        /\ UNCHANGED <<rides, log, payments>>
    BY <1>5 DEF BookBegin, tables
  <2>. QED  BY <1>1, <1>2, <2>1, <2>2
<1>6. ASSUME NEW k \in UserConns, BookCommit(u, k) PROVE PaidInv'
  <2>1. userReq' = [userReq EXCEPT ![<<u, k>>] = Idle] /\ UNCHANGED payments
    BY <1>6 DEF BookCommit
  <2>. QED  BY <1>1, <1>6, <2>1, BookFinishes, RequestTypes
<1>7. ASSUME NEW k \in UserConns, RateUpdate(u, k) PROVE PaidInv'
  <2>1. PICK req \in UserRequest : req = userReq[<<u, k>>]
    BY DEF Typed, UserReqOK
  <2>2. /\ req.op = "rate" /\ UNCHANGED <<rides, log, payments>>
        /\ \/ userReq' = [userReq EXCEPT ![<<u, k>>] = Idle]
           \/ userReq' = [userReq EXCEPT ![<<u, k>>] = [req EXCEPT !.stage = "locked"]]
    BY <1>7, <2>1 DEF RateUpdate, tables
  <2>3. CASE userReq' = [userReq EXCEPT ![<<u, k>>] = Idle]
    BY <1>1, <1>2, <2>2, <2>3, RequestTypes
  <2>4. CASE userReq' = [userReq EXCEPT ![<<u, k>>] = [req EXCEPT !.stage = "locked"]]
    <3>1. PICK new : new = [req EXCEPT !.stage = "locked"]
      OBVIOUS
    <3>2. /\ new.op = "rate" /\ new.rides = req.rides /\ new.stage # "paid"
          /\ new \in UserRequest
      BY <2>2, <3>1, RequestTypes DEF UserRequest
    <3>. QED  BY <1>1, <1>2, <2>1, <2>2, <2>4, <3>1, <3>2
  <2>. QED  BY <2>2, <2>3, <2>4
<1>8. ASSUME NEW k \in UserConns, UserAbort(u, k) PROVE PaidInv'
  <2>1. /\ userReq' = [userReq EXCEPT ![<<u, k>>] = Idle]
        /\ UNCHANGED <<rides, log, payments>>
    BY <1>8 DEF UserAbort, tables
  <2>. QED  BY <1>1, <1>2, <2>1, RequestTypes
<1>. QED
  BY <1>3, <1>4, <1>5, <1>6, <1>7, <1>8, LatePaid, BeginPaid, PayPaid, CommitPaid
  DEF UserStep

LEMMA NextPaid ==
  ASSUME Serial, Typed, Typed', Safe, PaidInv, [Next]_vars
  PROVE  PaidInv'
<1>1. UNCHANGED <<rides, log>> => \A v \in Users : Finished(v)' = Finished(v)
  BY DEF Finished, RideIds, Rows
<1>2. ASSUME UNCHANGED <<payments, userReq>>,
             \A v \in Users : Finished(v)' = Finished(v)
      PROVE  PaidInv'
  BY <1>2, PaidKept DEF Listed
<1>3. ASSUME NEW c \in Chairs, ChairStep(c) PROVE PaidInv'
  <2>1. UNCHANGED <<payments, userReq>>
    BY <1>3 DEF ChairStep, SetActivity, ChairNotify, Accept, Depart, MoveBegin,
      MoveCommit, ChairAbort
  <2>2. \A v \in Users : Finished(v)' = Finished(v)
    BY <1>3, ChairStepKinds, KeepsFinished
  <2>. QED  BY <1>2, <2>1, <2>2
<1>4. ASSUME NEW m \in Matchers, MatchStep(m) PROVE PaidInv'
  <2>1. /\ UNCHANGED <<payments, userReq>>
        /\ MatchAssign(m) \/ UNCHANGED <<rides, log>>
    BY <1>4 DEF MatchStep, MatchRide, MatchChair, MatchNoChair, MatchChairError,
      MatchCheck, MatchAssign, MatchAbort, tables
  <2>. QED  BY <1>1, <1>2, <2>1, AssignFinishes
<1>5. CASE UNCHANGED vars
  BY <1>1, <1>2, <1>5 DEF vars
<1>6. CASE Settled
  BY <1>5, <1>6 DEF Settled
<1>. QED  BY <1>3, <1>4, <1>5, <1>6, UserPaid DEF Next

LEMMA InitPaid == Init => PaidInv
<1>. SUFFICES ASSUME Init PROVE PaidInv
  OBVIOUS
<1>1. \A u \in Users : Finished(u) = {} /\ Listed(u) = {}
  BY DEF Init, Finished, Listed, RideIds
<1>2. \A u \in Users : Done(u) = 0 /\ Paid(u) = 0
  BY <1>1, FS_EmptySet DEF Done, Paid
<1>3. \A u \in Users, k \in UserConns : userReq[<<u, k>>].op # "rate"
  BY RequestTypes DEF Init
<1>. QED  BY <1>2, <1>3 DEF PaidInv, RatingPaid

\* Nobody has completed more rides than they have paid for, although a failed
\* attempt is taken for a payment when the counts agree, a transaction may stop
\* after its payment, and payments are recorded late.
THEOREM PaymentsCorrect ==
  ASSUME Serial
  PROVE  Spec => []PaidAsOftenAsCompleted
<1>1. Typed /\ Safe /\ PaidInv /\ [Next]_vars => Typed' /\ Safe' /\ PaidInv'
  BY NextType, NextSafe, NextPaid
<1>2. Typed /\ Safe /\ PaidInv => PaidAsOftenAsCompleted
  BY CompletedIsFinished DEF PaidInv, PaidAsOftenAsCompleted, Done, Paid, Safe, TableInv
<1>. QED  BY <1>1, <1>2, InitType, InitSafe, InitPaid, PTL DEF Spec

=============================================================================
