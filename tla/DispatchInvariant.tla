------------------------- MODULE DispatchInvariant -------------------------
(***************************************************************************)
(* The inductive invariant behind the safety properties of Dispatch, for   *)
(* clients and matchers that are Serial.  The properties are about the     *)
(* tables; they are inductive only with what is known of the requests in   *)
(* progress between a handler's check and its write.                       *)
(***************************************************************************)
EXTENDS Dispatch

Rows(r) == Len(log[r])

\* The form in which FullySent is used: every state reached and sent.
Released(r) == Rows(r) = FullLog /\ \A i \in 1 .. FullLog : log[r][i].chair

\* A ride waits without a chair in its first state only, and every later state
\* has been preceded by an acceptance its chair knows of.
OnlyAssignedRidesMove ==
  \A r \in RideIds :
    /\ rides[r].chair = NoChair => Rows(r) = 1
    /\ Rows(r) > 1 => <<rides[r].chair, r>> \in acked

\* A user's rides are over before the next one exists.
UserRidesInTurn ==
  \A r, s \in RideIds :
    r < s /\ rides[r].user = rides[s].user => Rows(r) = FullLog

ChairRidesInTurn ==
  \A r, s \in RideIds :
    r # s /\ rides[r].chair = rides[s].chair /\ rides[r].chair # NoChair
      => Released(r) \/ Released(s)

\* What a handler has checked still holds when it writes.
BookingStillAllowed ==
  \A u \in Users, k \in UserConns :
    userReq[<<u, k>>].op = "book" => \A r \in RidesOf(u) : Rows(r) = FullLog

RatingStillAllowed ==
  \A u \in Users, k \in UserConns :
    userReq[<<u, k>>].op = "rate"
      => LET r == userReq[<<u, k>>].ride
         IN  rides[r].user = u /\ Rows(r) = 5 /\ rides[r].chair # NoChair

MoveStillAllowed ==
  \A c \in Chairs, k \in ChairConns :
    chairReq[<<c, k>>].op = "move"
      => LET req == chairReq[<<c, k>>]
         IN  /\ rides[req.ride].chair = c
             /\ Rows(req.ride) \in {2, 4}
             /\ req.status = Flow[Rows(req.ride) + 1]

MatchStillAllowed ==
  \A m \in Matchers :
    /\ match[m].op # "idle" => rides[match[m].ride].chair = NoChair
    /\ match[m].op = "assign"
         => \A r \in RidesOfChair(match[m].chair) : Released(r)

TableInv ==
  /\ StatusLogIsPath
  /\ OnlyAssignedRidesMove
  /\ UserRidesInTurn
  /\ ChairRidesInTurn

\* Every check made before a write is still true at the write: the inductive
\* invariant of Dispatch.
IInv ==
  /\ TypeOK
  /\ TableInv
  /\ BookingStillAllowed
  /\ RatingStillAllowed
  /\ MoveStillAllowed
  /\ MatchStillAllowed
=============================================================================
