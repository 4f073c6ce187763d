------------------------------ MODULE Driving ------------------------------
(***************************************************************************)
(* A chair that drives to a pickup point or a destination, one move per    *)
(* tick (chair.go), the positions it has told the server (chair_routes.go, *)
(* table chair_locations), and the owner who compares the total distances  *)
(* of both (owner.go).  After each move the chair sends its coordinate     *)
(* until an answer arrives; an answer may be lost after its row was        *)
(* committed.                                                              *)
(*                                                                         *)
(* A row's created_at is its place in the table.  The three readings of    *)
(* the audit, the server's list and the two totals it is compared with,    *)
(* are steps of their own.                                                 *)
(***************************************************************************)
EXTENDS Geometry, Sequences, SequencesExt

CONSTANTS
  Legs,       \* pairs <<from, to>> of coordinates
  Speeds,     \* speeds of the chair models
  MaxLost     \* bound of the instance: answers and requests lost

ASSUME DrivingAssumption ==
  /\ Legs \subseteq Coordinate \X Coordinate
  /\ Speeds \subseteq Nat \ {0} /\ MaxLost \in Nat

VARIABLES
  leg,         \* where the chair starts and where it has to arrive
  speed,
  detour,      \* [planned, done, point]: of this leg
  history,     \* ChairLocation.history: coordinate and server time, 0 if none
  total,       \* totalTravelDistance
  ticks,       \* ticks since the leg began
  sending,     \* coordinate: "no", "due", "served" (the answer is under way)
  rows,        \* chair_locations of the chair, in created_at order
  lost,
  owner        \* the audit: its step, what the server said, and whether that
               \* includes a move whose answer the chair was still waiting for

driveVars == <<leg, speed, detour, history, total, ticks, sending, rows, lost, owner>>
chairVars == <<leg, speed, detour, history, total, ticks>>

Current == Last(history).coord
Arrived == Current = leg[2] /\ ticks > 0
Length == DistanceTo(leg[1], leg[2])

-----------------------------------------------------------------------------
(* Distances *)

\* The length of the way from start over the points of path whose numbers are in
\* S, and where it ends.
WayAlong(start, path, S) ==
  LET way[i \in 0 .. Len(path)] ==
        IF i = 0 THEN [length |-> 0, end |-> start]
        ELSE LET before == way[i - 1]
             IN  IF i \in S
                 THEN [length |-> before.length + DistanceTo(before.end, path[i]), end |-> path[i]]
                 ELSE before
  IN  way[Len(path)]

\* SUM of the distances to the row before (LAG) over chair_locations.
TotalDistance == WayAlong(rows[1], rows, DOMAIN rows).length

\* Mutant: an entry recorded at until itself is left out.
SentBefore(until) ==
  {i \in DOMAIN history : history[i].at # 0 /\ \A j \in 1 .. i : history[j].at < until}

\* The entries that have a server time, up to the first one after until.
SentUntil(until) ==
  {i \in DOMAIN history : history[i].at # 0 /\ \A j \in 1 .. i : history[j].at <= until}

TravelDistanceUntil(until) ==
  WayAlong(leg[1], [i \in DOMAIN history |-> history[i].coord], SentUntil(until)).length

-----------------------------------------------------------------------------
(* The chair *)

\* Mutant: the distance is taken from the new position.
MoveToSwapped(c) ==
  /\ history' = Append(history, [coord |-> c, at |-> 0])
  /\ total' = total + DistanceTo(c, c)
  /\ ticks' = ticks + 1
  /\ sending' = "due"

MoveTo(c) ==
  /\ history' = Append(history, [coord |-> c, at |-> 0])
  /\ total' = total + DistanceTo(Current, c)
  /\ ticks' = ticks + 1
  /\ sending' = "due"

\* Straight on, toward the detour point, or one move away from the target once
\* the chair is there.
Drive ==
  LET heading == detour.planned /\ ~detour.done IN
  /\ sending = "no" /\ ~Arrived
  /\ \/ /\ heading /\ Current = detour.point
        /\ \E c \in MoveOppositeTo(Current, leg[2], speed) : MoveTo(c)
        /\ detour' = [detour EXCEPT !.done = TRUE]
     \/ /\ heading /\ Current # detour.point
        /\ \E x \in 0 .. speed : MoveTo(MoveToward(Current, detour.point, speed, x))
        /\ UNCHANGED detour
     \/ /\ ~heading
        /\ \E x \in 0 .. speed : MoveTo(MoveToward(Current, leg[2], speed, x))
        /\ UNCHANGED detour
  /\ UNCHANGED <<leg, speed, rows, lost, owner>>

\* chairPostCoordinate commits a row.
Record ==
  /\ sending = "due"
  /\ rows' = Append(rows, Current)
  /\ sending' = "served"
  /\ UNCHANGED <<chairVars, lost, owner>>

\* The request or its answer is lost; backoff.Retry sends it again.
Lose ==
  /\ sending \in {"due", "served"} /\ lost < MaxLost
  /\ sending' = "due" /\ lost' = lost + 1
  /\ UNCHANGED <<chairVars, rows, owner>>

\* Mutant: the time of the answer is not kept.
AnswerTimeless ==
  /\ sending = "served" /\ sending' = "no"
  /\ UNCHANGED <<chairVars, rows, lost, owner>>

\* SetServerTime and ResetDirtyFlag.
Answer ==
  /\ sending = "served"
  /\ history' = [history EXCEPT ![Len(history)].at = Len(rows)]
  /\ sending' = "no"
  /\ UNCHANGED <<leg, speed, detour, total, ticks, rows, lost, owner>>

-----------------------------------------------------------------------------
(* The owner's audit of total_distance and total_distance_updated_at *)

ListChairs ==
  /\ owner.pc = "idle"
  /\ owner' = [pc |-> "listed", distance |-> TotalDistance, updatedAt |-> Len(rows),
               ahead |-> TotalDistance = total /\ Last(history).at = 0]
  /\ UNCHANGED <<chairVars, sending, rows, lost>>

CompareUntil ==
  /\ owner.pc = "listed"
  /\ owner' = [owner EXCEPT !.pc = IF owner.distance = TravelDistanceUntil(owner.updatedAt)
                                   THEN "accepted" ELSE "doubtful"]
  /\ UNCHANGED <<chairVars, sending, rows, lost>>

CompareTotal ==
  /\ owner.pc = "doubtful"
  /\ owner' = [owner EXCEPT !.pc = IF owner.distance = total THEN "accepted" ELSE "rejected"]
  /\ UNCHANGED <<chairVars, sending, rows, lost>>

-----------------------------------------------------------------------------
(* Specification *)

\* The chair was placed at the start of its first leg, and has said so.
DriveInit ==
  /\ leg \in Legs /\ speed \in Speeds
  /\ \/ detour = [planned |-> FALSE, done |-> FALSE, point |-> leg[1]]
     \/ \E moveX \in 0 .. DetourMove(leg[1], leg[2], speed) :
          detour = [planned |-> TRUE, done |-> FALSE,
                    point |-> CalculateRandomDetourPoint(leg[1], leg[2], speed, moveX)]
  /\ history = <<[coord |-> leg[1], at |-> 1]>> /\ total = 0 /\ ticks = 0
  /\ sending = "no" /\ rows = <<leg[1]>> /\ lost = 0
  /\ owner = [pc |-> "idle", distance |-> 0, updatedAt |-> 0, ahead |-> FALSE]

DriveNext ==
  \/ Drive \/ Record \/ Lose \/ Answer
  \/ ListChairs \/ CompareUntil \/ CompareTotal

\* How far the detour point lies beyond the target, on either axis.
Overshoot ==
  LET past(a, b, p) == IF (a < b /\ p > b) \/ (a > b /\ p < b) THEN Abs(p - b) ELSE 0
  IN  past(leg[1].x, leg[2].x, detour.point.x) + past(leg[1].y, leg[2].y, detour.point.y)

\* How far a detour leads astray: past the target, and one move more.
Astray == IF detour.planned THEN speed + Overshoot ELSE 0

DriveTypeOK ==
  /\ leg \in Legs /\ speed \in Speeds
  /\ detour \in [planned : BOOLEAN, done : BOOLEAN, point : Coordinate]
  /\ history \in Seq([coord : Coordinate, at : Nat]) /\ history # <<>>
  /\ \A i \in DOMAIN history : DistanceTo(history[i].coord, leg[2]) <= Length + Astray
  /\ total \in Nat /\ ticks \in Nat /\ lost \in 0 .. MaxLost
  /\ sending \in {"no", "due", "served"} /\ rows \in Seq(Coordinate)
  /\ owner \in [pc : {"idle", "listed", "accepted", "doubtful", "rejected"},
                distance : Nat, updatedAt : Nat, ahead : BOOLEAN]

-----------------------------------------------------------------------------
(* Properties *)

\* Whatever is drawn, a chair needs the ticks for its way, its detour and back, not
\* one more or less, and without a detour no tick moves it by less than its
\* speed before it arrives (chair_test.go:98, chair.go:156, coordinate.go:164).
ArrivesInTime ==
  /\ Length > 0 => (Arrived <=> ticks = NeededTime(Length + 2 * Astray, speed))
  /\ ~detour.planned => total = IF ticks * speed < Length THEN ticks * speed ELSE Length

\* The length of the moves the server has answered.
Answered == total - IF Last(history).at # 0 THEN 0
                    ELSE DistanceTo(history[Len(history) - 1].coord, Current)

\* The server's distance, a sum over rows that may repeat, is the chair's: with
\* the last move or, as long as its coordinate has not been recorded, without
\* (owner_handlers.go:197, chair_routes.go:60).
DistancesAgree ==
  /\ TotalDistance \in {total, Answered}
  /\ sending # "due" => TotalDistance = total
  /\ TravelDistanceUntil(Len(rows)) = Answered

\* Whatever position the server may list a chair at, now or later, the chair is
\* there or has an entry with a server time for it: nobody is told of a chair
\* where it has never been (world.go:356, chair_routes.go:119).
PositionsKnown ==
  \A i \in DOMAIN rows :
    rows[i] = Current \/ \E h \in DOMAIN history :
                           history[h].at # 0 /\ history[h].coord = rows[i]

\* The audit rejects a distance, which is always right, only if the server
\* had recorded the move before the chair had its answer, and the chair moved
\* once more before the second comparison (owner.go:240).
DistanceAuditIsFair == owner.pc = "rejected" => owner.ahead
=============================================================================
