---------------------------- MODULE RideService ----------------------------
(***************************************************************************)
(* What docs/ISURIDE.md promises about rides, with each transition in one  *)
(* step: a ride passes through its six states in order; a user requests    *)
(* no other ride, and a chair accepts no other, before it is COMPLETED.    *)
(***************************************************************************)
EXTENDS RideStatus

CONSTANTS Users, Chairs, NoChair

VARIABLE trips   \* the rides requested so far, in order

\* The ride is requested by a user without an unfinished one.
Request(u) ==
  /\ \A r \in DOMAIN trips : trips[r].user = u => trips[r].status = "COMPLETED"
  /\ trips' = Append(trips,
                     [user |-> u, chair |-> NoChair, status |-> "MATCHING"])

\* The ride, still waiting, gets a chair without an unfinished ride.
Assign(r, c) ==
  /\ trips[r].chair = NoChair
  /\ trips[r].status = "MATCHING"
  /\ \A s \in DOMAIN trips : trips[s].chair = c => trips[s].status = "COMPLETED"
  /\ trips' = [trips EXCEPT ![r].chair = c]

\* A ride with a chair enters its next state.
Advance(r) ==
  /\ trips[r].chair # NoChair
  /\ \E i \in 1 .. FullLog - 1 :
       /\ trips[r].status = Flow[i]
       /\ trips' = [trips EXCEPT ![r].status = Flow[i + 1]]

Init == trips = <<>>

Next ==
  \/ \E u \in Users : Request(u)
  \/ \E r \in DOMAIN trips : Advance(r) \/ \E c \in Chairs : Assign(r, c)

Spec == Init /\ [][Next]_trips
=============================================================================
