------------------------------- MODULE Sales -------------------------------
(***************************************************************************)
(* The sales of an owner: rides that users evaluate at the same time       *)
(* (appPostRideEvaluatation, user.go), the sum the server serves over the  *)
(* COMPLETED rides of a period (ownerGetSales), and the owner who compares *)
(* it with the rides known to be completed (owner.go).                     *)
(*                                                                         *)
(* updated_at is the time of an UPDATE that precedes the payment; the ride *)
(* is COMPLETED for others at the commit, and known to the owner once the  *)
(* answer has reached the user.  Rides may overtake one another in all     *)
(* three.  Time has a resolution of half a millisecond; answers and the    *)
(* parameter until have whole ones.                                        *)
(***************************************************************************)
EXTENDS Integers, FiniteSets, FiniteSetsExt

CONSTANTS
  Rides,      \* rides of the owner's chairs
  Sale,       \* [Rides -> sale of the ride]
  Groups,     \* the rides of each chair, of each model, and all of them
  MaxTime     \* bound of the instance: half milliseconds

ASSUME SalesAssumption ==
  /\ IsFiniteSet(Rides) /\ Sale \in [Rides -> Nat \ {0}]
  /\ Groups \subseteq SUBSET Rides /\ MaxTime \in Nat

VARIABLES
  ride,       \* [phase, at]: of each ride; at is updated_at
  now,
  audit       \* of the sales: its step, its period, the rides of the owner's
              \* list when it was copied, and the rides the server summed

salesVars == <<ride, now, audit>>

\* UnixMilli
Ms(t) == t \div 2

In(phases) == {r \in Rides : ride[r].phase \in phases}

\* What ValidateSales compares: the sum over a group.
Total(rides, group) == MapThenSumSet(LAMBDA r : Sale[r], rides \cap group)

-----------------------------------------------------------------------------
(* Evaluations *)

\* The UPDATE of the mark, which sets updated_at.
Evaluate(r) ==
  /\ ride[r].phase = "arrived"
  /\ ride' = [ride EXCEPT ![r] = [phase |-> "paying", at |-> now]]
  /\ UNCHANGED <<now, audit>>

\* The payment failed, or the transaction did.
Rollback(r) ==
  /\ ride[r].phase = "paying"
  /\ ride' = [ride EXCEPT ![r] = [phase |-> "arrived", at |-> 0]]
  /\ UNCHANGED <<now, audit>>

Commit(r) ==
  /\ ride[r].phase = "paying"
  /\ ride' = [ride EXCEPT ![r].phase = "completed"]
  /\ UNCHANGED <<now, audit>>

\* The user has the answer: CompletedRequest.Append.
Receive(r) ==
  /\ ride[r].phase = "completed"
  /\ ride' = [ride EXCEPT ![r].phase = "known"]
  /\ UNCHANGED <<now, audit>>

Pass ==
  /\ now < MaxTime
  /\ now' = now + 1
  /\ UNCHANGED <<ride, audit>>

-----------------------------------------------------------------------------
(* The audit *)

\* The server completion time of the last known ride; none without a ride.
ChooseUntil ==
  /\ audit.pc \in {"idle", "accepted", "small", "large"} /\ In({"known"}) # {}
  /\ audit' = [audit EXCEPT !.pc = "chosen",
                            !.until = Max({Ms(ride[r].at) : r \in In({"known"})})]
  /\ UNCHANGED <<ride, now>>

\* completedRequestsSnapshot
CopyList ==
  /\ audit.pc = "chosen"
  /\ audit' = [audit EXCEPT !.pc = "copied", !.copy = In({"known"})]
  /\ UNCHANGED <<ride, now>>

\* Mutant: the period ends at the first instant of its last millisecond.
PeriodEndsBare(until) == 2 * until

\* until + INTERVAL 999 MICROSECOND
PeriodEnds(until) == 2 * until + 1

\* ownerGetSales: one snapshot of all rides that are COMPLETED.
Serve ==
  /\ audit.pc = "copied"
  /\ audit' = [audit EXCEPT !.pc = "served",
                 !.served = {r \in In({"completed", "known"}) :
                               ride[r].at <= PeriodEnds(audit.until)}]
  /\ UNCHANGED <<ride, now>>

\* getExpectedSalesPerChairsOrModels
Expected(list) == {r \in list : Ms(ride[r].at) <= audit.until}

\* ValidateSales: not less than the copy gives, not more than the list gives by
\* now.
ValidateSales ==
  LET less(list, g) == Total(audit.served, g) < Total(Expected(list), g)
      more(list, g) == Total(audit.served, g) > Total(Expected(list), g)
  IN  /\ audit.pc = "served"
      /\ \/ /\ \E g \in Groups : less(audit.copy, g)
            /\ audit' = [audit EXCEPT !.pc = "small"]
         \/ /\ \E g \in Groups : more(In({"known"}), g)
            /\ audit' = [audit EXCEPT !.pc = "large"]
         \/ /\ \A g \in Groups : ~less(audit.copy, g) /\ ~more(In({"known"}), g)
            /\ audit' = [audit EXCEPT !.pc = "accepted"]
      /\ UNCHANGED <<ride, now>>

-----------------------------------------------------------------------------
(* Specification *)

SalesInit ==
  /\ ride = [r \in Rides |-> [phase |-> "arrived", at |-> 0]] /\ now = 0
  /\ audit = [pc |-> "idle", until |-> 0, copy |-> {}, served |-> {}]

SalesNext ==
  \/ \E r \in Rides : Evaluate(r) \/ Rollback(r) \/ Commit(r) \/ Receive(r)
  \/ Pass \/ ChooseUntil \/ CopyList \/ Serve \/ ValidateSales

SalesTypeOK ==
  /\ ride \in [Rides -> [phase : {"arrived", "paying", "completed", "known"}, at : 0 .. MaxTime]]
  /\ now \in 0 .. MaxTime
  /\ audit \in [pc : {"idle", "chosen", "copied", "served", "accepted", "small", "large"},
                until : 0 .. Ms(MaxTime), copy : SUBSET Rides, served : SUBSET Rides]

-----------------------------------------------------------------------------
(* Properties *)

\* The server's sales are never less than the owner has to see, and more only
\* while the answer to the evaluation of one of the rides is under way: of the
\* audit's two errors one is always the server's, the other may come from a
\* ride that took longer to pay than a later one (owner.go:189, 192,
\* app_handlers.go:543, 642).
SalesAuditIsFair ==
  [][audit.pc = "served" =>
       /\ audit'.pc # "small"
       /\ audit'.pc = "large" => audit.served \cap In({"completed"}) # {}]_salesVars
=============================================================================
