------------------------------- MODULE Audits -------------------------------
(***************************************************************************)
(* Owner.Tick (owner.go): in the middle of an hour the owner audits the    *)
(* distances of the chairs (Driving), in its last tick the sales (Sales).  *)
(* The two read different data, so a behaviour has one of them, drawn at   *)
(* the start.                                                              *)
(***************************************************************************)
EXTENDS Driving, Sales

VARIABLE hour   \* the part of the hour the behaviour is about: "half", "last"

auditVars == <<driveVars, salesVars, hour>>

\* In the last tick all drives are alike: one of them is enough.
Init ==
  /\ hour \in {"half", "last"} /\ DriveInit /\ SalesInit
  /\ hour = "last" => ~detour.planned /\ \A l \in Legs, s \in Speeds :
                        DistanceTo(l[1], l[2]) >= Length /\ s >= speed

Next ==
  \/ hour = "half" /\ DriveNext /\ UNCHANGED <<salesVars, hour>>
  \/ hour = "last" /\ SalesNext /\ UNCHANGED <<driveVars, hour>>

Spec == Init /\ [][Next]_auditVars

\* Every variable has its type, and a chair is never further from where it has
\* to be than at first, but for what its detour leads astray (coordinate.go:49).
TypeOK == DriveTypeOK /\ SalesTypeOK /\ hour \in {"half", "last"}
=============================================================================
